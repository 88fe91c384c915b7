--------------------------- MODULE MC_SphinxExec ---------------------------
(* Model values and small sets for checking SphinxExec with TLC.          *)
EXTENDS SphinxExec, TLC

\* stdout is empty or two chunks, so 'exit' can come between them.
MCStdout == { << >>, << {"output"}, {"output"} >> }

\* stderr is empty, one classified line, or a warning followed by a line
\* that matches two patterns (the earlier-listed one must win).
MCStderr ==
    { << >>,
      << {"NotAGitRepository"} >>,
      << {}, {"RepositoryIsLocked", "NotAGitRepository"} >> }

MCChildren ==
    { [spawnFails |-> FALSE, code |-> c,
       output |-> [s \in Streams |-> IF s = "stdout" THEN o ELSE e]] :
          c \in ExitCodes, o \in MCStdout, e \in MCStderr }
    \cup
    { [spawnFails |-> TRUE, code |-> Null,
       output |-> [s \in Streams |-> << >>]] }

MCExitCodes == {0, 1, Null}

MCCommands == {NoPath, "sphinx-build"}

Symmetry == Permutations(Invs)
=============================================================================
