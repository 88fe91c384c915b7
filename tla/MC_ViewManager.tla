--------------------------- MODULE MC_ViewManager ---------------------------
(* Two documents, opened once and saved once, and at most two renders in flight. *)
EXTENDS ViewManager, TLC

CONSTANTS a, b

MCDocs == {a, b}
MCMaxVersion == 1
MCMaxOpens == 1
MCMaxRenders == 2

\* b is not an rst document; preview() does not check the language.
MCRstDocs == {a}

\* A single rst document, for the order of answers alone.
MCOneDoc == {a}
MCMaxOpensTwice == 2

\* The documents are interchangeable when they are all rst documents.
Symmetry == Permutations(MCDocs)
=============================================================================
