----------------------------- MODULE SphinxExec -----------------------------
(***************************************************************************)
(* The process wrapper of lextudio.restructuredtext/out/sphinx.js: the    *)
(* methods preview, exec, _exec and spawn of class Sphinx, the module     *)
(* function exec(child, options) that joins three promises (exit/error,   *)
(* stdout close, stderr close) with Promise.all, and the classifier       *)
(* getSphinxErrorCode.                                                     *)
(*                                                                         *)
(* Each element of Invs is one call of exec/preview on one Sphinx         *)
(* instance; calls run concurrently and share the instance's sphinxPath   *)
(* and its log.  The child process is the environment: it emits 'data'   *)
(* and 'close' on its two streams and 'exit' (or 'error' when the spawn   *)
(* fails) in any order Node can deliver them.  Each event is one          *)
(* macrotask; the promise continuations it triggers run as microtasks     *)
(* before the next event, so they are part of the same step.              *)
(*                                                                         *)
(* Data is abstracted: a chunk of output is the set of phrases it         *)
(* contains that a property can tell apart (the error patterns of         *)
(* getSphinxErrorCode, or "output"); text is a sequence of chunks.        *)
(***************************************************************************)
EXTENDS Naturals, Sequences, SequencesExt

CONSTANTS
    Invs,        \* calls of exec/preview on one Sphinx instance
    Commands,    \* values preview(command, ...) may be called with
    NoPath,      \* sphinxPath undefined (falsy)
    Null,        \* exit code null: the child was ended by a signal
    ExitCodes,   \* exit codes the child may report, Null included
    Children,    \* behaviours of the spawned child (see ChildType)
    NoChild, NoResult, Undefined

Streams == {"stdout", "stderr"}

\* SphinxErrorCodes, in the order getSphinxErrorCode tests their patterns.
SphinxErrorTests ==
    << "RepositoryIsLocked", "AuthenticationFailed", "NotAGitRepository",
       "BadConfigFile", "CantCreatePipe", "RepositoryNotFound",
       "CantAccessRemote", "BranchNotFullyMerged" >>

Phrases == ToSet(SphinxErrorTests) \cup {"output"}
Chunk == SUBSET Phrases

ChildType ==
    [spawnFails: BOOLEAN, code: ExitCodes, output: [Streams -> Seq(Chunk)]]

ASSUME /\ NoPath \in Commands /\ Null \in ExitCodes /\ 0 \in ExitCodes
       /\ Children \subseteq ChildType

\* The listeners exec() registers with once/on; each is removed by
\* dispose(disposables), a 'once' listener also when it fires.
DataListener(s) == s \o ".data"
CloseListener(s) == s \o ".close"
Listeners ==
    {"error", "exit"} \cup {DataListener(s) : s \in Streams}
                      \cup {CloseListener(s) : s \in Streams}

VARIABLES
    sphinxPath,  \* this.sphinxPath
    opts,        \* options.log !== false, options.input given
    child,       \* the spawned child process, NoChild before spawn
    stdin,       \* "ignore" (stdio[0] = 'ignore') or "ended" (stdin.end(input))
    emitted,     \* chunks each stream of the child has emitted so far
    closed,      \* the stream has emitted 'close'
    exited,      \* the child has emitted 'exit' or 'error'
    listeners,   \* registered, not yet removed listeners
    buffers,     \* the buffers arrays of the two stream promises
    pExit,       \* the promise settled by 'exit' (c) or 'error' (e)
    pStream,     \* the promises settled by each stream's 'close'
    outcome,     \* state of the promise returned by _exec
    result,      \* the ExecutionResult or SphinxError it settled with
    log          \* the 'log' events emitted on this._onOutput

vars == <<sphinxPath, opts, child, stdin, emitted, closed, exited, listeners,
          buffers, pExit, pStream, outcome, result, log>>

Outcomes == {"idle", "threw", "pending", "spawnError", "ok", "failed"}

Result ==
    [exitCode: ExitCodes, stdout: Seq(Chunk), stderr: Seq(Chunk),
     kind: ToSet(SphinxErrorTests) \cup {Undefined}]

-----------------------------------------------------------------------------
\* The regular expression of error kind p finds a match in stderr.
Test(p, stderr) == \E k \in DOMAIN stderr : p \in stderr[k]

\* getSphinxErrorCode: the first pattern, in the order of the if-chain,
\* that the regular expression finds somewhere in stderr; undefined if none.
getSphinxErrorCode(stderr) ==
    LET k == SelectInSeq(SphinxErrorTests, LAMBDA p : Test(p, stderr))
    IN  IF k = 0 THEN Undefined ELSE SphinxErrorTests[k]

\* new SphinxError({...}) of _exec: the result's output and exit code and
\* the sphinxErrorCode of its stderr (message and command are text).
SphinxError(code, out, err) ==
    [exitCode |-> code, stdout |-> out, stderr |-> err,
     kind |-> getSphinxErrorCode(err)]

\* `if (result.exitCode)`: null and 0 are falsy, so only they succeed.
IsFailure(code) == code \notin {0, Null}

\* Mutant: a join that never short-circuits on a rejection.
RejectsNever(pe) == FALSE

\* Promise.all rejects as soon as one of its promises rejects.
Rejects(pe) == pe = "rejected"

\* Mutant: resuming on 'exit' alone, before the streams have closed.
AllSettledOnExit(pe, ps) == pe = "fulfilled"

\* Promise.all fulfils once all three promises are fulfilled.
AllSettled(pe, ps) == pe = "fulfilled" /\ \A s \in Streams : ps[s] = "fulfilled"

\* Mutant: stderr logged after the exit-code check, on success only.
StderrLogOnSuccess(i, res) ==
    IF opts[i].log /\ Len(res.stderr) > 0 /\ ~IsFailure(res.exitCode)
    THEN << <<"stderr", i>> >> ELSE << >>

\* `if (options.log !== false && result.stderr.length > 0) this.log(...)`
StderrLog(i, res) ==
    IF opts[i].log /\ Len(res.stderr) > 0 THEN << <<"stderr", i>> >> ELSE << >>

\* Mutant: spawn without the default `stdio = ['ignore', ...]`, leaving the
\* child's stdin an open pipe.
StdinModeNoDefault(inp) == IF inp THEN "ended" ELSE "pipe"

\* spawn throws when this.sphinxPath is falsy.
Throws(path) == path = NoPath

\* spawn logs the command line unless log is false.
CommandLog(i, lg) == IF lg THEN << <<"cmd", i>> >> ELSE << >>

\* spawn ignores stdin unless input is given; _exec then ends stdin with it.
StdinMode(inp) == IF inp THEN "ended" ELSE "ignore"

-----------------------------------------------------------------------------
Init ==
    /\ sphinxPath \in Commands
    /\ opts = [i \in Invs |-> [log |-> TRUE, input |-> FALSE]]
    /\ child = [i \in Invs |-> NoChild]
    /\ stdin = [i \in Invs |-> "ignore"]
    /\ emitted = [i \in Invs |-> [s \in Streams |-> 0]]
    /\ closed = [i \in Invs |-> [s \in Streams |-> FALSE]]
    /\ exited = [i \in Invs |-> FALSE]
    /\ listeners = [i \in Invs |-> {}]
    /\ buffers = [i \in Invs |-> [s \in Streams |-> << >>]]
    /\ pExit = [i \in Invs |-> "pending"]
    /\ pStream = [i \in Invs |-> [s \in Streams |-> "pending"]]
    /\ outcome = [i \in Invs |-> "idle"]
    /\ result = [i \in Invs |-> NoResult]
    /\ log = << >>

(* The synchronous prefix of _exec(args, options) with sphinxPath = path: *)
(* spawn() throws when the path is falsy; otherwise it logs the command,  *)
(* sets stdio and env and spawns; _exec ends stdin when input is given;   *)
(* exec(child) registers its six listeners and suspends on Promise.all.   *)
Start(i, path, lg, inp) ==
    /\ outcome[i] = "idle"
    /\ opts' = [opts EXCEPT ![i] = [log |-> lg, input |-> inp]]
    /\ IF Throws(path)
       THEN /\ outcome' = [outcome EXCEPT ![i] = "threw"]
            /\ UNCHANGED <<child, stdin, listeners, log>>
       ELSE /\ \E c \in Children : child' = [child EXCEPT ![i] = c]
            /\ stdin' = [stdin EXCEPT ![i] = StdinMode(inp)]
            /\ log' = log \o CommandLog(i, lg)
            /\ listeners' = [listeners EXCEPT ![i] = Listeners]
            /\ outcome' = [outcome EXCEPT ![i] = "pending"]
    /\ UNCHANGED <<emitted, closed, exited, buffers, pExit, pStream, result>>

\* exec(cwd, args, options): _exec with the instance's current sphinxPath.
Exec(i, lg, inp) ==
    /\ Start(i, sphinxPath, lg, inp)
    /\ UNCHANGED sphinxPath

\* preview(command, args): this.sphinxPath = command, then exec("", args)
\* with default options (logging on, no input).
Preview(i, cmd) ==
    /\ sphinxPath' = cmd
    /\ Start(i, cmd, TRUE, FALSE)

(* After an event has left listeners ls and promise states pe, ps: the    *)
(* microtasks of Promise.all and of _exec's continuation.  On rejection   *)
(* the error propagates out of _exec with no dispose; on fulfilment exec  *)
(* disposes its listeners and _exec logs stderr, then resolves or rejects *)
(* by the exit code.                                                       *)
Join(i, ls, pe, ps) ==
    /\ pExit' = [pExit EXCEPT ![i] = pe]
    /\ pStream' = [pStream EXCEPT ![i] = ps]
    /\ IF outcome[i] = "pending" /\ Rejects(pe)
       THEN /\ outcome' = [outcome EXCEPT ![i] = "spawnError"]
            /\ listeners' = [listeners EXCEPT ![i] = ls]
            /\ UNCHANGED <<result, log>>
       ELSE IF outcome[i] = "pending" /\ AllSettled(pe, ps)
       THEN LET code == child[i].code
                out  == buffers[i]["stdout"]
                err  == buffers[i]["stderr"]
                res  == IF IsFailure(code) THEN SphinxError(code, out, err)
                        ELSE [exitCode |-> code, stdout |-> out, stderr |-> err,
                              kind |-> Undefined]
            IN  /\ listeners' = [listeners EXCEPT ![i] = {}]
                /\ log' = log \o StderrLog(i, res)
                /\ result' = [result EXCEPT ![i] = res]
                /\ outcome' = [outcome EXCEPT ![i] =
                                  IF IsFailure(code) THEN "failed" ELSE "ok"]
       ELSE /\ listeners' = [listeners EXCEPT ![i] = ls]
            /\ UNCHANGED <<outcome, result, log>>

Spawned(i) == child[i] # NoChild

\* The child failed to spawn: 'error' fires once(child, 'error', e).
ChildError(i) ==
    /\ Spawned(i) /\ child[i].spawnFails /\ ~exited[i]
    /\ exited' = [exited EXCEPT ![i] = TRUE]
    /\ Join(i, listeners[i] \ {"error"},
            IF "error" \in listeners[i] THEN "rejected" ELSE pExit[i],
            pStream[i])
    /\ UNCHANGED <<sphinxPath, opts, child, stdin, emitted, closed, buffers>>

\* The child exits: 'exit' fires once(child, 'exit', c) with its code.
ChildExit(i) ==
    /\ Spawned(i) /\ ~child[i].spawnFails /\ ~exited[i]
    /\ exited' = [exited EXCEPT ![i] = TRUE]
    /\ Join(i, listeners[i] \ {"exit"},
            IF "exit" \in listeners[i] THEN "fulfilled" ELSE pExit[i],
            pStream[i])
    /\ UNCHANGED <<sphinxPath, opts, child, stdin, emitted, closed, buffers>>

\* A 'data' event: on(stream, 'data', b => buffers.push(b)).
StreamData(i, s) ==
    /\ Spawned(i) /\ ~closed[i][s]
    /\ emitted[i][s] < Len(child[i].output[s])
    /\ emitted' = [emitted EXCEPT ![i][s] = @ + 1]
    /\ buffers' = IF DataListener(s) \in listeners[i]
                  THEN [buffers EXCEPT ![i][s] =
                           Append(@, child[i].output[s][emitted[i][s] + 1])]
                  ELSE buffers
    /\ UNCHANGED <<sphinxPath, opts, child, stdin, closed, exited, listeners,
                   pExit, pStream, outcome, result, log>>

\* A stream ends after its last chunk: once(stream, 'close', ...) resolves
\* the stream's promise with the concatenated buffers.
StreamClose(i, s) ==
    /\ Spawned(i) /\ ~closed[i][s]
    /\ emitted[i][s] = Len(child[i].output[s])
    /\ closed' = [closed EXCEPT ![i][s] = TRUE]
    /\ Join(i, listeners[i] \ {CloseListener(s)}, pExit[i],
            IF CloseListener(s) \in listeners[i]
            THEN [pStream[i] EXCEPT ![s] = "fulfilled"] ELSE pStream[i])
    /\ UNCHANGED <<sphinxPath, opts, child, stdin, emitted, exited, buffers>>

Next ==
    \E i \in Invs :
        \/ \E lg, inp \in BOOLEAN : Exec(i, lg, inp)
        \/ \E cmd \in Commands : Preview(i, cmd)
        \/ ChildError(i)
        \/ ChildExit(i)
        \/ \E s \in Streams : StreamData(i, s) \/ StreamClose(i, s)

\* The OS and libuv deliver every pending event of a spawned child.
Fairness ==
    \A i \in Invs :
        /\ WF_vars(ChildError(i))
        /\ WF_vars(ChildExit(i))
        /\ \A s \in Streams : WF_vars(StreamData(i, s)) /\ WF_vars(StreamClose(i, s))

Spec == Init /\ [][Next]_vars
FairSpec == Spec /\ Fairness

-----------------------------------------------------------------------------
\* Every variable has its type; in particular stdin is never left an open
\* pipe: spawn ignores it or _exec ends it.
TypeOK ==
    /\ sphinxPath \in Commands
    /\ opts \in [Invs -> [log: BOOLEAN, input: BOOLEAN]]
    /\ child \in [Invs -> Children \cup {NoChild}]
    /\ stdin \in [Invs -> {"ignore", "ended"}]
    /\ emitted \in [Invs -> [Streams -> Nat]]
    /\ closed \in [Invs -> [Streams -> BOOLEAN]]
    /\ exited \in [Invs -> BOOLEAN]
    /\ listeners \in [Invs -> SUBSET Listeners]
    /\ buffers \in [Invs -> [Streams -> Seq(Chunk)]]
    /\ pExit \in [Invs -> {"pending", "fulfilled", "rejected"}]
    /\ pStream \in [Invs -> [Streams -> {"pending", "fulfilled"}]]
    /\ outcome \in [Invs -> Outcomes]
    /\ result \in [Invs -> Result \cup {NoResult}]
    /\ log \in Seq({"cmd", "stderr"} \X Invs)

\* The ExecutionResult or SphinxError a call settles with carries the whole
\* stdout and stderr the child wrote and the child's own exit code, and the
\* error kind is classified from the whole stderr: exec() must not resume
\* before both streams have closed, even when 'exit' comes first.
ResultReflectsChild ==
    \A i \in Invs : outcome[i] \in {"ok", "failed"} =>
        /\ result[i].exitCode = child[i].code
        /\ result[i].stdout = child[i].output["stdout"]
        /\ result[i].stderr = child[i].output["stderr"]
        /\ outcome[i] = "failed" =>
               result[i].kind = getSphinxErrorCode(child[i].output["stderr"])

\* _exec logs its command line when it spawns and, whether the call then
\* succeeds or fails, the child's stderr when it is non-empty, after that
\* command line; a call made with log: false logs nothing.
StderrLogged ==
    \A i \in Invs :
        /\ ~opts[i].log => \A k \in DOMAIN log : log[k][2] # i
        /\ outcome[i] \in {"ok", "failed"} /\ opts[i].log =>
               ((child[i].output["stderr"] # << >>) <=>
                   \E k, j \in DOMAIN log : j < k /\ log[j] = <<"cmd", i>>
                                          /\ log[k] = <<"stderr", i>>)

\* Every call whose child was spawned eventually settles, also when the
\* spawn fails and 'exit' never comes (Promise.all short-circuits on the
\* 'error' rejection).
Termination ==
    \A i \in Invs : outcome[i] = "pending" ~> outcome[i] # "pending"

\* Spec section 5: the listeners exec() registered are removed on every
\* exit path, the spawn-error short-circuit included.
NoListenerLeak ==
    \A i \in Invs : outcome[i] \in {"spawnError", "ok", "failed"} =>
        listeners[i] = {}

\* Spec section 3: an exit code that is non-zero or undefined is a failure;
\* a call resolves only when the child exited with code 0.
SuccessMeansExitZero ==
    \A i \in Invs : outcome[i] = "ok" => result[i].exitCode = 0

=============================================================================
