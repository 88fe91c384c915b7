---------------------------- MODULE TerminalSpawn ----------------------------
(***************************************************************************)
(* spawnTerminalEmulator of webfreak.debug/out/src/backend/linux/         *)
(* console.js.  It spawns a terminal emulator running                     *)
(*     sh -c "tty > <tmpfile> && sleep 4294967294"                        *)
(* and polls every 10 ms, with setInterval, for the temporary file: when  *)
(* it exists the interval is cleared, the file is read and unlinked, and  *)
(* the promise resolves with its text; after more than MaxIt polls that   *)
(* found no file the promise is rejected.                                 *)
(*                                                                         *)
(* The shell is the environment: the redirection creates the file empty,  *)
(* then tty writes the terminal's name into it.  The emulator may also    *)
(* never get that far (it is slow, or hangs).  The poll counter it only   *)
(* matters through `it > MaxIt`, so it saturates at MaxIt + 1.            *)
(*                                                                         *)
(* When the emulator cannot be spawned (it is not installed) the child     *)
(* emits 'error' on the next tick, before any timer.  Nothing listens for  *)
(* that event on the ChildProcess spawn returns, so it is thrown as an    *)
(* uncaught exception and the debug adapter process goes down with its    *)
(* interval and its pending promise.                                       *)
(***************************************************************************)
EXTENDS Naturals

CONSTANTS
    MaxIt,    \* the 500 of `if (it > 500)`
    Emulators \* outcomes of spawn: "found" or "missing" (ENOENT)

ASSUME MaxIt \in Nat /\ Emulators \subseteq {"found", "missing"}

VARIABLES
    file,      \* the temporary file: "none", "empty" (created by the
               \* redirection, not yet written) or "tty" (holds the name)
    it,        \* polls that found no file, saturated at MaxIt + 1
    interval,  \* the interval is still scheduled
    promise,   \* "pending", "resolved" or "rejected"
    value,     \* the text the promise resolved with: "none", "empty", "tty"
    emulator,  \* what spawn found: "found" or "missing"
    adapter    \* the debug adapter process: "up" or "down"

vars == <<file, it, interval, promise, value, emulator, adapter>>

Texts == {"none", "empty", "tty"}

\* `if (it > 500) reject()`
TimedOut(n) == n > MaxIt

\* Mutant: the poll forgets to count (`it++` dropped).
TickMissing(n) == n

\* `it++`, saturated once past MaxIt.
Tick(n) == IF n > MaxIt THEN n ELSE n + 1

\* Mutant: resolve() called without the text it read.
SettleNoValue(state, v) ==
    IF promise = "pending"
    THEN promise' = state /\ value' = "none"
    ELSE UNCHANGED <<promise, value>>

\* A settled promise ignores later resolve and reject calls.
Settle(state, v) ==
    IF promise = "pending"
    THEN promise' = state /\ value' = v
    ELSE UNCHANGED <<promise, value>>

\* The synchronous body of spawnTerminalEmulator: spawn, it = 0, setInterval.
Init ==
    /\ file = "none"
    /\ it = 0
    /\ interval = TRUE
    /\ promise = "pending"
    /\ value = "none"
    /\ emulator \in Emulators
    /\ adapter = "up"

\* The shell's redirection `> tmpfile` creates the file, empty.
CreateFile ==
    /\ emulator = "found" /\ adapter = "up"
    /\ file = "none"
    /\ file' = "empty"
    /\ UNCHANGED <<it, interval, promise, value, emulator, adapter>>

\* `tty` writes the terminal's name into the file.
WriteTty ==
    /\ file = "empty"
    /\ file' = "tty"
    /\ UNCHANGED <<it, interval, promise, value, emulator, adapter>>

\* The spawn failed: 'error' is emitted on the next tick with no listener,
\* the exception is uncaught and the adapter process exits, timers and all.
SpawnError ==
    /\ emulator = "missing" /\ adapter = "up"
    /\ adapter' = "down"
    /\ interval' = FALSE
    /\ UNCHANGED <<file, it, promise, value, emulator>>

\* One run of the interval callback.  When the file exists: clearInterval,
\* readFileSync, unlink, resolve.  Otherwise it++ and, past MaxIt, reject
\* (the interval stays scheduled).
Poll ==
    /\ interval /\ adapter = "up" /\ emulator = "found"
    /\ IF file # "none"
       THEN /\ interval' = FALSE
            /\ file' = "none"
            /\ Settle("resolved", file)
            /\ UNCHANGED it
       ELSE /\ it' = Tick(it)
            /\ IF TimedOut(it')
               THEN Settle("rejected", "none")
               ELSE UNCHANGED <<promise, value>>
            /\ UNCHANGED <<file, interval>>
    /\ UNCHANGED <<emulator, adapter>>

Next == CreateFile \/ WriteTty \/ SpawnError \/ Poll

\* Timers fire while the interval is scheduled, and the next tick runs.
\* The shell is not assumed to make progress: the emulator may hang.
Spec == Init /\ [][Next]_vars /\ WF_vars(Poll) /\ WF_vars(SpawnError)

-----------------------------------------------------------------------------
\* Every variable has its type; the promise carries the text it was
\* resolved with, and only a resolved promise carries one.
TypeOK ==
    /\ file \in Texts
    /\ it \in 0..(MaxIt + 1)
    /\ interval \in BOOLEAN
    /\ promise \in {"pending", "resolved", "rejected"}
    /\ emulator \in Emulators
    /\ adapter \in {"up", "down"}
    /\ value \in IF promise = "resolved" THEN Texts \ {"none"} ELSE {"none"}

\* The promise the debugger awaits always settles, whatever the emulator
\* does: it resolves once the file shows up, and is rejected after MaxIt
\* fruitless polls (about 5 s) if it never does, a missing emulator
\* included.
Settles == <>(promise # "pending")

\* The poll loop ends: unless the adapter went down, the promise settles,
\* resolving once the file shows up or rejected after MaxIt empty polls.
SettlesUnlessDown == <>(promise # "pending" \/ adapter = "down")

\* The debugger uses the resolved text as the path of the terminal: the
\* promise resolves only with the name tty wrote, never with an empty read
\* of a file the redirection has created but tty not yet written.
ResolvesWithTty == promise = "resolved" => value = "tty"

\* Once spawnTerminalEmulator has given up, its interval stops polling.
IntervalStops == <>[](promise # "pending" => ~interval)
=============================================================================
