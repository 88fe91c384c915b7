-------------------------- MODULE RstPreviewRender --------------------------
(***************************************************************************)
(* The content path of lextudio.restructuredtext/out/extension.js:        *)
(* RstDocumentContentProvider.provideTextDocumentContent and preview.     *)
(* Each call (an element of Reqs) runs `sphinx-build -b html . <output>`  *)
(* with child_process.exec; its callback rejects on an error, and on      *)
(* win32 also when stderr holds "Exception occurred:"; otherwise it       *)
(* fs.stat's the html file of the document, then fs.readFile's it and     *)
(* resolves with the text (after fixLinks).                                *)
(*                                                                         *)
(* The host calls provideTextDocumentContent whenever it opens a preview  *)
(* or the provider fires onDidChange, without waiting for earlier calls,  *)
(* so builds of one document overlap.  The builds are the environment: a  *)
(* build snapshots the saved source, and one that succeeds rewrites the   *)
(* html file non-atomically (truncate, then write).  html contents are    *)
(* abstracted to the source version they were built from and whether the  *)
(* write is complete.                                                     *)
(***************************************************************************)
EXTENDS Naturals

CONSTANTS
    Reqs,         \* calls of provideTextDocumentContent for the document
    MaxVersion,   \* bound on the saves of the source document
    Win32,        \* process.platform === "win32"
    NoFile

ASSUME MaxVersion \in Nat /\ Win32 \in BOOLEAN

\* How a sphinx-build run ends: exit 0 having written the html; exit 0
\* without writing finalName ("skip": the document is excluded from the
\* project, or finalName does not name the file sphinx writes); a non-zero
\* exit; or, on win32 only, exit 0 with an exception on stderr and no html.
BuildKinds == {"ok", "skip", "fail"} \cup (IF Win32 THEN {"exception"} ELSE {})

Html == [ver: 0..MaxVersion, complete: BOOLEAN]

VARIABLES
    saved,   \* version of the source document on disk
    html,    \* the built html file finalName, NoFile before the first build
    phase,   \* where each call is in preview()
    snap,    \* the source version the call's build read
    build,   \* the call's sphinx-build process: [kind, stage]
    shown    \* the text a resolved call returned, NoFile otherwise

vars == <<saved, html, phase, snap, build, shown>>

Phases == {"idle", "building", "stat", "read", "resolved", "rejected"}
Stages == {"none", "running", "writing", "exited"}

-----------------------------------------------------------------------------
\* `if (process.platform === "win32" && stderr)` ... indexOf("Exception
\* occurred:") > -1: a build that exited 0 but raised is a failure.
IsWin32Failure(kind) == Win32 /\ kind = "exception"

\* The exec callback's `if (error)`: a non-zero exit.
IsExecError(kind) == kind = "fail"

Init ==
    /\ saved = 0
    /\ html = NoFile
    /\ phase = [r \in Reqs |-> "idle"]
    /\ snap = [r \in Reqs |-> 0]
    /\ build = [r \in Reqs |-> [kind |-> "ok", stage |-> "none"]]
    /\ shown = [r \in Reqs |-> NoFile]

\* The user saves the source document.
Save ==
    /\ saved < MaxVersion
    /\ saved' = saved + 1
    /\ UNCHANGED <<html, phase, snap, build, shown>>

\* provideTextDocumentContent(uri): read the settings, build _cmd, and
\* preview(uri): compute finalName, log, child_process.exec(_cmd).
Request(r) ==
    /\ phase[r] = "idle"
    /\ phase' = [phase EXCEPT ![r] = "building"]
    /\ snap' = [snap EXCEPT ![r] = saved]
    /\ \E k \in BuildKinds : build' = [build EXCEPT ![r] = [kind |-> k, stage |-> "running"]]
    /\ UNCHANGED <<saved, html, shown>>

\* A successful build opens the html file for writing, truncating it.
BuildTruncate(r) ==
    /\ build[r].stage = "running" /\ build[r].kind = "ok"
    /\ html' = [ver |-> snap[r], complete |-> FALSE]
    /\ build' = [build EXCEPT ![r].stage = "writing"]
    /\ UNCHANGED <<saved, phase, snap, shown>>

\* ... writes it, and exits 0.
BuildFinish(r) ==
    /\ build[r].stage = "writing"
    /\ html' = [ver |-> snap[r], complete |-> TRUE]
    /\ build' = [build EXCEPT ![r].stage = "exited"]
    /\ UNCHANGED <<saved, phase, snap, shown>>

\* Any other build exits without writing finalName.
BuildAbort(r) ==
    /\ build[r].stage = "running" /\ build[r].kind # "ok"
    /\ build' = [build EXCEPT ![r].stage = "exited"]
    /\ UNCHANGED <<saved, html, phase, snap, shown>>

\* The child_process.exec callback: reject on error or on the win32
\* exception marker, otherwise fs.stat(finalName).
ExecCallback(r) ==
    /\ phase[r] = "building" /\ build[r].stage = "exited"
    /\ phase' = [phase EXCEPT ![r] =
                    IF IsExecError(build[r].kind) \/ IsWin32Failure(build[r].kind)
                    THEN "rejected" ELSE "stat"]
    /\ UNCHANGED <<saved, html, snap, build, shown>>

\* Mutant: the missing-file branch returns without rejecting.
StatCallbackNoReject(r) ==
    /\ phase[r] = "stat" /\ html # NoFile
    /\ phase' = [phase EXCEPT ![r] = "read"]
    /\ UNCHANGED <<saved, html, snap, build, shown>>

\* The fs.stat callback: reject if the file is missing, else fs.readFile.
StatCallback(r) ==
    /\ phase[r] = "stat"
    /\ phase' = [phase EXCEPT ![r] = IF html = NoFile THEN "rejected" ELSE "read"]
    /\ UNCHANGED <<saved, html, snap, build, shown>>

\* Mutant: resolve() called without the text read.
ReadCallbackNoData(r) ==
    /\ phase[r] = "read"
    /\ phase' = [phase EXCEPT ![r] = "resolved"]
    /\ UNCHANGED <<saved, html, snap, build, shown>>

\* The fs.readFile callback: resolve with fixLinks(data) of the file as it
\* is now, or reject on a read error.
ReadCallback(r) ==
    /\ phase[r] = "read"
    /\ \/ /\ phase' = [phase EXCEPT ![r] = "resolved"]
          /\ shown' = [shown EXCEPT ![r] = html]
       \/ /\ phase' = [phase EXCEPT ![r] = "rejected"]
          /\ UNCHANGED shown
    /\ UNCHANGED <<saved, html, snap, build>>

Next ==
    \/ Save
    \/ \E r \in Reqs :
          \/ Request(r)
          \/ BuildTruncate(r) \/ BuildFinish(r) \/ BuildAbort(r)
          \/ ExecCallback(r) \/ StatCallback(r) \/ ReadCallback(r)

\* Builds run to their end and the event loop runs every callback.
Fairness ==
    \A r \in Reqs :
        /\ WF_vars(BuildTruncate(r)) /\ WF_vars(BuildFinish(r))
        /\ WF_vars(BuildAbort(r))
        /\ WF_vars(ExecCallback(r)) /\ WF_vars(StatCallback(r))
        /\ WF_vars(ReadCallback(r))

Spec == Init /\ [][Next]_vars /\ Fairness

-----------------------------------------------------------------------------
\* Every variable has its type; a call has a result exactly when resolved.
TypeOK ==
    /\ saved \in 0..MaxVersion
    /\ html \in Html \cup {NoFile}
    /\ phase \in [Reqs -> Phases]
    /\ snap \in [Reqs -> 0..MaxVersion]
    /\ build \in [Reqs -> [kind: BuildKinds, stage: Stages]]
    /\ \A r \in Reqs : shown[r] \in IF phase[r] = "resolved" THEN Html ELSE {NoFile}

\* Every call of provideTextDocumentContent settles.
RequestsSettle ==
    \A r \in Reqs : phase[r] = "building" ~> phase[r] \in {"resolved", "rejected"}

\* The preview of a call is the complete html built from a source at least
\* as new as the one the call's build read.
PreviewMatchesSource ==
    \A r \in Reqs : phase[r] = "resolved" =>
        shown[r].complete /\ shown[r].ver >= snap[r]
=============================================================================
