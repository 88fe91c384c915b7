----------------------------- MODULE RstPreview -----------------------------
(***************************************************************************)
(* The two halves of lextudio.restructuredtext/out/extension.js composed:  *)
(* the refresh path (RstPreviewProvider) and the content path of one       *)
(* document Doc (RstPreviewRender).  The host calls                        *)
(* provideTextDocumentContent(getRstUri(Doc)) when it opens Doc's preview  *)
(* (showPreview) and, while the preview is open, when the debounce timer   *)
(* fires onDidChange for Doc's uri; a save of Doc is also a new source     *)
(* version for the builds.  Calls for the other documents are not          *)
(* followed.  Reqs bounds the calls for Doc: once every call is used, a    *)
(* further request of the host is not followed either.                    *)
(***************************************************************************)
CONSTANTS Docs, RstDocs, UpdateOnTextChanged, NoUri,
          Reqs, MaxVersion, Win32, NoFile,
          Doc      \* the document whose preview calls are followed

ASSUME Doc \in RstDocs

VARIABLES waiting, timer, previews, stale, pendingFire,
          saved, html, phase, snap, build, shown

pvars == <<waiting, timer, previews, stale, pendingFire>>
rvars == <<saved, html, phase, snap, build, shown>>
vars == <<pvars, rvars>>

P == INSTANCE RstPreviewProvider
R == INSTANCE RstPreviewRender

\* The host calls provideTextDocumentContent for Doc.
HostRequest ==
    IF \E r \in Reqs : phase[r] = "idle"
    THEN \E r \in Reqs : R!Request(r)
    ELSE UNCHANGED rvars

Init == P!Init /\ R!Init

\* onDidSaveTextDocument; a save of Doc is also a new version on disk.
Save(d) ==
    /\ P!Save(d)
    /\ IF d = Doc THEN R!Save ELSE UNCHANGED rvars

\* showPreview opens getRstUri(d); for Doc the host asks for its content.
ShowPreview(d) ==
    /\ P!ShowPreview(d)
    /\ IF d = Doc THEN HostRequest ELSE UNCHANGED rvars

\* The debounce timer fires onDidChange(uri); the host asks again for the
\* content of an open preview.
Timeout ==
    /\ P!Timeout
    /\ IF timer = Doc /\ Doc \in previews THEN HostRequest ELSE UNCHANGED rvars

\* A step of a sphinx-build or a callback of preview().
RenderStep(r) ==
    /\ \/ R!BuildTruncate(r) \/ R!BuildFinish(r) \/ R!BuildAbort(r)
       \/ R!ExecCallback(r) \/ R!StatCallback(r) \/ R!ReadCallback(r)
    /\ UNCHANGED pvars

Next ==
    \/ \E d \in Docs :
          \/ Save(d) \/ ShowPreview(d)
          \/ (P!Change(d) \/ P!ClosePreview(d)) /\ UNCHANGED rvars
    \/ P!ConfigChange /\ UNCHANGED rvars
    \/ Timeout
    \/ \E r \in Reqs : RenderStep(r)

\* The timer fires, builds end and the event loop runs every callback.
Spec ==
    /\ Init /\ [][Next]_vars
    /\ WF_vars(Timeout)
    /\ \A r \in Reqs : WF_vars(RenderStep(r))

-----------------------------------------------------------------------------
\* Both halves keep their types in the composition.
TypeOK == P!TypeOK /\ R!TypeOK

\* Every burst of update() calls is followed by an onDidChange fire.
UpdatesFlushed == P!UpdatesFlushed

\* Every call the host makes for Doc settles.
RequestsSettle == R!RequestsSettle
=============================================================================
