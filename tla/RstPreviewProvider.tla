------------------------- MODULE RstPreviewProvider -------------------------
(***************************************************************************)
(* The refresh path of lextudio.restructuredtext/out/extension.js: the    *)
(* event handlers activate() registers (save, text change, configuration  *)
(* change), showPreview opening a rendered document, and the debounce of  *)
(* RstDocumentContentProvider.update: the first update(uri) sets _waiting *)
(* and arms a 300 ms timer that clears _waiting and fires onDidChange for *)
(* that uri; calls made while _waiting is set are dropped.                *)
(*                                                                         *)
(* A document d stands for both its source uri and its rendered uri       *)
(* getRstUri(d) (scheme 'restructuredtext').  previews is the set of      *)
(* rendered documents open in the host (workspace.textDocuments).         *)
(***************************************************************************)
CONSTANTS
    Docs,                \* source documents open in the editor
    RstDocs,             \* those whose languageId is 'restructuredtext'
    UpdateOnTextChanged, \* the updateOnTextChanged setting read by activate
    NoUri

ASSUME RstDocs \subseteq Docs /\ UpdateOnTextChanged \in BOOLEAN

VARIABLES
    waiting,      \* provider._waiting
    timer,        \* uri of the armed setTimeout callback, NoUri if none
    previews,     \* rendered documents open in the host
    stale,        \* documents update() was called for since their uri fired
    pendingFire   \* update() was called since the last onDidChange fire

vars == <<waiting, timer, previews, stale, pendingFire>>

-----------------------------------------------------------------------------
\* Mutant: the guard of update() is negated (`if (this._waiting)`).
UpdateNegated(us) ==
    /\ stale' = stale \cup us
    /\ pendingFire' = (pendingFire \/ us # {})
    /\ IF ~waiting \/ us = {}
       THEN UNCHANGED <<waiting, timer>>
       ELSE /\ waiting' = TRUE
            /\ \E u \in us : timer' = u

(* update(uri) called once for each uri of us, in one synchronous loop:   *)
(* the first call made while _waiting is clear arms the timer; the rest   *)
(* are dropped.  The host orders workspace.textDocuments, so any uri of   *)
(* us may come first.                                                      *)
Update(us) ==
    /\ stale' = stale \cup us
    /\ pendingFire' = (pendingFire \/ us # {})
    /\ IF waiting \/ us = {}
       THEN UNCHANGED <<waiting, timer>>
       ELSE /\ waiting' = TRUE
            /\ \E u \in us : timer' = u

\* Mutant: the timer callback forgets to clear _waiting.
FireKeepWaiting(u) ==
    /\ waiting' = waiting
    /\ timer' = NoUri
    /\ stale' = stale \ {u}
    /\ pendingFire' = FALSE

\* The setTimeout callback: `this._waiting = false;
\* this._onDidChange.fire(uri)`; the host then asks the provider again for
\* the content of uri.
Fire(u) ==
    /\ waiting' = FALSE
    /\ timer' = NoUri
    /\ stale' = stale \ {u}
    /\ pendingFire' = FALSE

Init ==
    /\ waiting = FALSE
    /\ timer = NoUri
    /\ previews = {}
    /\ stale = {}
    /\ pendingFire = FALSE

\* onDidSaveTextDocument: `if (isRstFile(document)) provider.update(uri)`.
Save(d) ==
    /\ d \in RstDocs
    /\ Update({d})
    /\ UNCHANGED previews

\* onDidChangeTextDocument, registered only when updateOnTextChanged is
\* 'true'.
Change(d) ==
    /\ UpdateOnTextChanged
    /\ d \in RstDocs
    /\ Update({d})
    /\ UNCHANGED previews

\* onDidChangeConfiguration: update every open 'restructuredtext' document.
ConfigChange ==
    /\ Update(previews)
    /\ UNCHANGED previews

\* showPreview(uri): the host opens getRstUri(resource) and asks the
\* provider for its content; the resource need not be an rst file.
ShowPreview(d) ==
    /\ d \notin previews
    /\ previews' = previews \cup {d}
    /\ stale' = stale \ {d}
    /\ UNCHANGED <<waiting, timer, pendingFire>>

\* The user closes a rendered document.
ClosePreview(d) ==
    /\ d \in previews
    /\ previews' = previews \ {d}
    /\ UNCHANGED <<waiting, timer, stale, pendingFire>>

\* The 300 ms timer elapses.
Timeout ==
    /\ timer # NoUri
    /\ Fire(timer)
    /\ UNCHANGED previews

Next ==
    \/ \E d \in Docs : Save(d) \/ Change(d) \/ ShowPreview(d) \/ ClosePreview(d)
    \/ ConfigChange
    \/ Timeout

\* setTimeout callbacks run once their delay has passed.
Spec == Init /\ [][Next]_vars /\ WF_vars(Timeout)

-----------------------------------------------------------------------------
\* Every variable has its type, and the timer is armed exactly while
\* _waiting is set.
TypeOK ==
    /\ waiting \in BOOLEAN
    /\ timer \in IF waiting THEN Docs ELSE {NoUri}
    /\ previews \in SUBSET Docs
    /\ stale \in SUBSET Docs
    /\ pendingFire \in BOOLEAN

\* Every burst of update() calls is followed by an onDidChange fire: the
\* debounce delays refreshes but never stops them.
UpdatesFlushed == pendingFire ~> ~pendingFire

\* The comment in the configuration handler says it updates all generated
\* documents: once the debounce window is over, no open preview whose
\* update() was called is left without a refresh of its own uri.
EveryPreviewRefreshed == ~waiting => stale \cap previews = {}
=============================================================================
