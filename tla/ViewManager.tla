---------------------------- MODULE ViewManager ----------------------------
(***************************************************************************)
(* The rst preview of tht13.rst-vscode: ViewManager and IDMap of           *)
(* out/src/extension.js, RSTDocumentView and RSTDocumentContentProvider    *)
(* of out/src/document.js.                                                 *)
(*                                                                         *)
(* The commands rst.preview and rst.previewToSide create, through IDMap,   *)
(* one RSTDocumentView per text document.  Each view registers its own     *)
(* content provider for the scheme 'rst' and its own save, change and     *)
(* configuration listeners, and opens the preview getRSTUri(doc.uri) with  *)
(* vscode.previewHtml.  A provider renders its own document (python        *)
(* preview.py <doc.fileName>) whatever uri it is asked for.                *)
(*                                                                         *)
(* The editor is the environment.  A TextDocument object, with its Uri     *)
(* object, is created each time a document is opened: a document d is      *)
(* known by the number inc[d] of the object.  The host answers the         *)
(* opening of an 'rst' document with the provider registered last, and a   *)
(* provider's onDidChange(uri) with a new call of that same provider when  *)
(* uri is open; it applies each answer when it arrives.  Rendered content  *)
(* is abstracted to the document and saved version it was built from.     *)
(***************************************************************************)
EXTENDS Naturals, Sequences, FiniteSetsExt

CONSTANTS
    Docs,        \* source documents
    RstDocs,     \* those whose languageId is 'rst'
    MaxVersion,  \* bound on the saves of a document
    MaxOpens,    \* bound on the times a document is opened
    MaxRenders,  \* bound on the provider calls in flight
    NoDoc,       \* no active text editor / no uri argument
    Closed,      \* the preview of a document is not open
    Loading,     \* the preview is open and waits for its first content
    Failed,      \* the preview shows the provider's rejection
    NotRst       \* the errorSnippet of a provider whose document is not 'rst'

ASSUME RstDocs \subseteq Docs /\ MaxVersion \in Nat /\ MaxOpens \in Nat

\* What a preview shows: the html of a document at a saved version, or the
\* errorSnippet of a provider whose document is not 'rst'.
Content == [of: Docs, ver: 0..MaxVersion] \cup {NotRst}

\* A key of IDMap: the Uri object of one opening of a document.
Keys == [doc: Docs, inc: 1..MaxOpens]

VARIABLES
    inc,        \* inc[d]: TextDocument objects created for d so far
    isOpen,     \* the current object of d is open in the editor
    active,     \* the document of window.activeTextEditor, NoDoc if none
    saved,      \* saved version of each document
    views,      \* fileMap (and idMap) in insertion order: the views' keys
    registered, \* the views whose registrations are not disposed
    activated,  \* the extension is active (its commands registered)
    preview,    \* preview[d]: Closed, Loading, Failed or the content shown
    renders,    \* provideTextDocumentContent calls not yet answered
    misdirected \* a preview command has opened a preview other than its uri's

vars == <<inc, isOpen, active, saved, views, registered, activated, preview,
          renders, misdirected>>

OpenDocs == {d \in Docs : isOpen[d]}

-----------------------------------------------------------------------------
\* RSTDocumentContentProvider.createRSTSnippet of view v, given the saved
\* versions sv that preview.py reads.
Snippet(key, sv) ==
    IF key.doc \in RstDocs
    THEN [of |-> key.doc, ver |-> sv[key.doc]]
    ELSE NotRst

\* RSTDocumentContentProvider.provideTextDocumentContent(uri): the snippet
\* of the provider's own document; uri is not used.
ProvideTextDocumentContent(key, uri, sv) == Snippet(key, sv)

\* provider.update(uri) for every provider of vs and every uri of us; the
\* host calls the firing provider again for each uri that is open.
Refreshes(vs, us, sv) ==
    {[view |-> v, uri |-> u, open |-> FALSE,
      content |-> ProvideTextDocumentContent(views[v], u, sv)] :
        v \in vs, u \in {x \in us : preview[x] # Closed}}

\* RSTDocumentView.isRSTFile: languageId 'rst' and not an 'rst' uri.
IsRSTFile(d) == d \in RstDocs

\* IDMap.getByUri(doc.uri): the first key holding the very same Uri object.
GetByUri(key) == {i \in DOMAIN views : views[i] = key}

\* IDMap.add(uri1, uri2): map.set([uri1, uri2], uuid) appends the key.
IDMapAdd(vs, key) == Append(vs, key)

\* RSTDocumentView.dispose of view v: each of its registrations disposed.
ViewDispose(reg, v) == reg \ {v}

\* Mutant: ViewManager.dispose steps the iterator twice and skips a view.
ManagerDisposeSkipFirst(reg) == reg \ (DOMAIN views \ {1})

\* ViewManager.dispose: RSTDocumentView.dispose of every view of fileMap
\* disposes its registrations (the provider and the visible-change listener).
ManagerDispose(reg) ==
    FoldSet(LAMBDA v, r : ViewDispose(r, v), reg, DOMAIN views)

Init ==
    /\ inc = [d \in Docs |-> 0]
    /\ isOpen = [d \in Docs |-> FALSE]
    /\ active = NoDoc
    /\ saved = [d \in Docs |-> 0]
    /\ views = <<>>
    /\ registered = {}
    /\ activated = TRUE
    /\ preview = [d \in Docs |-> Closed]
    /\ renders = {}
    /\ misdirected = FALSE

\* The user opens a document: a new TextDocument and Uri object.
OpenDoc(d) ==
    /\ ~isOpen[d] /\ inc[d] < MaxOpens
    /\ inc' = [inc EXCEPT ![d] = @ + 1]
    /\ isOpen' = [isOpen EXCEPT ![d] = TRUE]
    /\ active' = d
    /\ UNCHANGED <<saved, views, registered, activated, preview, renders, misdirected>>

\* The user closes a document; focus moves to another editor or none.
CloseDoc(d) ==
    /\ isOpen[d]
    /\ isOpen' = [isOpen EXCEPT ![d] = FALSE]
    /\ \E x \in (OpenDocs \ {d}) \cup {NoDoc} :
          active' = IF active = d THEN x ELSE active
    /\ UNCHANGED <<inc, saved, views, registered, activated, preview, renders, misdirected>>

\* The focus moves to an open document, or to an editor that is not a text
\* editor (a preview).
Focus(x) ==
    /\ x \in OpenDocs \cup {NoDoc}
    /\ active' = x
    /\ UNCHANGED <<inc, isOpen, saved, views, registered, activated, preview, renders, misdirected>>

\* onDidSaveTextDocument: every view's listener (disposed or not) calls
\* its provider's update(getRSTUri(document.uri)) for an rst document.
Save(d) ==
    /\ isOpen[d] /\ saved[d] < MaxVersion
    /\ saved' = [saved EXCEPT ![d] = @ + 1]
    /\ renders' = renders \cup
                    Refreshes(registered, IF IsRSTFile(d) THEN {d} ELSE {}, saved')
    /\ UNCHANGED <<inc, isOpen, active, views, registered, activated, preview, misdirected>>

\* RSTDocumentView.visible: some visible editor's document.uri === the
\* view's previewUri.  The comparison is by object, and no editor holds the
\* Uri object getRSTUri made for the view.
Visible(v) == FALSE

\* The registered change listener: `if (!this.visible) return;` then, for
\* the view's own document, update(previewUri).
OwnRefreshes(d) ==
    Refreshes({v \in registered : Visible(v) /\ views[v].doc = d}, {d}, saved)

\* onDidChangeTextDocument: the same update as on a save (preview.py reads
\* the file as saved), then the registered change listener of each view.
Change(d) ==
    /\ isOpen[d]
    /\ renders' = renders \cup OwnRefreshes(d) \cup
                    Refreshes(registered, IF IsRSTFile(d) THEN {d} ELSE {}, saved)
    /\ UNCHANGED <<inc, isOpen, active, saved, views, registered, activated, preview, misdirected>>

\* onDidChangeConfiguration: every view updates every open 'rst' document.
ConfigChange ==
    /\ renders' = renders \cup Refreshes(registered, Docs, saved)
    /\ UNCHANGED <<inc, isOpen, active, saved, views, registered, activated, preview, misdirected>>

\* rst.source: `source()` is always called without an argument and runs
\* workbench.action.navigateBack, which focuses some earlier editor.
Source ==
    /\ activated
    /\ \E x \in OpenDocs \cup {NoDoc} : active' = x
    /\ UNCHANGED <<inc, isOpen, saved, views, registered, activated, preview, renders, misdirected>>

\* The provider registered last; the host asks it first for an 'rst' uri.
Newest(reg) == CHOOSE i \in reg : \A j \in reg : j <= i

\* RSTDocumentView.execute(): vscode.previewHtml(previewUri).  The host
\* opens a preview that is not open by asking the newest provider of reg
\* (views vs) for its content, and only reveals one that is.
Execute(d, reg, vs) ==
    IF preview[d] = Closed
    THEN /\ preview' = [preview EXCEPT ![d] = Loading]
         /\ renders' = renders \cup
              {[view |-> Newest(reg), uri |-> d, open |-> TRUE,
                content |-> ProvideTextDocumentContent(vs[Newest(reg)], d, saved)]}
    ELSE UNCHANGED <<preview, renders>>

\* sendRSTCommand(column, doc): reuse the view IDMap finds for doc.uri, or
\* construct one (registering its provider and listeners) and add it to
\* idMap and fileMap; then execute it.
SendRSTCommand(d) ==
    LET key   == [doc |-> d, inc |-> inc[d]]
        found == GetByUri(key)
        vs    == IF found = {} THEN IDMapAdd(views, key) ELSE views
        reg   == IF found = {} THEN registered \cup {Len(vs)} ELSE registered
    IN  /\ views' = vs
        /\ registered' = reg
        /\ Execute(d, reg, vs)

\* rst.preview (u = NoDoc) and rst.previewToSide(u): preview(uri). Without
\* a Uri argument the resource is the active editor's document, and with
\* none either it runs rst.source.  Otherwise it previews
\* window.activeTextEditor.document, whatever the uri, and throws a
\* TypeError when there is no active editor.
Preview(u) ==
    /\ activated
    /\ LET resource == IF u # NoDoc THEN u ELSE active IN
       IF resource = NoDoc
       THEN Source
       ELSE /\ misdirected' = (misdirected \/ active # resource)
            /\ IF active = NoDoc
               THEN UNCHANGED <<views, registered, preview, renders>>
               ELSE SendRSTCommand(active)
            /\ UNCHANGED <<inc, isOpen, active, saved, activated>>

\* The user closes a preview; later answers for it are dropped.
ClosePreview(d) ==
    /\ preview[d] # Closed
    /\ preview' = [preview EXCEPT ![d] = Closed]
    /\ UNCHANGED <<inc, isOpen, active, saved, views, registered, activated, renders, misdirected>>

\* Mutant: the error branch of the exec callback logs but never rejects.
CompleteNoReject(r) ==
    /\ r \in renders
    /\ renders' = renders \ {r}
    /\ \/ preview' = IF preview[r.uri] # Closed
                     THEN [preview EXCEPT ![r.uri] = r.content] ELSE preview
       \/ r.content # NotRst /\ UNCHANGED preview
    /\ UNCHANGED <<inc, isOpen, active, saved, views, registered, activated, misdirected>>

\* The child_process.exec callback of RSTDocumentContentProvider.preview
\* (or the errorSnippet string of a non-rst document) reaches the host.
\* On success the host shows the page in the preview if it is still open;
\* on an error the promise rejects: an opening preview shows the failure,
\* a refresh is dropped.
Complete(r) ==
    /\ r \in renders
    /\ renders' = renders \ {r}
    /\ \/ preview' = IF preview[r.uri] # Closed
                     THEN [preview EXCEPT ![r.uri] = r.content] ELSE preview
       \/ /\ r.content # NotRst
          /\ preview' = IF r.open /\ preview[r.uri] # Closed
                        THEN [preview EXCEPT ![r.uri] = Failed] ELSE preview
    /\ UNCHANGED <<inc, isOpen, active, saved, views, registered, activated, misdirected>>

\* deactivate(): viewManager.dispose().  The host also disposes the commands.
Deactivate ==
    /\ activated
    /\ activated' = FALSE
    /\ registered' = ManagerDispose(registered)
    /\ UNCHANGED <<inc, isOpen, active, saved, views, preview, renders, misdirected>>

Next ==
    \/ \E d \in Docs :
          \/ OpenDoc(d) \/ CloseDoc(d) \/ Save(d) \/ Change(d) \/ ClosePreview(d)
    \/ \E x \in Docs \cup {NoDoc} : Focus(x) \/ Preview(x)
    \/ Source \/ ConfigChange \/ Deactivate
    \/ \E r \in renders : Complete(r)

MaxViews == Cardinality(Docs) * MaxOpens

\* A state constraint: at most MaxRenders python processes run at once.
RendersBound == Cardinality(renders) <= MaxRenders

RenderRecs == [view: 1..MaxViews, uri: Docs, open: BOOLEAN, content: Content]

\* Every python preview.py process ends and its callback runs.
Spec == Init /\ [][Next]_vars /\ \A r \in RenderRecs : WF_vars(Complete(r))

-----------------------------------------------------------------------------
\* Every variable has its type; views are distinct keys, all registered
\* while the extension is active.
TypeOK ==
    /\ inc \in [Docs -> 0..MaxOpens]
    /\ isOpen \in [Docs -> BOOLEAN]
    /\ active \in OpenDocs \cup {NoDoc}
    /\ saved \in [Docs -> 0..MaxVersion]
    /\ views \in Seq(Keys) /\ Len(views) <= MaxViews
    /\ registered = IF activated THEN DOMAIN views ELSE {}
    /\ preview \in [Docs -> Content \cup {Closed, Loading, Failed}]
    /\ renders \subseteq RenderRecs
    /\ misdirected \in BOOLEAN

\* A preview that opens does not stay empty: the provider asked for it
\* answers, with the page or an error.
PreviewLoads == \A d \in Docs : preview[d] = Loading ~> preview[d] # Loading

\* The preview of a document shows that document: the save listener of
\* every view, and the host's choice among the providers of the 'rst'
\* scheme, never put another document's page in it.
PreviewShowsOwnDocument ==
    \A d \in Docs : preview[d] \in Content \ {NotRst} => preview[d].of = d

\* IDMap keeps one view, hence one provider and one set of listeners, per
\* document.
OneViewPerDocument ==
    \A i, j \in DOMAIN views : views[i].doc = views[j].doc => i = j

\* rst.previewToSide(uri) opens the preview of uri.
PreviewOfRequestedUri == ~misdirected

\* Once no render is pending, an open preview shows its document as last
\* saved: answers applied in arrival order leave the newest save's page.
QuiescentPreviewCurrent ==
    renders = {} =>
        \A d \in Docs : preview[d] \in Content \ {NotRst} => preview[d].ver = saved[d]
=============================================================================
