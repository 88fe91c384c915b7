\* Two rst documents with a view each: a save of one makes both providers
\* answer for its preview, and the other document's page can land in it.
CONSTANTS
    a = a
    b = b
    Docs <- MCDocs
    RstDocs <- MCDocs
    MaxVersion <- MCMaxVersion
    MaxOpens <- MCMaxOpens
    MaxRenders <- MCMaxRenders
    NoDoc = NoDoc
    Closed = Closed
    Loading = Loading
    Failed = Failed
    NotRst = NotRst
SPECIFICATION Spec
CONSTRAINT RendersBound
INVARIANT PreviewShowsOwnDocument
CHECK_DEADLOCK FALSE
SYMMETRY Symmetry
