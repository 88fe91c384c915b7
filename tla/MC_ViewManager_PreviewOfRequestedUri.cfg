\* rst.previewToSide on the uri of a document that is not the active one
\* previews the active document instead.
CONSTANTS
    a = a
    b = b
    Docs <- MCDocs
    RstDocs <- MCDocs
    MaxVersion <- MCMaxVersion
    MaxOpens <- MCMaxOpens
    MaxRenders <- MCMaxRenders
    NoDoc = NoDoc
    Closed = Closed
    Loading = Loading
    Failed = Failed
    NotRst = NotRst
SPECIFICATION Spec
CONSTRAINT RendersBound
INVARIANT PreviewOfRequestedUri
CHECK_DEADLOCK FALSE
