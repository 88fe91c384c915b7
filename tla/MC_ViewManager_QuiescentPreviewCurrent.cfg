\* One document: a render started before a save can answer after the render
\* started by the save, and its older page stays in the preview.
CONSTANTS
    a = a
    b = b
    Docs <- MCOneDoc
    RstDocs <- MCOneDoc
    MaxVersion <- MCMaxVersion
    MaxOpens <- MCMaxOpens
    MaxRenders <- MCMaxRenders
    NoDoc = NoDoc
    Closed = Closed
    Loading = Loading
    Failed = Failed
    NotRst = NotRst
SPECIFICATION Spec
CONSTRAINT RendersBound
INVARIANT QuiescentPreviewCurrent
CHECK_DEADLOCK FALSE
