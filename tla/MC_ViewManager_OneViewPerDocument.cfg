\* A document closed and opened again has a new Uri object, which IDMap
\* does not find: a second view is created for it.
CONSTANTS
    a = a
    b = b
    Docs <- MCDocs
    RstDocs <- MCDocs
    MaxVersion <- MCMaxVersion
    MaxOpens <- MCMaxOpensTwice
    MaxRenders <- MCMaxRenders
    NoDoc = NoDoc
    Closed = Closed
    Loading = Loading
    Failed = Failed
    NotRst = NotRst
SPECIFICATION Spec
CONSTRAINT RendersBound
INVARIANT OneViewPerDocument
CHECK_DEADLOCK FALSE
