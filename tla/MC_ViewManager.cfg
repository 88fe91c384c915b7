\* An rst and a plain document, opened and saved once: every preview
\* that opens gets an answer.
CONSTANTS
    a = a
    b = b
    Docs <- MCDocs
    RstDocs <- MCRstDocs
    MaxVersion <- MCMaxVersion
    MaxOpens <- MCMaxOpens
    MaxRenders <- MCMaxRenders
    NoDoc = NoDoc
    Closed = Closed
    Loading = Loading
    Failed = Failed
    NotRst = NotRst
SPECIFICATION Spec
CONSTRAINT RendersBound
INVARIANT TypeOK
PROPERTY PreviewLoads
