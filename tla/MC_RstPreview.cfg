\* The debounce and the preview calls of a.rst together: every burst of
\* updates is flushed, and every call settles.  Win32, so that the
\* exception check is among the paths that settle a call.
CONSTANTS
    Docs <- MCDocs
    RstDocs <- MCRstDocs
    UpdateOnTextChanged = TRUE
    NoUri = NoUri
    Reqs = {r1, r2}
    MaxVersion <- MCMaxVersion
    Win32 = TRUE
    NoFile = NoFile
    Doc = "a.rst"
SPECIFICATION Spec
INVARIANT TypeOK
PROPERTY UpdatesFlushed
PROPERTY RequestsSettle
