\* Violation: updates made inside the debounce window for another uri are lost.
CONSTANTS
    Docs <- MCDocs
    RstDocs <- MCRstDocs
    UpdateOnTextChanged = TRUE
    NoUri = NoUri
SPECIFICATION Spec
INVARIANT EveryPreviewRefreshed
