\* Violation: a document outside confPath reads the page of a document
\* inside it.
CONSTANTS
    Unset_ = Unset_
    NoDoc_ = NoDoc_
    Unset <- Unset_
    NoDoc <- NoDoc_
    Root <- MCRoot
    DocPaths <- MCDocPaths
    ConfSettings <- MCConfSettings
    OutSettings <- MCOutSettings
SPECIFICATION Spec
INVARIANT NeverReadsOtherPage
