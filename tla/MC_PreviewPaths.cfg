\* Every document under every confPath the settings allow: the preview
\* reads the page sphinx wrote for it.
CONSTANTS
    Unset_ = Unset_
    NoDoc_ = NoDoc_
    Unset <- Unset_
    NoDoc <- NoDoc_
    Root <- MCRoot
    DocPaths <- MCDocPaths
    ConfSettings <- MCConfSettings
    OutSettings <- MCOutSettings
SPECIFICATION Spec
INVARIANT ReadsOwnPage
