\* Violation: overlapping builds let a call read a half-written or older html.
CONSTANTS
    Reqs = {r1, r2}
    MaxVersion <- MCMaxVersion
    Win32 = FALSE
    NoFile = NoFile
SPECIFICATION Spec
INVARIANT PreviewMatchesSource
CHECK_DEADLOCK FALSE
