\* Violation: a poll can read the file between its creation and tty's write.
CONSTANTS
    MaxIt <- MCMaxIt
    Emulators <- MCFoundEmulators
SPECIFICATION Spec
INVARIANT ResolvesWithTty
CHECK_DEADLOCK FALSE
