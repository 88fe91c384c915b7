\* Violation: a missing emulator takes the adapter down before the promise settles.
CONSTANTS
    MaxIt <- MCMaxIt
    Emulators <- MCEmulators
SPECIFICATION Spec
PROPERTY Settles
CHECK_DEADLOCK FALSE
