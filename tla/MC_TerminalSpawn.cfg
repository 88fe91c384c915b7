\* The poll loop with the real limit of 500, with or without the emulator:
\* the promise settles unless the adapter went down.
CONSTANTS
    MaxIt <- MCMaxIt
    Emulators <- MCEmulators
SPECIFICATION Spec
INVARIANT TypeOK
PROPERTY SettlesUnlessDown
CHECK_DEADLOCK FALSE
