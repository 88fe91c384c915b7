\* Violation: after the timeout rejection the interval keeps polling.
CONSTANTS
    MaxIt <- MCMaxIt
    Emulators <- MCFoundEmulators
SPECIFICATION Spec
PROPERTY IntervalStops
CHECK_DEADLOCK FALSE
