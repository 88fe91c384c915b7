\* Violation: SuccessMeansExitZero.
CONSTANTS
    Invs = {i1, i2}
    NoPath = NoPath
    Null = Null
    NoChild = NoChild
    NoResult = NoResult
    Undefined = Undefined
    Commands <- MCCommands
    ExitCodes <- MCExitCodes
    Children <- MCChildren
SPECIFICATION Spec




CHECK_DEADLOCK FALSE
INVARIANT SuccessMeansExitZero
