\* One call on a Sphinx instance, under fair delivery of the child's
\* events: every order of exit, error, data and close.  Calls share only the
\* log, whose entries name their call, so one call decides each property.
CONSTANTS
    Invs = {i1}
    NoPath = NoPath
    Null = Null
    NoChild = NoChild
    NoResult = NoResult
    Undefined = Undefined
    Commands <- MCCommands
    ExitCodes <- MCExitCodes
    Children <- MCChildren
SPECIFICATION FairSpec
INVARIANT TypeOK
INVARIANT ResultReflectsChild
INVARIANT StderrLogged
PROPERTY Termination
CHECK_DEADLOCK FALSE
