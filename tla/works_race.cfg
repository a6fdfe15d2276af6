CONSTANTS
    Callers = {p1, p2}
    Keys = {k}
    Contents = {w1, w2}
    NoWork = NoWork
    NoCall = NoCall
    Steps = 2
    MaxCalls = 4
    MaxFaults = 1
    MaxReports = 2
SPECIFICATION Spec
CHECK_DEADLOCK FALSE
INVARIANT NoStrandedContent
PROPERTY ImplementsStore
