CONSTANTS
    Callers = {p1}
    Keys = {k}
    Contents = {w1}
    NoWork = NoWork
    NoCall = NoCall
    Steps = 5
    MaxCalls = 3
    MaxFaults = 0
    MaxReports = 0
SPECIFICATION Spec
CHECK_DEADLOCK FALSE
INVARIANT AppliedStays
