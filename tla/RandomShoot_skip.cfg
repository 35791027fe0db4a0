SPECIFICATION Spec
CONSTANTS
    CaseLen = 7
    NumCases = 4
    StartRange = 4
    StartMin = 2
    Window = 3
INVARIANT NoCaseSkipped
CHECK_DEADLOCK FALSE
