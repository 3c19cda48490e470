SPECIFICATION DashSpec
CONSTANTS
    CallId = {a}
    MaxIterations = 2
    MaxTurns = 2
    MaxCalls = 1
    MaxEntries = 3
    CutEntries = 2
    MAX_CAPTURED_LINES = 1
    Pressed = {"a", "/", "enter", "arrow", "interrupt"}
    MaxKeys = 4
    MaxAhead = 2
    MaxPrinted = 2
    MaxStderr = 1
INVARIANTS
    LineAsTyped
    HeaderFollowsTurn
    OutputBelongs
PROPERTIES
    BackToKeys
CHECK_DEADLOCK FALSE
