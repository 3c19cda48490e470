SPECIFICATION DashSpec
CONSTANTS
    CallId = {a}
    MaxIterations = 2
    MaxTurns = 2
    MaxCalls = 1
    MaxEntries = 3
    CutEntries = 2
    MAX_CAPTURED_LINES = 1
    Pressed = {"a", "/", "enter", "backspace", "interrupt", "F2", "arrow", "eof"}
    MaxKeys = 4
    MaxAhead = 2
    MaxPrinted = 1
    MaxStderr = 0
INVARIANTS
    NoStrayEscape
CHECK_DEADLOCK FALSE
