SPECIFICATION OpenAISpec
CONSTANTS
    CallId = {a, call_0}
    NoId = NoId
    Call0 = call_0
    MaxIterations = 2
    MaxTurns = 2
    MaxCalls = 2
    MaxRetries = 1
INVARIANTS
    AnsweredInOrder
    NothingOwed
    TurnOnTheWire
PROPERTIES
    TurnEnds
CHECK_DEADLOCK FALSE
