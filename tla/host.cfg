SPECIFICATION HostSpec
CONSTANTS
    Server = {s1, s2}
    QName = {q1}
    Method = {"initialize", "tools/list", "tools/call", "ping", "notifications/initialized"}
    NoMethod = "-"
    NoServer = NoServer
    MaxFaults = 1
    MaxCalls = 1
    MaxExtra = 1
INVARIANTS
    TimedByItsRequest
    ToolsHaveClients
    ConnectedAreQuiet
PROPERTIES
    PromptOrEnd
CHECK_DEADLOCK FALSE
