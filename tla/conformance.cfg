SPECIFICATION ConformanceSpec
CONSTANTS
    Id = {i1}
    Exchanges = {pump, other}
    Pump = pump
    MaxSessions = 2
    MaxCreated = 3
INVARIANTS
    ChecksPass
PROPERTIES
    RepliesPair
    SchemaGuardsHandlers
    ScriptEnds
CHECK_DEADLOCK FALSE
