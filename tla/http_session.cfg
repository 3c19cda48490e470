SPECIFICATION Spec
CONSTANTS
    Callers = {c1, c2}
    Main = c1
    Reader = reader
    Nobody = nobody
    EOF = eof
    NoBody = no_body
    Garbage = garbage
    MaxRequests = 2
    MaxBodies = 2
    Retries = 1
INVARIANTS
    CarriesSession
    OneSettler
    NoOrphan
    PendingIsLive
    LostOnlyWhenOver
PROPERTIES
    SettledOnce
    RequestsEnd
    CloseEndsReader
CHECK_DEADLOCK FALSE
