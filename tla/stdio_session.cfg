SPECIFICATION Spec
CONSTANTS
    Callers = {c1, c2}
    Reader = Reader
    Nobody = Nobody
    MaxRequests = 2
    EOF = EOF
    PipeSize = 1
    MaxOutput = 1
INVARIANTS
    NothingBehindEof
    EofMeansOver
PROPERTIES
    RequestsEnd
    DeathEndsReader
    CloseEndsAll
