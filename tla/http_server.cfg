SPECIFICATION HttpSpec
CONSTANTS
    Id = {i1}
    Exchanges = {x1, x2}
    MaxSessions = 2
    MaxCreated = 3
SYMMETRY MCSymmetry
INVARIANTS
    HandshakeFirst
    Capped
    EvictedByNewer
PROPERTIES
    GoneStaysGone
    OwedAnswer
