SPECIFICATION StoreSpec
CONSTANTS
    Workers = {w1, w2}
    Accounts = {a1, a2}
    Slots = {s1, s2}
    Nobody = Nobody
    None = None
    MaxTickets = 2
    MaxVisits = 2
SYMMETRY MCSymmetry
INVARIANTS
    FileConsistent
    AckedIsServed
    ShownWithVisit
PROPERTIES
    LedgerSpec
