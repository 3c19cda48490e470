SPECIFICATION StoreSpec
CONSTANTS
    Workers = {w1, w2}
    Accounts = {a1}
    Slots = {s1, s2}
    Nobody = Nobody
    None = None
    MaxTickets = 1
    MaxVisits = 2
INVARIANTS
    RescheduledIsTold
