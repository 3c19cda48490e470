SPECIFICATION SharedSpec
CONSTANTS
    HostWorkers = {h1}
    DesktopWorkers = {d1}
    Accounts = {a1, a2}
    Slots = {s1}
    Nobody = Nobody
    None = None
    MaxTickets = 1
    MaxVisits = 1
INVARIANTS
    AckedOnDisk
