SPECIFICATION FairSpec
CONSTANTS
    h1 = h1
    h2 = h2
    Handlers = {h1, h2}
    Deposit = 1
    FirstValid = 2
    LastValid = 3
    OpenBy = 3
    CacheAge = 1
    MaxLag = 1
    MaxSlot = 4
    MaxFaults = 1
INVARIANTS
    EscrowServedOnce
    RecordTellsFate
PROPERTIES
    PendingIsResolved
CHECK_DEADLOCK FALSE
