SPECIFICATION MCSpec
CONSTANTS
    r1 = r1
    r2 = r2
    u1 = u1
    u2 = u2
    s1 = s1
    s2 = s2
    Requests = {r1, r2}
    MaxActive = 2
    MaxCrashes = 2
    NodeMayLag = TRUE
    StoreMayFail = TRUE
    Elsewhere = TRUE
    UptoRequests = {u1, u2}
    Servers = {s1, s2}
    Deposit = 1
    InlineTries = 2
    LaterTries = 1
    MaxFaults = 2
INVARIANTS
    ServedOnce
    ChargedIsOwed
    OneRelease
PROPERTIES
    ReleaseIsSafe
    PaidIsServed
    OpenedIsPaidOut
    PendingIsCharged
CHECK_DEADLOCK FALSE
