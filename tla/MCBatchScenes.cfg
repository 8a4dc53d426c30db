SPECIFICATION MCSpec

CONSTANTS
    r1 = r1
    r2 = r2
    f1 = f1
    q1 = q1
    k1 = k1
    Vouchers = {1, 2, 3}
    Amounts = {1, 2}
    Lease = 1
    MaxCommitted = 1
    SnapshotAge = 1
    Requests = {r1, r2}
    Finalizers = {f1}
    Claimers = {q1}
    Closers = {k1}
    Grace = 3
    Attempts = 2
    StoreMayFail = TRUE
    MaxLag = 1
    MaxCrashes = 1
    MaxReservations = 4
    MaxClock = 3
SYMMETRY RequestSymmetry
INVARIANTS
    HandlerRunsOnce
    ServedIsAccounted
    SealRedeemsCharges
    RecordedIsSettled
CHECK_DEADLOCK FALSE
