SPECIFICATION Spec

CONSTANTS
    r1 = r1
    r2 = r2
    f1 = f1
    q1 = q1
    k1 = k1
    Vouchers = {1, 2}
    Amounts = {1}
    Lease = 1
    MaxCommitted = 1
    SnapshotAge = 1
    Requests = {r1}
    Finalizers = {f1}
    Claimers = {}
    Closers = {}
    Grace = 3
    Attempts = 2
    StoreMayFail = FALSE
    MaxLag = 0
    MaxCrashes = 0
    MaxReservations = 2
    MaxClock = 4
INVARIANT LeaseFitsGrace
CHECK_DEADLOCK FALSE
