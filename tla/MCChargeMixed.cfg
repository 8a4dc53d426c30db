SPECIFICATION Spec
CONSTANTS
    c1 = c1
    c2 = c2
    k1 = k1
    k2 = k2
    k3 = k3
    s1 = s1
    s2 = s2
    t1 = t1
    t2 = t2
    NoCred = NoCred
    NoSig = NoSig
    Threads = {t1, t2}
    Challenges = {c1, c2}
    Signatures = {s1, s2}
    ChallengeOf <- ChallengeOfDef
    SigOf <- SigOfDef
    ExpiresAt <- ExpiresAtDef
    Lease = 1
    RootMayExpire = TRUE
    Credentials = {k1, k2, k3}
    Pull = {k3}
    SelfSubmit = {s1}
    MaxGenerations = 4
    MaxAttempts = 1
    MaxTime = 0
    MaxCrashes = 0
    StoreMayFail = TRUE
SYMMETRY HandlerSymmetry
INVARIANTS
    OneReceiptPerSignature
    ReceiptIsBacked
CHECK_DEADLOCK FALSE
