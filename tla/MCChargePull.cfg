SPECIFICATION Spec
CONSTANTS
    c1 = c1
    k1 = k1
    k2 = k2
    s1 = s1
    s2 = s2
    t1 = t1
    t2 = t2
    NoCred = NoCred
    NoSig = NoSig
    Threads = {t1, t2}
    Challenges = {c1}
    Credentials = {k1, k2}
    Signatures = {s1, s2}
    ChallengeOf <- ChallengeOfDef
    SigOf <- SigOfDef
    Pull = {k1, k2}
    SelfSubmit = {}
    ExpiresAt <- ExpiresAtDef
    Lease = 1
    MaxGenerations = 5
    MaxAttempts = 2
    MaxTime = 2
    MaxCrashes = 1
    StoreMayFail = TRUE
    RootMayExpire = FALSE
SYMMETRY HandlerSymmetry
INVARIANTS
    OneReceiptPerChallenge
    BroadcastIsFenced
    FailureIsFinal
PROPERTIES
    ImplementsLedger
CHECK_DEADLOCK FALSE
