SPECIFICATION MCSpec
CONSTANTS
    a1 = a1
    p1 = p1
    p2 = p2
    q1 = q1
    q2 = q2
    NoChallenge = NoChallenge
    NoBinding = NoBinding
    Presenters = {p1, p2}
    Activations = {a1}
    SubChallenges = {q1, q2}
    FirstSlot = 2
    PublishAttempts = 2
    MaxMishaps = 1
    c1 = c1
    k1 = k1
    s1 = s1
    t1 = t1
    t2 = t2
    NoCred = NoCred
    NoSig = NoSig
    Threads = {t1, t2}
    Challenges = {c1}
    Credentials = {k1}
    Signatures = {s1}
    ChallengeOf <- ChallengeOfDef
    SigOf <- SigOfDef
    Pull = {k1}
    SelfSubmit = {}
    ExpiresAt <- ExpiresAtDef
    Lease = 3
    MaxGenerations = 8
    MaxAttempts = 2
    MaxTime = 1
    MaxCrashes = 2
    StoreMayFail = FALSE
    RootMayExpire = FALSE
PROPERTIES
    OutcomeIsRecorded
    EveryRequestIsAnswered
    LandedIsBound
CHECK_DEADLOCK FALSE
