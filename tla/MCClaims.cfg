SPECIFICATION MCSpec
CONSTANTS
    a2 = a2
    a1 = a1
    p1 = p1
    p2 = p2
    q1 = q1
    q2 = q2
    NoChallenge = NoChallenge
    NoBinding = NoBinding
    Presenters = {p1, p2}
    Activations = {a1, a2}
    SubChallenges = {q1, q2}
    FirstSlot = 2
    PublishAttempts = 2
    MaxMishaps = 1
    c1 = c1
    c2 = c2
    c3 = c3
    o1 = o1
    o2 = o2
    Callers = {c1, c2, c3}
    OldReplicas = {o1, o2}
    OldKey = 3
    NumLegacy = 4
    MaxCrashes = 1
    StoreMayFail = TRUE
SYMMETRY Alike
INVARIANTS
    OneServed
    NothingLeftBehind
    BoundOnce
PROPERTIES
    ImplementsClaims
    BindingAdvances
CHECK_DEADLOCK FALSE
