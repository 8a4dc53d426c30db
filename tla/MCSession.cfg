SPECIFICATION Spec
CONSTANTS
    h1 = h1
    h2 = h2
    k1 = k1
    k2 = k2
    d1 = d1
    t1 = t1
    t2 = t2
    Handlers = {h1, h2}
    Keys = {k1, k2}
    Deliveries = {d1}
    TopUps = {t1, t2}
    Deposit0 = 2
    Price = 2
    MaxTotal = 2
    MaxUses = 1
    Attempts = 2
    MaxLost = 1
SYMMETRY Alike
INVARIANTS
    SpentIsRedeemable
    DepositIsEscrowed
    AcceptedOnce
    KeyChargedOnce
    DeliveryChargedOnce
CHECK_DEADLOCK FALSE
