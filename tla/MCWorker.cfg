SPECIFICATION FairSpec
CONSTANTS
    u1 = u1
    u2 = u2
    u3 = u3
    Units = {u1, u2, u3}
    Size <- SizeDef
    MaxPerTx = 3
    WireLimit = 2
    MaxInFlight = 1
    MaxQueued = 1
    MaxBad = 1
INVARIANTS
    NeverTwoLive
    AnswersAreTrue
PROPERTIES
    EveryUnitIsAnswered
    SiblingsAreSettledAlone
CHECK_DEADLOCK FALSE
