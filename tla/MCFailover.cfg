CONSTANTS
    GapWindow = 2
    RecoveryLookbackSlack = 2
    Venues = {0, 1}
    SeqNumbers = {1, 2, 3, 4, 5, 6}
    MaxArrivals = 5
    ExchangeTs <- MonotoneTs
    Source <- RoundRobin
    RaceNumbers = {1, 2, 3, 4, 5}
    RaceVenues = {0}
    MaxFinalize = 1
SPECIFICATION SpecFailover
CHECK_DEADLOCK FALSE
INVARIANTS
    HeldRecordsAgree
    InOrderOnce
    NoLossWithoutForcedAdvance
    StoredGapIsHealed
    FailoverTransparent
