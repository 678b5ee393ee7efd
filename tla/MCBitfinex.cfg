CONSTANTS
    Size = 4
    Keys = {1, 2}
    Hash <- SmallHash
    Symbols = {"tBTCUSD"}
    Prices = {1, 2}
    WireRows <- SmallRows
    Grain = 10
    MaxU32 = 100
    ExponentBelow = 8
    Unreadable = {1}
    One = 100
    MaxTrades = 4
    MaxSequence = 4
    MaxWire = 3
    MaxFaults = 2
SPECIFICATION Spec
CHECK_DEADLOCK FALSE
INVARIANTS
    TracksExchange
    BookCarriesTracker
    SidecarRestores
