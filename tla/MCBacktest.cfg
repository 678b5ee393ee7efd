CONSTANTS
    OfiWindow = 1
    BucketVolume = 3
    BucketCount = 2
    Symbols = {"s"}
    CapNum = 1
    CapDen = 2
    Tape <- SmallTape
    MaxTicks = 7
    MaxExperiment = 6
    MaxStore = 7
    Horizon = 1
    FoldCount = 3
    Purge = 1
    Embargo = 1
    QuoteSize = 3
    HalfSpread = 1
    MaxInventory = 2
    InventorySkew = 1
    OfiSkew = 0
    RequoteThreshold = 1
    Cooldown = 1
    SharpeBucket = 2
    SignalEvents = 3
    SignalWindow = 2
    MaxPosition = 2
    Threshold = 1
    FlattenOffset = 0
    CooldownEvents = 2
SPECIFICATION ExperimentSpec
CHECK_DEADLOCK FALSE
INVARIANTS
    OrdersAgree
    ProfitIsCash
    FlowAccounted
    PositionBounded
    FoldsDoNotLeak
