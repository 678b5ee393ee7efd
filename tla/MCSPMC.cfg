CONSTANTS
    RingSize = 2
    Readers = {"r1", "r2"}
    Words = 2
    MaxRetries = 2
    MaxPublish = 4
SPECIFICATION SeqlockFairSpec
INVARIANTS
    NoTornRead
PROPERTIES
    SkipsOnlyLostItems
    KeepingUpReadsAll
