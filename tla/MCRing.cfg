CONSTANTS
    Size = 4
    MaxItems = 14
SPECIFICATION FairRingSpec
CHECK_DEADLOCK FALSE
INVARIANT NoSlotRace
PROPERTIES
    ImplementsFIFO
    EveryItemArrives
