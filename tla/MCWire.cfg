\* U32 stands for 2^32, which TLC's integers cannot hold.
CONSTANTS
    U32 = 8
    Garbled = Garbled
    Feeds <- MCFeeds
    SocketSlots = 2
    FrameCount = 4
    MaxMessages = 2
    MaxBytes = 110
    MaxStrays = 2
    Beyond <- MCBeyond
SPECIFICATION Spec
INVARIANTS
    WireReplaysFile
    FramesOwnedOnce
    LoadersAgree
PROPERTY EveryDatagramRead
CHECK_DEADLOCK FALSE
