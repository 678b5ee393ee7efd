CONSTANTS
    Size = 4
    Keys = {1, 2, 3, 4, 5}
    Hash <- Crowded
    Values = {"u", "v"}
    MaxDropped = 1
SPECIFICATION CallsSpec
PROPERTY ImplementsMap
