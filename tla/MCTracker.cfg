CONSTANTS
    GapWindow = 3
    Sequences = {0, 1, 2, 3, 4, 5, 6, 7, 8, 9, 10, 11}
SPECIFICATION ArrivalSpec
INVARIANT HeldAreArrivals
PROPERTIES
    NoSilentSkip
    ImplementsSequencer
