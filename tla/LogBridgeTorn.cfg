SPECIFICATION WatchedSpec
CONSTANTS
    MaxLines = 2
    MaxRotations = 0
    Splits = TRUE
INVARIANT WholeLinesBridged
CHECK_DEADLOCK FALSE
