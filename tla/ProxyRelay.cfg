SPECIFICATION FairSpec
CONSTANTS
    MaxChunks = 3
    HighWater = 1
    LowWater = 0
INVARIANTS TypeOK NoneOutlives WholeStream Backpressure
PROPERTY BothEnd
\* When both connections are over nothing is left to do.
CHECK_DEADLOCK FALSE
