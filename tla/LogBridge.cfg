SPECIFICATION FairSpec
CONSTANTS
    MaxLines = 5
    MaxRotations = 2
    Splits = TRUE
INVARIANTS TypeOK InOrderOnce NothingElseLost
PROPERTY EventuallyBridged
