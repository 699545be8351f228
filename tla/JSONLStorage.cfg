SPECIFICATION Spec
CONSTANTS
    FlushInterval = 1
    MaxEvents = 4
    MaxFailures = 2
    Days = 2
INVARIANTS TypeOK ExactLog LossIsTorn
PROPERTIES WriteBoundsWait StoreSpec
