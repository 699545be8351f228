SPECIFICATION Spec
CONSTANTS
    FlushInterval = 1
    MaxEvents = 5
    MaxRaises = 2
INVARIANTS TypeOK ExactRows
PROPERTIES PoisonFreezes StoreSpec
