SPECIFICATION FairSpec
CONSTANTS
    Callers = {"cli", "embedded"}
    Children = 2
    PortCount = 3
    MaxSignals = 3
INVARIANTS LifeTypeOK StopCloses SignalsNeverStop
PROPERTY TakesItsCourse
CHECK_DEADLOCK FALSE
