SPECIFICATION FairSpec
CONSTANTS
    Conns = {c1, c2, c3}
    MaxClients = 1
    AsyncCallback = FALSE
INVARIANTS TypeOK CountsExact EventsPaired
PROPERTY SlotsReleased
\* When the loop has ended and every connection is closed, nothing is left.
CHECK_DEADLOCK FALSE
