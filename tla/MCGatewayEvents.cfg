SPECIFICATION Spec
CONSTANTS
    Conns = {c1, c2}
    MaxClients = 1
    AsyncCallback = TRUE
SYMMETRY Symmetry
INVARIANT TarpitEventsPublished
CHECK_DEADLOCK FALSE
