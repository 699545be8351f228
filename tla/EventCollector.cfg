SPECIFICATION FairSpec
CONSTANTS
    Publishers = {p1, p2}
    Consumers = {c1, c2}
    QueueSize = 2
    MaxEvents = 4
INVARIANTS TypeOK OnePlace GracefulStop
PROPERTIES DeliverySpec StopReturns EventuallySettled
\* A stopped collector with publishers blocked on a full queue has no step.
CHECK_DEADLOCK FALSE
