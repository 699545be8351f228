SPECIFICATION Spec
CONSTANTS
    MaxLines = 3
    QueueSize = 1
    FlushInterval = 1
    MaxFailures = 1
    MaxLives = 2
INVARIANT Drained
PROPERTY PathSpec
\* The last process may have ended with all lines written.
CHECK_DEADLOCK FALSE
