SPECIFICATION Spec
CONSTANTS
    Fds <- ThreeFds
    NoFd <- Closed
    Threshold = 1
    QueueBacklog = 1
CHECK_DEADLOCK FALSE
INVARIANT AllRecorded
