SPECIFICATION FairSpec
CONSTANTS
    Fds <- FiveFds
    NoFd <- Closed
    Threshold = 1
    QueueBacklog = 1
CHECK_DEADLOCK FALSE
INVARIANTS TypeOK DescriptorsOwned RegisteredExist InstancesExact PollIntervalFollowsLoad
PROPERTIES SignalEnds ImplementsServer
