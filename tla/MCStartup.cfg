\* Up to two source blocks of any type, three of pcap; three epochs of two slots.
CONSTANTS
    EpochLength = 2
    LastSlot = 5
    Config <- Configs
    Ip = {"ip1", "ip2", "ip3"}
    Frame <- Frames
SPECIFICATION StartSpec
INVARIANTS
    CapturedAsConfigured
    RowsFitTheTasks
    FilterIsExactWithinEpoch
PROPERTY FailedStartExits
CHECK_DEADLOCK FALSE
