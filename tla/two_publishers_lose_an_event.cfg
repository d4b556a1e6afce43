SPECIFICATION FairSpec
CONSTANTS
    Null = Null
    o1 = o1
    o2 = o2
    Order = {o1}
    Partition = {"q1"}
    PartitionOf <- MCOneOrder
    Log <- MCCancelledLog
    Publisher = {p1, p2}
    BatchSize = 1
    PollBatch = 2
    Strict = TRUE
    MaxCrash = 0
    MaxReject = 0
    MaxReplay = 0
PROPERTIES
    Converges
