SPECIFICATION FairSpec
CONSTANTS
    Null = Null
    o1 = o1
    o2 = o2
    Order = {o1}
    Partition = {"q1"}
    PartitionOf <- MCOneOrder
    Log <- MCCancelledLog
    Publisher = {p1}
    BatchSize = 2
    PollBatch = 2
    Strict = TRUE
    MaxCrash = 1
    MaxReject = 2
    MaxReplay = 1
INVARIANTS
    PublishedIsRecoverable
PROPERTIES
    RowsNeverGoBack
    Converges
