SPECIFICATION Spec
CONSTANTS
    Null = Null
    o1 = o1
    o2 = o2
    Order = {o1, o2}
    Partition = {"q1", "q2"}
    PartitionOf <- MCPartitionEach
    Log <- MCRefusedLog
    Publisher = {p1}
    BatchSize = 2
    PollBatch = 2
    Strict = TRUE
    MaxCrash = 1
    MaxReject = 0
    MaxReplay = 1
INVARIANTS
    TypeOK
    RowsAreSilverPrefixes
    ProjectorInvariant
    FoldNeverRaises
    NoGapArises
    CommittedIsWritten
PROPERTIES
    ImplementsReadModel
