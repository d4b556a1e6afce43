SPECIFICATION AllSpec
CONSTANTS
    Order = {1, 2, 3}
    LogLength <- MCLogLength
    InRaw = {1, 2}
    Rebuild = {r1}
    r1 = r1
    Key = {1, 2}
    Messages <- TwoLogs
    Partition = {1, 2}
    PartitionOf <- Each
    Member = {m1, m2}
    BatchSize = 2
    Sink = "iceberg"
    FromBeginning = TRUE
    AllowGaps = FALSE
    MaxEvict = 1
    MaxKill = 1
    m1 = m1
    m2 = m2
    RebuildBatch = 1
    MaxCommitAttempts = 2
    Strict = TRUE
    MaxRebuild = 1
    MaxReset = 1
    MaxCrash = 1
INVARIANTS
    TableIsSound
    GroupIsSound
PROPERTIES
    ImplementsMonotonicTable
    ReadModelAdvances
