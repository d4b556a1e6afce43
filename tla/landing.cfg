SPECIFICATION AllSpec
CONSTANTS
    f1 = f1
    f2 = f2
    c1 = c1
    c2 = c2
    l1 = l1
    l2 = l2
    b1 = b1
    b2 = b2
    Files = {f1, f2}
    Contents = {c1, c2}
    Absent = Absent
    Landers = {l1}
    SameFiles = FALSE
    Concurrent = FALSE
    MaxEditions = 2
    MaxDamage = 1
    MaxCrashes = 0
INVARIANTS
    BucketIsFaithful
PROPERTIES
    CopiesAreKept
    LandedAndBuilt
    DagKeepsItsDays
CHECK_DEADLOCK FALSE
