SPECIFICATION AllSpec
CONSTANTS
    Null = Null
    o1 = o1
    o2 = o2
    o3 = o3
    a1 = a1
    a2 = a2
    a3 = a3
    OrderId = o1
    Order = {o1, o2, o3}
    Applier = {a1, a2, a3}
    File <- MCFiles
    LogDay <- MCLogDay
    Day <- MCDay
    OccurredAt <- MCOccurredAt
    DayOf <- MCDayOf
    Before <- MCBefore
    MaxCrash = 1
    Line = {1, 2, 3}
    Price <- MCPrice
    SubstitutePrice <- MCSubstitutePrice
INVARIANTS
    NothingIsLost
    OutboxIsTheLog
    ThreeFoldsAgree
PROPERTIES
    ImplementsOutbox
    EveryLogIsApplied
