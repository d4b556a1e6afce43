SPECIFICATION AllSpec
CONSTANTS
    NDays = 6
    MaxDemand = 3
    Lead = 2
    OpeningCover = {8, 9, 13, 17}
    PointCover = 6
    TargetCover = 20
    Optional = TRUE
    Lands = {"mercadona_catalog_api", "simulated_orders"}
    MaxVersion = 4
    MaxSeals = 2
    MaxOutages = 1
    MaxKills = 1
INVARIANTS
    LedgerAddsUp
    BuildsAreCoherent
PROPERTIES
    LandedArrives
CHECK_DEADLOCK FALSE
