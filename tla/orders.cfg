SPECIFICATION AllSpec
CONSTANTS
    Wh <- TwoWh
    WhRegion <- Communities
    RegionOf <- Homes
    Day <- FourDays
    Year <- NewYear
    Window <- AcrossTheYear
    Catalog <- FewProducts
    Base <- AllBases
    Mapping <- FoodRule
    Premise <- OneLine
    AgeBand <- Bands
    ZeroGroup <- NonFood
    Target <- EndOfYearMad
    Landed <- FirstDays
    Bases <- OneGeneration
    LateCatalog <- Day3
    NextBase <- GrowsOnDay3
    None = None
    MaxChange = 1
    MaxExport = 2
    MaxRead = 2
    MaxCrash = 0
    Setting <- Settings
INVARIANTS
    ReferenceHolds
    CalendarIsKept
PROPERTIES
    EverySettingHolds
CHECK_DEADLOCK FALSE
