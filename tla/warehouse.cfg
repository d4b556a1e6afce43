SPECIFICATION AllSpec
CONSTANTS
    catalog = catalog
    ledger = ledger
    SPECS <- MCSpecs
    NeedsSpark = {ledger}
    Versions = 2
    Columns <- MCColumns
    RowCount <- MCRowCount
    MaxRuns = 2
    MaxFaults = 3
    Snowflake = TRUE
    AdminWrites = TRUE
    MaxBoots = 2
    MaxWrites = 4
INVARIANTS
    LoadsReplace
    RolesKeepTheMatrix
PROPERTIES
    RunsEnd
CHECK_DEADLOCK FALSE
