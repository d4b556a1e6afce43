SPECIFICATION AllSpec
CONSTANTS
    c1 = c1
    c2 = c2
    v1 = v1
    Absent = Absent
    NoManifest = NoManifest
    Unreadable = Unreadable
    Foreign = Foreign
    Damaged = Damaged
    Seed = {42, 43}
    Reference = {"2026-01-01", "2026-01-02"}
    Process = {"a"}
    Category = {c1, c2}
    Lang = {"es", "en"}
    MayLimit = TRUE
    Table = {t1, t2}
    Version = {v1, v2}
    Province = {"28"}
    Dataset = {"VIAS", "TRAM"}
    Edition = {1}
    Content = {"x", "y"}
    MaxOverwrite = 2
    MaxExport = 2
    MaxCrash = 2
    MaxLoss = 1
    MaxFail = 2
    MaxKill = 1
    MaxTamper = 1
    MaxDamage = 1
    MaxRefresh = 4
    Trouble <- MCTrouble
INVARIANTS
    AnnouncedIsValid
    ManifestIsTrue
PROPERTIES
    CompleteIsLeftAlone
    DamageIsSettled
    RerunsComplete
CHECK_DEADLOCK FALSE
