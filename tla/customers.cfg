SPECIFICATION AllSpec
CONSTANTS
    mad = mad
    vlc = vlc
    m1 = m1
    m2 = m2
    m3 = m3
    pa = pa
    pb = pb
    None = None
    Warehouse <- MCWarehouse
    Municipality <- MCMunicipality
    Province <- MCProvince
    ProvinceOf <- MCProvinceOf
    Age <- MCAge
    Area <- MCArea
    Callejero <- MCCallejero
    Population <- MCPopulation
    Pyramid <- MCPyramid
    MinAge = {15, 50}
    Percent = 10
    Habitat <- MCHabitat
    AgeBand <- MCAgeBand
    Count = {}
    Branches = {}
    ByHand = {mad}
    MaxChange = 4
    MaxExport = 2
    MaxExtract = 0
    MaxCrash = 0
INVARIANTS
    ReferenceCovers
    BaseIsSound
PROPERTIES
    AreasAndRunsSettle
CHECK_DEADLOCK FALSE
