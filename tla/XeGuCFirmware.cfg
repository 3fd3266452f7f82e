SPECIFICATION BootSpec
CONSTANTS
    MaxMappings = 2
    MaxSerial = 3
    MaxPage = 3
    Ranges <- Grants
    MaxRegions = 2
    MaxTotalPages = 3
    RegionSizes = {1, 2}
    PlanSize = 2
INVARIANTS TranslatedIsPinned TablesAgree GucSeesRegions CloseFrees
PROPERTY ForeignKept
CHECK_DEADLOCK FALSE
