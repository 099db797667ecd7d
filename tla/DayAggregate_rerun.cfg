SPECIFICATION FairSpec
CONSTANTS
    HoursPerDay = 2
    Contents <- AllContents
    MaxFaults = 1
INVARIANTS
    DayTypeOK
    ReportIsOfBothFiles
    IncompleteIsExplained
PROPERTIES
    DroppedIsCounted
    RerunLosesOnlyTheUnavailable
    EveryHourIsCounted
