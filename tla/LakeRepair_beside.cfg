SPECIFICATION FairRepairSpec
CONSTANTS
    Hours <- OneHour
    DayLength = 1
    LookbackDays = 3
    Grace = 1
    Loops = {serve}
    Ranges = {}
    Repairers = {repair}
    Concurrency = 1
    Contents <- OneContent
    Damaged <- OneDamage
    MaxClock = 2
    MaxDamage = 2
    MaxCrashes = 1
    CheckCounts = FALSE
INVARIANTS
    RecoveredIsBacked
PROPERTIES
    ImplementsLifecycle
    StruckHoursSettle
