SPECIFICATION FairSpec
CONSTANTS
    Hours <- TwoHours
    DayLength = 1
    LookbackDays = 5
    Grace = 2
    Loops = {serve}
    Ranges = {}
    Repairers = {}
    Concurrency = 1
    Contents <- OneContent
    Damaged <- OneDamage
    MaxClock = 4
    MaxDamage = 1
    MaxCrashes = 1
PROPERTIES
    TimelyHourLands
