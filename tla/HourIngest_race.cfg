SPECIFICATION Spec
CONSTANTS
    Hours <- OneHour
    DayLength = 1
    LookbackDays = 3
    Grace = 1
    Loops = {serve}
    Ranges = {backfill}
    Repairers = {}
    Concurrency = 1
    Contents <- TwoContents
    Damaged <- OneDamage
    MaxClock = 3
    MaxDamage = 1
    MaxCrashes = 1
INVARIANTS
    TypeOK
    EveryFalseClaimIsALoss
    NoTimelyHourWrittenOff
    FailureHasACause
PROPERTIES
    NeverDowngraded
    OnlyRecordedSourcesDiscarded
    ImplementsLifecycle
