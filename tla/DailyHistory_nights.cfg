SPECIFICATION Spec
CONSTANTS
    Grace = 1
    IdleDays = 3
    MaxDay = 5
    MaxLost = 2
    MaxByHand = 1
INVARIANTS
    HistoryTypeOK
    ScheduleStaysOn
    HealthyIffNothingOwed
    ShortDaysWereTold
    GreenIsPublished
CHECK_DEADLOCK FALSE
