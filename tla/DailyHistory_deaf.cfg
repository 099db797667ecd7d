SPECIFICATION Spec
CONSTANTS
    Grace = 1
    IdleDays = 3
    MaxDay = 4
    MaxLost = 1
    MaxByHand = 0
INVARIANTS
    GreenMeansHealthy
CHECK_DEADLOCK FALSE
