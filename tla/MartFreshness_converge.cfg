SPECIFICATION FairSpec
CONSTANTS
    Days <- OneDay
    Hours <- TwoHours
    Tables <- TwoTables
    Published <- BothHours
    MaybeSilent <- OneSilent
    Hands <- OneByHand
    MaxDrops = 1
    MaxHands = 1
    MaxDeaths = 1
INVARIANTS
    MartTypeOK
    DisagreementIsTold
PROPERTIES
    FreshMeansReflected
    LakeIsPublished
    RebuildsStop
