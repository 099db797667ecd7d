SPECIFICATION FairSpec
CONSTANTS
    Redacted <- ThirdRedacted
    Pages = 2
    PerPage = 2
    SeenWindow = 1
    MaxItems = 4
    MaxCuts = 1
    MaxEnds = 1
INVARIANTS
    CaptureTypeOK
    TagMeansKept
    EachCutCostsOneEvent
PROPERTIES
    LossIsAccounted
