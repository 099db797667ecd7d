SPECIFICATION Spec
CONSTANTS
    Consumers = {c1, c2}
    Partitions = {p1, p2}
    Events = {"e1", "e2"}
    Corrupt = {"bad"}
    Unstorable = {}
    SeenWindow = 1
    MaxBatch = 2
    MaxLog = 2
    MaxEnds = 0
    MaxShuffles = 0
SYMMETRY Symmetric
INVARIANTS
    StreamTypeOK
    CommittedIsSettled
    DuplicatesAreKept
PROPERTIES
    ImplementsDelivery
