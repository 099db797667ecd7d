SPECIFICATION FairSpec
CONSTANTS
    Consumers = {c1}
    Partitions = {p1, p2}
    Events = {"e1", "e2"}
    Corrupt = {"bad"}
    Unstorable = {}
    SeenWindow = 1
    MaxBatch = 2
    MaxLog = 2
    MaxEnds = 1
    MaxShuffles = 1
PROPERTIES
    EveryMessageIsHandled
