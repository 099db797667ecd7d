SPECIFICATION FairSpec
CONSTANTS
    Consumers = {c1}
    Partitions = {p1}
    Events = {"e1"}
    Corrupt = {}
    Unstorable = {"e1"}
    SeenWindow = 1
    MaxBatch = 2
    MaxLog = 1
    MaxEnds = 0
    MaxShuffles = 0
PROPERTIES
    EveryMessageIsHandled
