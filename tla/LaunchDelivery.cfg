SPECIFICATION FairSpec
CONSTANTS
    MaxCount = 2
    MaxBytes = 4
    Sizes = {1, 3}
    MaxRevision = 3
    Clients = {c1}
    Pages = {p1, p2}
    MaxLost = 1
    MaxReloads = 1
    MaxAnalyses = 1
INVARIANTS  RenderedInOrder 
PROPERTIES  FullQueueDrains
CHECK_DEADLOCK FALSE
