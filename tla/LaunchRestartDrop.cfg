SPECIFICATION RSpec
CONSTANTS
    MaxCount = 2
    MaxBytes = 2
    Sizes = {1}
    MaxRevision = 2
    Clients = {c1}
    Pages = {p1}
    MaxLost = 0
    MaxReloads = 0
    MaxAnalyses = 0
    MaxRestarts = 1
INVARIANTS NothingSilentlyDropped
CHECK_DEADLOCK FALSE
