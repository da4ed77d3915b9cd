SPECIFICATION FairSpec
CONSTANTS
    Inputs = {a, b}
    Opds = {1, 2}
    NoInput = NoInput
    MaxRecent = 2
    MaxActions = 4
INVARIANTS RunningIsAwaited ResultOfInput
PROPERTIES PollsForever
CHECK_DEADLOCK FALSE
