SPECIFICATION FairSpec
CONSTANTS
    Threads = {t1, t2}
    Entries = {e1, e2, e3}
    NULL = NULL
    NoThread = NoThread
    MaxCount = 2
    MaxBytes = 4
    Sizes = {1, 3}
    MaxRevision = 3
    MaxRequests = 5
INVARIANTS ListSound NoFreedEntryTouched ReplyNamesItsLaunch
PROPERTIES Implements PollAnswered
CHECK_DEADLOCK FALSE
