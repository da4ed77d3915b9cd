SPECIFICATION Spec
CONSTANTS
    MaxResults = 2
    MaxClicks = 2
INVARIANTS ClosedStaysClosed
CHECK_DEADLOCK FALSE
