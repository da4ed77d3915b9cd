SPECIFICATION Spec
CONSTANTS
    MaxResults = 2
    MaxClicks = 2
INVARIANTS AmplitudesPersist
CHECK_DEADLOCK FALSE
