SPECIFICATION OutputPageSpec
CONSTANTS
    MaxResults = 2
    MaxClicks = 2
    Shown = {1, 2}
    Crystal <- MCCrystal
    FULL = 3
    MASTER = 2
    BATCH = 2
    LIMIT = 1
    Launches <- MCLaunches
    MaxTouches = 4
INVARIANTS PopupShowsAll SelectionAgrees EditsPersist OccupancyPossible PanelShowsView ViewSurvives
PROPERTIES Quiesces
CHECK_DEADLOCK FALSE
