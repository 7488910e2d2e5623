SPECIFICATION HistorySpec
CONSTANTS
    Light = light
    Automation = automation
    PerSecond = 2
    Retention = 1
    Rules <- MCRules
    Limit = 2
    Sinces = {2, 3}
    MaxNow = 5
    MaxWrites = 2
    MaxFailures = 1
INVARIANTS
    AggregatesAreRight
    CulpritIsRight
PROPERTY PurgeKeepsWindows
CHECK_DEADLOCK FALSE
