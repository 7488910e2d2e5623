\* Connection, handlers, scripts and messages over two sessions; one event fills a channel.
SPECIFICATION Spec
CONSTANTS
    button = button
    climate = climate
    Scripts <- MCScripts
    Asks <- MCAsks
    Topics <- MCTopics
    Retained <- MCRetained
    GluedLevels = {"x+"}
    ServerLevels = {"$SYS"}
    InboxCap = 1
    MaxSessions = 2
    MaxLoads = 2
INVARIANT SubscribedWhenQuiet
PROPERTY MissedForAReason
CHECK_DEADLOCK FALSE
