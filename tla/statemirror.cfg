\* One entity with three versions, one crash, one buffered event, one queued row.
SPECIFICATION FairSpec
CONSTANTS
    Entities = {e1}
    MaxVersion = 3
    MaxCrashes = 1
    EventsCap = 1
    QueueCap = 1
INVARIANTS
    TypeOK
    StaleOnlyInKnownWindows
    RecordedWhenQuiet
PROPERTY
    NobodyWedged
\* After a shutdown, with the changes and crashes used up, the program has stopped.
CHECK_DEADLOCK FALSE
