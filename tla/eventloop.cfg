\* Two entities, other events and direct ones, three in all; a channel of two,
\* which they overflow while the script loads.
SPECIFICATION FairSpec
CONSTANTS
    Entities = {e1, e2}
    Other = other
    Direct = direct
    MaxEvents = 3
    QueueCap = 2
INVARIANTS
    TypeOK
    SeesNewest
PROPERTIES
    ImplementsMailbox
    CatchesUp
\* Once the events are used up, or the script has ended, nothing happens.
CHECK_DEADLOCK FALSE
