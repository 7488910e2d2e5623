\* A command, and a goroutine that registers one of two event types, one of them
\* state_changed itself, or fires an event, over two connections.
SPECIFICATION FairSpec
CONSTANTS
    Commands = {c1}
    Writers = {w1}
    ExtraTypes = {zha}
    StateChanged = state_changed
    MaxDials = 2
INVARIANTS
    TypeOK
    VerdictIsOwn
    NobodyStranded
    EachTypeAskedOnce
PROPERTY ConnectionServes
\* The client stops at shutdown, and the bound on the connections ends the rest.
CHECK_DEADLOCK FALSE
