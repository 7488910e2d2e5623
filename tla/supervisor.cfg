\* One script whose generations follow each other, two overlapping callers, one fan-out
\* and the scheduler loop dispatching; no symmetry, since liveness is checked.
SPECIFICATION FairSpec
CONSTANTS
    Scripts = {s1}
    Handles = {h1}
    Callers = {c1, c2}
    Dispatchers = {d1}
    Ticker = ticker
    QueueCap = 1
    None = none
INVARIANTS
    TypeOK
    NoSendOnClosed
    CloseOnce
    RegistryAgrees
    RoutesOfTracked
    DrainsUnlessAborted
PROPERTIES
    StoppedIsSilent
    CallsReturn
    ShutdownEnds
