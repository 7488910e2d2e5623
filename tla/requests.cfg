SPECIFICATION FairSpec
CONSTANTS
    c1 = c1
    Clients = {c1}
    Asked <- MCAsked
    Files <- MCFiles
    Calls = {k1, k2}
    AsyncCap = 1
    MaxGens = 2
INVARIANT
    AcceptedIsAnswered
PROPERTIES
    StopEnds
    FailuresReported
CHECK_DEADLOCK FALSE
