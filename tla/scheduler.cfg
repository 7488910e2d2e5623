\* Three scripts, each with two generations: an interval timer with a one-shot
\* one, an interval timer and a daily one whose row an earlier run of the
\* process may have left, overdue or not.
SPECIFICATION FairSpec
CONSTANTS
    Every = {e1, e2}
    At = {d1}
    After = {a1}
    NoId = NoId
    Scripts = {{e1, a1}, {e2}, {d1}}
    Restored = {e2, d1}
    Interval = 2
    Day = 2
    MaxTime = 3
    MaxGens = 2
INVARIANTS
    TypeOK
    NoOversleep
    TableMatchesHeap
PROPERTIES
    FiresApart
    DueFires
\* The clock and the generations run out.
CHECK_DEADLOCK FALSE
