\* One script, LoadAll and two overlapping callbacks, three changes of the file.
SPECIFICATION HotSpec
CONSTANTS
    Scripts = {s1}
    Handles = {h1, h2}
    Callers = {main, c1, c2}
    Main = main
    Dispatchers = {}
    Ticker = ticker
    QueueCap = 1
    None = none
    MaxChanges = 3
SYMMETRY Interchangeable
INVARIANTS
    NoStaleCode
    SettledUnlessCrossed
\* After a shutdown, and with the changes used up, the program has stopped.
CHECK_DEADLOCK FALSE
