\* The goroutines of a script against the second connection.
SPECIFICATION Spec
CONSTANTS
    Commands = {c1}
    Writers = {w1}
    ExtraTypes = {zha, state_changed}
    StateChanged = state_changed
    MaxDials = 2
INVARIANT EveryConnectSeeds
CHECK_DEADLOCK FALSE
