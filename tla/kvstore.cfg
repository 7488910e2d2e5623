\* Two scripts beside the global table, and two VMs: both scripts run, or one of them has
\* a generation that drains while the next one is loaded.
SPECIFICATION KvSpec
CONSTANTS
    Scripts = {s1, s2}
    Global = global
    Keys = {k1}
    Values = {v1, v2}
    Initials = {initial}
    Gens = {g1, g2}
    Nil = Nil
    None = None
SYMMETRY Interchangeable
INVARIANT
    ProxyRemembers
CHECK_DEADLOCK FALSE
