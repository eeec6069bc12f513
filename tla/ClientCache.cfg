SPECIFICATION CacheSpec
CONSTANTS
    Pids = {p1, p2}
    Callers = {t1, t2}
    Endpoints = {e1, e2}
    Nil = Nil
    MaxForks = 2
    MaxCalls = 3
INVARIANTS ChannelsApart OneClient
PROPERTY CallersServed
CHECK_DEADLOCK FALSE
