SPECIFICATION Spec
CONSTANTS
    Threads = {t1, t2}
    Workers = {}
    Driver = driver
    Partitions = {p1, p2}
    NSlots = 2
    Servers = {S1, S2}
    S1 = S1
    S2 = S2
    HomeOf <- ApartHome
    Hists = {1, 2, 3, 4, 5, 6}
    None = None
    Refused = Refused
    MaxTries = 2
    MaxFaults = 2
SYMMETRY Perms
INVARIANTS ResolvedOnce FillsArePublished NeverRefused TasksFailForCause NothingLeft
PROPERTY ImplementsFillOnce
