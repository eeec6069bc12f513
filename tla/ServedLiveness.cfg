SPECIFICATION FairSpec
CONSTANTS
    Threads = {t1, t2}
    Workers = {w1}
    Driver = driver
    Partitions = {p1}
    NSlots = 2
    Servers = {S1, S2}
    S1 = S1
    S2 = S2
    HomeOf <- ApartHome
    Hists = {1, 2, 3, 4}
    None = None
    Refused = Refused
    MaxTries = 2
    MaxFaults = 1
PROPERTY IdsArePublishedOnce IdsAreServed RunEnds
