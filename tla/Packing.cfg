SPECIFICATION FairSpec
CONSTANTS
    n1 = n1
    n2 = n2
    b1 = b1
    b2 = b2
    b3 = b3
    b4 = b4
    b5 = b5
    Names = {n1, n2}
    Args <- MCArgs
    Plans = {b1, b2, b3, b4, b5}
    Slots <- MCSlots
    PlanOf <- MCPlanOf
    NameOf <- MCNameOf
    SizeOf <- MCSizeOf
    Rank <- MCRank
    Adaptive = {b5}
    MiB = 10
    Base = 20
    PerHist = 1
    PerTask = 1
    PerConn = 1
    Ceiling = 6
    Envelope = 1
    None = None
INVARIANTS ServersFit NoRoomBefore RefusedTakesNothing ServicesAgree
PROPERTY ServersKeep ServesEnd
