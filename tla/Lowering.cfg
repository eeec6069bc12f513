SPECIFICATION Spec
CONSTANTS
    Hists = {h1, h2}
    Calls <- MCCalls
    Ambient <- MCAmbient
    Depth <- MCDepth
    Strings <- MCStrings
    Nominal = nominal
    None = None
    MaxFills = 2
    nominal = nominal
    up = up
    down = down
    lumi = lumi
    pt = pt
    pt_up = pt_up
    chan = chan
    sf = sf
    sf_down = sf_down
    ev_w = ev_w
    events_w = events_w
    jets_w = jets_w
    jets_w_up = jets_w_up
    val = val
    val_up = val_up
    five = five
    two = two
    seven = seven
    one = one
    more = more
INVARIANTS PlanFillsAsAsked MaterializeFillsAsAsked BlamesTheOffender
SYMMETRY Alike
CHECK_DEADLOCK FALSE
