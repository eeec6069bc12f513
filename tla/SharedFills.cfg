SPECIFICATION Spec
CONSTANTS
    hist = hist
    Tasks = 2
    Layouts <- MCLayouts
    Outputs = 2
    BH = BH
    None = None
    MaxCombines = 2
INVARIANT SlotsSum
PROPERTY PartialsKept
CHECK_DEADLOCK FALSE
