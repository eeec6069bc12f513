SPECIFICATION Spec
CONSTANTS
    nominal = nominal
    up = up
    down = down
    x = x
    x_up = x_up
    w = w
    w_down = w_down
    Hists = {h1, h2}
    First = h1
    Fills <- MCFills
    Labels = {nominal, up, down}
    Nominal = nominal
    NoLabel = NoLabel
    Pieces = {q1}
    None = None
    MaxFills = 2
INVARIANTS UniversesSum PlanIsNominal OneSpec BrokenByLateFill
PROPERTY CopiesApart
CHECK_DEADLOCK FALSE
