SPECIFICATION WarningsSpec
CONSTANTS
    Hists = {h1, h2, h3}
    Lines = {l1, l2}
    Nothing = Nothing
    MaxFills = 2
    MaxUses = 3
INVARIANT UseShowsItsOperands
PROPERTY OnlyKinHide
SYMMETRY Symmetry
CHECK_DEADLOCK FALSE
