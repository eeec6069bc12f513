SPECIFICATION PiecesSpec
CONSTANTS
    Plans = {a, b}
    Partitions = {p, q}
    Builders = 1
    Unset = Unset
    MaxBinds = 2
    MaxRuns = 3
INVARIANTS RunsExact FailsForReuse
SYMMETRY Symmetry
CHECK_DEADLOCK FALSE
