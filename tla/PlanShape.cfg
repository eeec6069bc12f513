SPECIFICATION Spec
CONSTANTS
    one = one
    two = two
    up = up
    Givens <- MCGivens
    Keys <- MCKeys
    Sessions = {one, two}
    Str <- MCStr
    Nominal = Nominal
    Bare = Bare
    None = None
    Other = Other
    Empty = Empty
INVARIANTS NestingComesBack Carried
CHECK_DEADLOCK FALSE
