SPECIFICATION Spec
CONSTANTS
    Tasks = 3
    Cats <- MCCats
    Shapes <- MCShapes
    Runs <- MCRuns
    Inf <- MCInf
INVARIANTS PartialsAddUp SingleFillIsEager
