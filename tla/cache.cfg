SPECIFICATION Spec
CONSTANTS
    Procs = {p1, p2}
    Sources <- MCSources
    PartLength = 120
    Parts <- MCParts
    Sizes <- MCSizes
    Limits <- MCLimits
INVARIANTS TypeOK RunsAsAssembled RunsWhole Fresh WholeAtRest
SYMMETRY Symmetry
CHECK_DEADLOCK FALSE
