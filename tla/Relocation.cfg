SPECIFICATION Spec
CONSTANTS
    p1 = p1
    p2 = p2
    Procs = {p1, p2}
    Files = 3
    None = None
    MaxCalls = 4
    MaxFaults = 3
    MaxKills = 1
    MaxWrites = 1
CHECK_DEADLOCK FALSE
SYMMETRY CallSymmetry
INVARIANTS NothingLost UndoneAsAWhole ManifestIsTrue
