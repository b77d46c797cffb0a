SPECIFICATION Spec
CONSTANTS
    a1 = a1
    a2 = a2
    b1 = b1
    b2 = b2
    Actors = {a1, a2}
    Bets = {b1, b2}
    Claimers = {a1, a2}
    Forcers = {a2}
    Completers = {a1}
    SpecWriters = {a1}
    Editors = {a2}
    Collectors = {a2}
    Starters = {a2}
    Mortals = {a1, a2}
    Anchor <- OwnBlock
    InTurn = TRUE
    Ttl = 1
    MaxTime = 2
    NoActor = NoActor
    Torn = Torn
    NoFile = NoFile
CHECK_DEADLOCK FALSE
INVARIANTS ClaimAndStatusAgree
PROPERTY MarksAreKept
