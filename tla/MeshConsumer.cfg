SPECIFICATION FairMeshSpec
CONSTANTS
    e1 = e1
    e2 = e2
    e3 = e3
    c1 = c1
    c2 = c2
    Events = {e1, e2}
    Long = {e1, e2}
    Split = {e2}
    Consumers = {c1, c2}
    MortalConsumers = {c1}
    Resetters = {c1}
    MaxTrace = 5
    TornOffset = TornOffset
CHECK_DEADLOCK FALSE
INVARIANTS NothingSkipped
PROPERTY EventuallyTraced
