SPECIFICATION FairSpec
CONSTANTS
    p1 = p1
    p2 = p2
    e1 = e1
    n1 = n1
    Principals = {p1, p2}
    Expirers = {e1}
    Notifiers = {n1}
    Mortals = {p1, e1}
    Ttl = 1
    Timeout = 1
    MaxTime = 3
    Torn = Torn
    Absent = Absent
    Nobody = Nobody
CHECK_DEADLOCK FALSE
INVARIANTS NeverEmptied StopsOnRejection
PROPERTY HarnessGoesOn
