SPECIFICATION Spec
CONSTANTS
    d1 = d1
    d2 = d2
    plain1 = plain1
    squash1 = squash1
    abort1 = abort1
    Dirs = {d1, d2}
    Admitted = {d1}
    Delivered = d1
    Unready = d2
    Plain = {plain1}
    Squash = {squash1}
    Abort = {abort1}
    None = None
    Torn = Torn
    MaxCommits = 2
    MaxPushed = 1
    MaxMain = 1
    MaxDeaths = 1
CHECK_DEADLOCK FALSE
INVARIANTS NoWorkIsLost OnePlaceEach SettledIsGone
PROPERTIES LeftBehindForAReason RemovesWhatItExamined
