SPECIFICATION FairSpec
CONSTANTS
    agent1 = agent1
    agent2 = agent2
    cron = cron
    Agents = {agent1}
    Cron = cron
    NoOne = NoOne
    Missing = Missing
    Partial = Partial
    Tables = 2
    Keep = 3
    MaxRows = 2
    MaxDays = 2
    MaxForced = 1
    MaxFaults = 2
CHECK_DEADLOCK FALSE
INVARIANTS VersionVouches FaultsCostOneEach StampVouches
PROPERTY EventuallySetUp
