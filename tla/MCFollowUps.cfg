SPECIFICATION FairSpec
CONSTANTS
    r1 = r1
    r2 = r2
    k1 = k1
    k2 = k2
    s1 = s1
    n1 = n1
    NoRow = NoRow
    NoStage = NoStage
    NoDue = NoDue
    Row <- OneRow
    Stage <- OneStage
    Note <- OneNote
    Tick <- TwoTicks
    Passes <- TwoPasses
    Ahead <- MCAhead
    Horizon = 1
    MaxFaults = 1
INVARIANTS
    RemindersBounded
    FreshCycle
    MissedTold
PROPERTIES
    Chased
