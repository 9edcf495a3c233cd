SPECIFICATION FairSpec
CONSTANTS
    q1 = q1
    q2 = q2
    NoTime = NoTime
    Closer = Closer
    Rows = 2
    Req <- TwoReq
    Day = 2
    Grace = 1
    Horizon = 3
    MaxFaults = 1
    FollowTorn = FALSE
CHECK_DEADLOCK FALSE
INVARIANTS
    AccountsAgree
    RestartsMarked
PROPERTIES
    EndsWithDay
