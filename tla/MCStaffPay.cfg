SPECIFICATION PaySpec
CONSTANTS
    l1 = l1
    d1 = d1
    ann = ann
    bob = bob
    lead = lead
    q1 = q1
    l2 = l2
    d2 = d2
    p1 = p1
    p2 = p2
    NoUser = NoUser
    Leave <- TwoLeaves
    Date <- TwoDates
    DayCounts = {2}
    Quota = 3
    User <- Users
    Applicant = ann
    Lead = lead
    Hr = NoUser
    Super = NoUser
    LeaveAdmins = {}
    Modes = {"lead_only"}
    LeaveReq <- LeaveReqs
    FollowTorn = FALSE
    Staff <- Paid2
    FollowMixed = FALSE
    Req <- PayReqs
SYMMETRY Symmetry
CHECK_DEADLOCK FALSE
INVARIANTS
    PaidOnce
    PaidWhenAllPaid
    NotPenalisedTwice
PROPERTIES
    FiguresFrozen
