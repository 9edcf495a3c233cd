SPECIFICATION LeaveSpec
CONSTANTS
    l1 = l1
    l2 = l2
    d1 = d1
    d2 = d2
    ann = ann
    lead = lead
    hr = hr
    boss = boss
    q1 = q1
    q2 = q2
    NoUser = NoUser
    Leave <- TwoLeaves
    Date <- TwoDates
    DayCounts = {1, 2, 3}
    Quota = 2
    User <- Staff
    Applicant = ann
    Lead = lead
    Hr = hr
    Super = boss
    LeaveAdmins <- Admins
    Modes = {"two_level", "none"}
    LeaveReq <- TwoReq
    FollowTorn = FALSE
CHECK_DEADLOCK FALSE
SYMMETRY Symmetry
INVARIANTS
    LeaveTypeOK
    ChargedWhileApproved
    ChainHonoured
    BookedWithinQuota
