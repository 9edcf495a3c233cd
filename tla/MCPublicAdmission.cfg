SPECIFICATION Spec
CONSTANTS
    l1 = l1
    t1 = t1
    a1 = a1
    a2 = a2
    a3 = a3
    q1 = q1
    q2 = q2
    Lead <- MCLead
    Tok <- OneTok
    Adm <- ThreeAdm
    Req <- TwoReq
    MaxOffer = 2
    Revivals = {"attending"}
SYMMETRY Swaps
INVARIANTS
    DuplicatesBounded
    PricedInForce
    LinkUses
CHECK_DEADLOCK FALSE
