SPECIFICATION FairSpec
CONSTANTS
    u1 = u1
    u2 = u2
    q1 = q1
    q2 = q2
    NoUser = NoUser
    User <- TwoUser
    Req <- TwoReq
    Kinds = {"reassign", "refer", "bulk", "put", "auto", "sla", "create", "workflow"}
    Failing = {"reassign", "auto"}
    MaxRows = 4
CHECK_DEADLOCK FALSE
INVARIANTS
    OwnerMatchesLedger
    FromOwnedIt
PROPERTIES
    Finishes
