SPECIFICATION Spec
CONSTANTS
    a1 = a1
    r1 = r1
    r2 = r2
    q1 = q1
    q2 = q2
    u1 = u1
    P = P
    NoUtr = NoUtr
    NoPrefix = NoPrefix
    Legacy = Legacy
    Adm <- OneAdm
    Paying <- OneAdm
    Rcpt <- TwoRcpt
    Req <- MCReq
    Utr <- OneUtr
    Prefix <- MCPrefix
    Starts = {1}
    MaxSlot = 0
    HandKinds = {"registration", "misc"}
    Typed <- OneTyped
CHECK_DEADLOCK FALSE
SYMMETRY Symmetry
INVARIANTS
    DrawnOnce
    OneRegistration
    TransferReceiptedOnce
PROPERTIES
    ImplementsLedger
