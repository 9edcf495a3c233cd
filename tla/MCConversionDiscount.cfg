SPECIFICATION Spec
CONSTANTS
    new = new
    follow = follow
    enrolled = enrolled
    joined = joined
    q1 = q1
    q2 = q2
    Stage <- FourStages
    Success <- TwoSuccess
    Entry = new
    Follow = follow
    NoStage = NoStage
    Req <- TwoReq
    Writers = {"put", "bulk", "webhook", "followup"}
    Crashes = TRUE
SYMMETRY Swaps
INVARIANTS
    SignedOff
    HoldsConversion
    ConvertedMatchesStage
PROPERTIES
    ConvertedIsClosed
