-------------------------- MODULE MCLeadConversion --------------------------
(* Model values and bounds for LeadConversion. *)
EXTENDS LeadConversion, TLC

CONSTANTS new, follow, enrolled, joined, q1, q2

FourStages == {new, follow, enrolled, joined}
TwoSuccess == {enrolled, joined}
TwoReq == {q1, q2}
Swaps == Permutations({q1, q2})
=============================================================================
