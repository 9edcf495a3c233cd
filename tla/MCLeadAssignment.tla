-------------------------- MODULE MCLeadAssignment --------------------------
(* Model values and bounds for LeadAssignment. *)
EXTENDS LeadAssignment

CONSTANTS u1, u2, q1, q2

TwoUser == {u1, u2}
TwoReq == {q1, q2}
=============================================================================
