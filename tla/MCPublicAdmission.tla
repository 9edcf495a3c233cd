------------------------- MODULE MCPublicAdmission -------------------------
(* Model values and bounds for PublicAdmission. *)
EXTENDS PublicAdmission, TLC

CONSTANTS l1, t1, a1, a2, a3, q1, q2

MCLead == {l1}
OneTok == {t1}
ThreeAdm == {a1, a2, a3}
TwoReq == {q1, q2}
Swaps == Permutations({q1, q2}) \cup Permutations({a1, a2, a3})
=============================================================================
