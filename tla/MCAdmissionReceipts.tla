------------------------ MODULE MCAdmissionReceipts ------------------------
(* Model values and bounds for AdmissionReceipts. *)
EXTENDS AdmissionReceipts, TLC

CONSTANTS a1, r1, r2, q1, q2, u1, P

OneAdm == {a1}
TwoRcpt == {r1, r2}
MCReq == {q1, q2}
OneUtr == {u1}
MCPrefix == {P}
OneTyped == {[pfx |-> P, seq |-> 2]}
Symmetry == Permutations(TwoRcpt) \cup Permutations(MCReq)
=============================================================================
