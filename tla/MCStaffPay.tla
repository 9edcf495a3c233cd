----------------------------- MODULE MCStaffPay -----------------------------
\* The instance of StaffPay that TLC checks.
EXTENDS StaffPay, TLC

CONSTANTS l1, l2, d1, d2, ann, bob, lead, q1, p1, p2

TwoLeaves == {l1, l2}
TwoDates == {d1, d2}
Users == {ann, lead}
Paid2 == {ann, bob}
LeaveReqs == {q1}
PayReqs == {p1, p2}
Symmetry == Permutations(TwoLeaves) \cup Permutations(TwoDates) \cup Permutations(PayReqs)
=============================================================================
