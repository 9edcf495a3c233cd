---------------------------- MODULE MCStaffLeave ----------------------------
\* The instance of StaffLeave that TLC checks.
EXTENDS StaffLeave, TLC

CONSTANTS l1, l2, d1, d2, ann, lead, hr, boss, q1, q2

TwoLeaves == {l1, l2}
TwoDates == {d1, d2}
Staff == {ann, lead, hr, boss}
Admins == {hr, boss}
TwoReq == {q1, q2}
Symmetry == Permutations(TwoLeaves) \cup Permutations(TwoDates) \cup Permutations(TwoReq)
=============================================================================
