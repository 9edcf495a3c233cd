---------------------------- MODULE MCFollowUps ----------------------------
(* Model values and bounds for FollowUps. *)
EXTENDS FollowUps

CONSTANTS r1, r2, k1, k2, s1, n1

OneRow == {r1}
TwoRows == {r1, r2}
OneStage == {s1}
OneNote == {n1}
TwoTicks == {k1, k2}

\* One advance reminder: the T-15 and T-5 passes differ in the interval alone.
TwoPasses == <<"t5", "overdue">>
MCAhead == [k \in Kind |-> 0]
=============================================================================
