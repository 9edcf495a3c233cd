---------------------------- MODULE MCWorkSession ----------------------------
\* The instance of WorkSession that TLC checks.
EXTENDS WorkSession

CONSTANTS q1, q2

TwoReq == {q1, q2}
=============================================================================
