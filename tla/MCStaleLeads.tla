---------------------------- MODULE MCStaleLeads ----------------------------
(* Model values and bounds for StaleLeads. *)
EXTENDS StaleLeads

CONSTANTS l1, c1, c2, t1

OneLead == {l1}
Team == {c1, c2, t1}

\* Two counsellors and a telecaller; the pool that claims l1 mixes both.
MCRole == [u \in Team |-> IF u = t1 THEN "telecaller" ELSE "counsellor"]
OnePool == [l \in OneLead |-> {c2, t1}]
=============================================================================
