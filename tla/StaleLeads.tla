----------------------------- MODULE StaleLeads -----------------------------
(***************************************************************************)
(* The stale-lead rule: an owned, open lead without activity is flagged,   *)
(* and if it stays quiet the scanner hands it to another owner of the same *)
(* role class.                                                             *)
(*                                                                         *)
(* Source: src/src/workers/sla-scanner.js, src/src/modules/sla/reassign.js *)
(* and pickPoolReplacement of src/src/modules/lead-routing/service.js.     *)
(* One worker makes a pass at a time, statement by statement, and a pass   *)
(* ends before the timer fires again; people work on leads between any two *)
(* statements.  One policy, which reassigns on escalation, as seeded by    *)
(* migration 1700000127000; the leads it leaves out as cold are no part of *)
(* the model, nor are changes of role and of the pools' members.           *)
(***************************************************************************)
EXTENDS Naturals, FiniteSets

CONSTANTS
    Lead, User,
    Role,         \* the role of each user, all in LEAD_OWNER_ROLES
    Pool,         \* members of the routing pool that claims each lead, if any
    NoLead, NoUser,
    NoActivity,   \* no_activity_hours
    Escalate,     \* escalate_after_hours
    MaxAttempts,  \* handovers tried per alert: 10 in the code
    PolicyAt,     \* when the policy was created
    Horizon,      \* bound on the clock
    MaxFaults     \* bound on passes that die half way

ASSUME StaleConstants ==
    /\ NoLead \notin Lead /\ NoUser \notin User
    /\ Pool \in [Lead -> SUBSET User]
    /\ NoActivity \in Nat /\ Escalate \in Nat
    /\ MaxAttempts \in Nat \ {0}
    /\ PolicyAt \in Nat /\ Horizon \in Nat /\ PolicyAt <= Horizon
    /\ MaxFaults \in Nat

VARIABLES
    now,
    user,     \* is_active and deleted_at of each user
    lead,     \* owner, last_activity_at, converted_at, has a follow-up
    alert,    \* the newest sla_alerts row of each lead
    scan,     \* the pass under way
    faults    \* passes that died

vars == <<now, user, lead, alert, scan, faults>>
people == <<now, user, lead>>

-----------------------------------------------------------------------------
Owners == User \cup {NoUser}
Time == 0..Horizon
UserState == {"active", "inactive", "deleted"}

LeadRow == [owner : Owners, last : Time, converted : BOOLEAN, followup : BOOLEAN]

\* "touched": last_activity_at > flagged_at, which the clock of the model is
\* too coarse to tell.  "moves" counts the handovers made for the alert.
AlertRow == [state : {"none", "open", "resolved"}, owner : Owners,
             flagged : Time, touched : BOOLEAN, escalated : BOOLEAN,
             held : BOOLEAN, attempts : 0..MaxAttempts, moves : Nat]
NoAlert == [state |-> "none", owner |-> NoUser, flagged |-> 0, touched |-> FALSE,
            escalated |-> FALSE, held |-> FALSE, attempts |-> 0, moves |-> 0]

Scanner == [pc : {"idle", "flag", "escalate", "pick", "record", "move", "resolve"},
            todo : SUBSET Lead, snap : [Lead -> Owners],
            cur : Lead \cup {NoLead}, pick : Owners]
Resting == [pc |-> "idle", todo |-> {}, snap |-> [l \in Lead |-> NoUser],
            cur |-> NoLead, pick |-> NoUser]

Init ==
    /\ now = PolicyAt
    /\ user = [u \in User |-> "active"]
    /\ lead \in [Lead -> [owner : Owners, last : 0..PolicyAt,
                          converted : {FALSE}, followup : {FALSE}]]
    /\ alert = [l \in Lead |-> NoAlert]
    /\ scan = Resting
    /\ faults = 0

-----------------------------------------------------------------------------
(* A pass of the scanner *)

Active == {u \in User : user[u] = "active"}
Found(u) == u \in User /\ user[u] # "deleted"

\* Mutant: without the backlog guard.
StaleBacklog(l) ==
    /\ lead[l].owner # NoUser /\ ~lead[l].converted /\ ~lead[l].followup
    /\ lead[l].last + NoActivity < now
    /\ alert[l].state # "open"

\* The stale-lead SELECT.
Stale(l) ==
    /\ lead[l].owner # NoUser /\ ~lead[l].converted /\ ~lead[l].followup
    /\ lead[l].last + NoActivity < now
    /\ lead[l].last >= PolicyAt
    /\ alert[l].state # "open"

StartPass ==
    /\ scan.pc = "idle"
    /\ scan' = [scan EXCEPT !.pc = "flag", !.todo = {l \in Lead : Stale(l)},
                            !.snap = [l \in Lead |->
                                         IF Stale(l) THEN lead[l].owner ELSE NoUser]]
    /\ UNCHANGED <<people, alert, faults>>

\* One alert per row selected, under the owner the SELECT returned.
Flag(l) ==
    /\ scan.pc = "flag" /\ l \in scan.todo
    /\ alert' = [alert EXCEPT ![l] = [NoAlert EXCEPT !.state = "open",
                                      !.owner = scan.snap[l], !.flagged = now]]
    /\ scan' = [scan EXCEPT !.todo = @ \ {l}]
    /\ UNCHANGED <<people, faults>>

\* Mutants: an alert that was held is never tried again; one attempt too many.
DueOnce(l) ==
    /\ alert[l].state = "open" /\ alert[l].flagged + Escalate < now
    /\ ~alert[l].escalated
DueOneMore(l) ==
    /\ alert[l].state = "open" /\ alert[l].flagged + Escalate < now
    /\ alert[l].escalated =>
           alert[l].held /\ alert[l].attempts <= MaxAttempts

\* The escalation SELECT.
Due(l) ==
    /\ alert[l].state = "open" /\ alert[l].flagged + Escalate < now
    /\ alert[l].escalated => alert[l].held /\ alert[l].attempts < MaxAttempts

StartEscalation ==
    /\ scan.pc = "flag" /\ scan.todo = {}
    /\ scan' = [scan EXCEPT !.pc = "escalate", !.todo = {l \in Lead : Due(l)},
                            !.snap = Resting.snap]
    /\ UNCHANGED <<people, alert, faults>>

\* escalated_at is stamped before anybody is picked.
Stamp(l) ==
    /\ scan.pc = "escalate" /\ l \in scan.todo
    /\ alert' = [alert EXCEPT ![l] = [alert[l] EXCEPT !.escalated = TRUE,
                                                      !.attempts = @ + 1]]
    /\ scan' = [scan EXCEPT !.pc = "pick", !.todo = @ \ {l}, !.cur = l]
    /\ UNCHANGED <<people, faults>>

\* Mutant: the pool outranks the role class.
PoolPeersOfAnyRole(l, owner) == (Pool[l] \cap Active) \ {owner}

\* pickPoolReplacement: members who can own a lead, of the outgoing owner's
\* role.  The role of an owner who was deleted is not found, and not compared.
PoolPeers(l, owner) ==
    {u \in (Pool[l] \cap Active) \ {owner} :
        Found(owner) => Role[u] = Role[owner]}

\* pickSameRoleReplacement.
Peers(owner) ==
    {u \in Active \ {owner} : Found(owner) /\ Role[u] = Role[owner]}

\* The least loaded, or the next in the rotation: any of them, in the model.
Replacements(l) ==
    LET owner == alert[l].owner
    IN  IF PoolPeers(l, owner) # {} THEN PoolPeers(l, owner) ELSE Peers(owner)

PickOwner ==
    /\ scan.pc = "pick"
    /\ \E u \in IF Replacements(scan.cur) = {} THEN {NoUser}
                ELSE Replacements(scan.cur) :
          scan' = [scan EXCEPT !.pc = "record", !.pick = u]
    /\ UNCHANGED <<people, alert, faults>>

\* Mutant: the hold of an earlier attempt is not cleared by a success.
HoldAfterSticks(l, u) == alert[l].held \/ u = NoUser

HoldAfter(l, u) == u = NoUser

\* hold_reason is written, or cleared, before the lead moves.
RecordHold ==
    /\ scan.pc = "record"
    /\ alert' = [alert EXCEPT ![scan.cur] =
                    [@ EXCEPT !.held = HoldAfter(scan.cur, scan.pick)]]
    /\ scan' = IF scan.pick = NoUser
               THEN [scan EXCEPT !.pc = "escalate", !.cur = NoLead]
               ELSE [scan EXCEPT !.pc = "move"]
    /\ UNCHANGED <<people, faults>>

\* reassignStaleLead, whose UPDATE looks at the id alone; the owner ledger it
\* also writes is modelled in LeadAssignment.
Move ==
    /\ scan.pc = "move"
    /\ lead' = [lead EXCEPT ![scan.cur] = [@ EXCEPT !.owner = scan.pick,
                                                    !.last = now]]
    /\ alert' = [alert EXCEPT ![scan.cur] =
                    [alert[scan.cur] EXCEPT !.touched = TRUE, !.moves = @ + 1]]
    /\ scan' = [scan EXCEPT !.pc = "resolve"]
    /\ UNCHANGED <<now, user, faults>>

ResolveMoved ==
    /\ scan.pc = "resolve"
    /\ alert' = [alert EXCEPT ![scan.cur] = [@ EXCEPT !.state = "resolved"]]
    /\ scan' = [scan EXCEPT !.pc = "escalate", !.cur = NoLead, !.pick = NoUser]
    /\ UNCHANGED <<people, faults>>

\* The last statement of the pass: alerts of leads that were touched.
AutoResolve ==
    /\ scan.pc = "escalate" /\ scan.todo = {}
    /\ alert' = [l \in Lead |->
                    IF alert[l].state = "open" /\ alert[l].touched
                    THEN [alert[l] EXCEPT !.state = "resolved"] ELSE alert[l]]
    /\ scan' = Resting
    /\ UNCHANGED <<people, faults>>

\* A statement throws and the catch of tick ends the pass; or the server stops.
Abort ==
    /\ scan.pc # "idle" /\ faults < MaxFaults
    /\ faults' = faults + 1
    /\ scan' = Resting
    /\ UNCHANGED <<people, alert>>

-----------------------------------------------------------------------------
(* People *)

\* last_activity_at moves to now; an open alert sees it as activity.
Activity(l, row) ==
    /\ lead' = [lead EXCEPT ![l] = [row EXCEPT !.last = now]]
    /\ alert' = [alert EXCEPT ![l] = [@ EXCEPT !.touched = TRUE]]
    /\ UNCHANGED <<now, user, scan, faults>>

\* A note, a call, a comment, a stage change: trigger of migration 1700000149000.
Work(l) == Activity(l, lead[l])
BookFollowup(l) == Activity(l, [lead[l] EXCEPT !.followup = TRUE])
ChangeStage(l) == Activity(l, [lead[l] EXCEPT !.converted = ~@])
Assign(l, u) ==
    /\ u \in Active \cup {NoUser}
    /\ Activity(l, [lead[l] EXCEPT !.owner = u])

\* POST /sla/alerts/:id/resolve
ResolveByHand(l) ==
    /\ alert[l].state = "open"
    /\ alert' = [alert EXCEPT ![l] = [@ EXCEPT !.state = "resolved"]]
    /\ UNCHANGED <<people, scan, faults>>

SetActive(u) ==
    /\ user[u] # "deleted"
    /\ user' = [user EXCEPT ![u] = IF @ = "active" THEN "inactive" ELSE "active"]
    /\ UNCHANGED <<now, lead, alert, scan, faults>>

\* deleteUser: open leads go to the successor, then the row is soft-deleted.
Offboard(u, v) ==
    /\ u # v /\ user[u] # "deleted" /\ user[v] = "active"
    /\ LET mine == {l \in Lead : lead[l].owner = u /\ ~lead[l].converted}
       IN  /\ lead' = [l \in Lead |->
                 IF l \in mine THEN [lead[l] EXCEPT !.owner = v, !.last = now]
                 ELSE lead[l]]
           /\ alert' = [l \in Lead |->
                 IF l \in mine THEN [alert[l] EXCEPT !.touched = TRUE]
                 ELSE alert[l]]
    /\ user' = [user EXCEPT ![u] = "deleted"]
    /\ UNCHANGED <<now, scan, faults>>

TimePasses ==
    /\ now < Horizon
    /\ now' = now + 1
    /\ UNCHANGED <<user, lead, alert, scan, faults>>

-----------------------------------------------------------------------------
ScanStep ==
    \/ StartPass \/ StartEscalation \/ PickOwner \/ RecordHold \/ Move
    \/ ResolveMoved \/ AutoResolve
    \/ \E l \in Lead : Flag(l) \/ Stamp(l)

Next ==
    \/ ScanStep \/ Abort \/ TimePasses
    \/ \E l \in Lead : Work(l) \/ BookFollowup(l) \/ ChangeStage(l) \/ ResolveByHand(l)
    \/ \E l \in Lead, u \in Owners : Assign(l, u)
    \/ \E u \in User : SetActive(u)
    \/ \E u, v \in User : Offboard(u, v)

Spec == Init /\ [][Next]_vars

\* setInterval fires again whatever the last pass did, and time passes.
FairSpec == Spec /\ WF_vars(ScanStep) /\ WF_vars(TimePasses)

-----------------------------------------------------------------------------
(* Properties *)

\* Every variable stays in its domain; attempts stop at the cap of
\* sla-scanner.js:231.
TypeOK ==
    /\ now \in Time
    /\ user \in [User -> UserState]
    /\ lead \in [Lead -> LeadRow]
    /\ alert \in [Lead -> AlertRow]
    /\ scan \in Scanner
    /\ faults \in 0..MaxFaults

\* The backlog guard, end to end: a lead last touched before the policy existed
\* has no alert, however late the row it was selected by is processed.
BacklogKept ==
    \A l \in Lead : alert[l].state # "none" => lead[l].last >= PolicyAt

\* An alert hands its lead over at most once, although failed handovers are
\* retried and a pass may die between any two statements.
MovedOnce == \A l \in Lead : alert[l].moves <= 1

\* The handover of lead l, as a step.
Taken(l) == scan.pc = "move" /\ scan.cur = l /\ alert'[l].moves # alert[l].moves

\* A handover never goes back to the owner who was warned, and stays in his role
\* class: it crosses only to a member of the lead's own pool, and only when the
\* owner was deleted, since pickPoolReplacement then has no role to compare with
\* (lead-routing/service.js:203-221).
Same(u, v) == u \in User /\ v \in User /\ Role[u] = Role[v]
ClassKept ==
    [][\A l \in Lead :
          LET warned == alert[l].owner  chosen == lead'[l].owner
          IN  Taken(l) =>
                 /\ chosen # warned
                 /\ Same(chosen, warned) \/ (~Found(warned) /\ chosen \in Pool[l])]_vars

\* What lead-routing/service.js:192-196 says: a stale lead must never cross
\* between the role classes.
NeverCrosses == [][\A l \in Lead : Taken(l) => Same(lead'[l].owner, alert[l].owner)]_vars

\* What sla-scanner.js:324-325 and migration 1700000127000:17-19 say: an owner
\* who picks the lead up before the handover keeps it.  The activity here comes
\* before the SELECT that begins the handovers.
TouchedKept ==
    [][scan.pc = "flag" /\ scan'.pc = "escalate" =>
          \A l \in scan'.todo : ~alert[l].touched]_vars

\* No alert is left behind: one whose window closes is resolved, or tried until
\* the attempts are used up, as long as no pass died.
Handled ==
    \A l \in Lead :
        (alert[l].state = "open" /\ alert[l].flagged + Escalate < Horizon)
           ~> \/ alert[l].state = "resolved"
              \/ alert[l].attempts = MaxAttempts
              \/ faults > 0

\* The inductive invariant.  What a pass selected stays as the SELECT saw it,
\* because no one else writes those columns: a row to flag was touched after
\* the policy was made, a row to escalate has attempts left and has not moved.
NewestAlert(l) ==
    /\ ~alert[l].escalated => alert[l].attempts = 0
    /\ ~alert[l].escalated \/ alert[l].held => alert[l].moves = 0
    /\ alert[l].moves <= 1

\* u may take over lead l from the owner its alert warned.
MayReplace(u, l) ==
    /\ u # alert[l].owner
    /\ Same(u, alert[l].owner) \/ (~Found(alert[l].owner) /\ u \in Pool[l])

InHand == scan.pc \in {"pick", "record", "move", "resolve"}
PassInv ==
    /\ scan.pc = "flag" => \A l \in scan.todo : lead[l].last >= PolicyAt
    /\ scan.pc = "escalate" \/ InHand =>
          \A l \in scan.todo : /\ alert[l].moves = 0
                               /\ alert[l].attempts < MaxAttempts
    /\ InHand => /\ scan.cur \in Lead /\ scan.cur \notin scan.todo
                 /\ alert[scan.cur].escalated
    /\ InHand /\ scan.pc # "resolve" => alert[scan.cur].moves = 0
    /\ scan.pc = "move" => scan.pick # NoUser /\ ~alert[scan.cur].held
    /\ scan.pc = "resolve" => lead[scan.cur].last >= PolicyAt
    /\ scan.pc \in {"record", "move"} /\ scan.pick # NoUser =>
          MayReplace(scan.pick, scan.cur)

IInv ==
    /\ TypeOK
    /\ PolicyAt <= now
    /\ BacklogKept
    /\ \A l \in Lead : NewestAlert(l)
    /\ PassInv
=============================================================================
