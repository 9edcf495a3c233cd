------------------------- MODULE StaleLeads_proofs -------------------------
(***************************************************************************)
(* Proofs about StaleLeads, for any leads, users, pools and windows.       *)
(***************************************************************************)
EXTENDS StaleLeads, TLAPS

USE StaleConstants

LEMMA EmptyTyped == NoAlert \in AlertRow /\ Resting \in Scanner
BY DEF NoAlert, AlertRow, Resting, Scanner, Owners, Time

LEMMA InitInv == Init => IInv
<1> SUFFICES ASSUME Init PROVE IInv
  OBVIOUS
<1>1. \A l \in Lead : alert[l] = NoAlert
  BY DEF Init
<1>2. lead \in [Lead -> LeadRow]
  <2>1. 0..PolicyAt \subseteq Time
    BY DEF Time
  <2> QED BY <2>1 DEF Init, LeadRow
<1>3. TypeOK
  BY <1>2, EmptyTyped DEF Init, TypeOK, Time, UserState
<1>4. BacklogKept /\ \A l \in Lead : NewestAlert(l)
  BY <1>1 DEF BacklogKept, NewestAlert, NoAlert
<1>5. PassInv
  BY DEF Init, PassInv, InHand, Resting
<1> QED BY <1>3, <1>4, <1>5 DEF Init, IInv

\* What a step outside the pass may do to the rows: it touches them, resolves
\* alerts and moves leads to people, but writes no column of the escalation.
SameEscalation ==
    \A l \in Lead : /\ alert'[l].escalated = alert[l].escalated
                    /\ alert'[l].held = alert[l].held
                    /\ alert'[l].attempts = alert[l].attempts
                    /\ alert'[l].moves = alert[l].moves
                    /\ alert'[l].owner = alert[l].owner

LEMMA OutsideKeeps ==
  ASSUME IInv, UNCHANGED <<scan, faults>>, SameEscalation,
         now' \in Time, now <= now', user' \in [User -> UserState],
         lead' \in [Lead -> LeadRow], alert' \in [Lead -> AlertRow],
         \A l \in Lead : lead'[l].last = lead[l].last \/ lead'[l].last >= PolicyAt,
         \A l \in Lead : alert'[l].state # "none" => alert[l].state # "none",
         \A u \in User : user[u] = "deleted" => user'[u] = "deleted"
  PROVE  IInv'
<1> USE DEF IInv, SameEscalation
<1>1. TypeOK'
  BY DEF TypeOK
<1>2. \A l \in Lead : lead[l].last \in Nat /\ lead'[l].last \in Nat
  BY DEF TypeOK, LeadRow, Time
<1>3. BacklogKept'
  BY <1>2 DEF BacklogKept
<1>4. \A l \in Lead : NewestAlert(l)'
  BY DEF NewestAlert
<1>5. PassInv'
  <2>1. scan.todo \subseteq Lead
    BY DEF TypeOK, Scanner
  <2>2. (scan.pc = "flag" => \A l \in scan.todo : lead[l].last >= PolicyAt)'
    BY <1>2, <2>1 DEF PassInv
  <2>3. ASSUME InHand
        PROVE  /\ scan.cur \in Lead
               /\ alert'[scan.cur].owner = alert[scan.cur].owner
               /\ alert'[scan.cur].escalated = alert[scan.cur].escalated
               /\ alert'[scan.cur].held = alert[scan.cur].held
               /\ alert'[scan.cur].moves = alert[scan.cur].moves
    BY <2>3 DEF PassInv
  <2>4. ASSUME InHand, NEW u, MayReplace(u, scan.cur) PROVE MayReplace(u, scan.cur)'
    BY <2>3, <2>4 DEF MayReplace, Found, Same
  <2>5. (scan.pc \in {"record", "move"} /\ scan.pick # NoUser =>
            MayReplace(scan.pick, scan.cur))'
    BY <2>4 DEF PassInv, InHand
  <2>6. (scan.pc = "escalate" \/ InHand =>
            \A l \in scan.todo : /\ alert[l].moves = 0
                                 /\ alert[l].attempts < MaxAttempts)'
    BY <2>1 DEF PassInv, InHand
  <2> QED BY <2>2, <2>3, <2>5, <2>6 DEF PassInv, InHand
<1>6. PolicyAt <= now'
  BY DEF TypeOK, Time
<1> QED BY <1>1, <1>3, <1>4, <1>5, <1>6

\* A lead that is handed to u now; an alert whose lead is touched.
LEMMA HandedRow ==
  ASSUME NEW r \in LeadRow, NEW u \in Owners, now \in Time
  PROVE  /\ [r EXCEPT !.owner = u, !.last = now] \in LeadRow
         /\ [r EXCEPT !.owner = u, !.last = now].last = now
BY DEF LeadRow

LEMMA TouchedRow ==
  ASSUME NEW r \in AlertRow
  PROVE  LET new == [r EXCEPT !.touched = TRUE]
         IN  /\ new \in AlertRow /\ new.state = r.state
             /\ new.escalated = r.escalated /\ new.held = r.held
             /\ new.attempts = r.attempts /\ new.moves = r.moves
             /\ new.owner = r.owner
BY DEF AlertRow

\* Work on a lead sets its clock to now, which is never back in time.
LEMMA ActivityKeeps ==
  ASSUME IInv, NEW l \in Lead, NEW row \in LeadRow, Activity(l, row)
  PROVE  IInv' /\ SameEscalation
<1> DEFINE new == [row EXCEPT !.last = now]
           seen == [alert[l] EXCEPT !.touched = TRUE]
<1>1. new \in LeadRow /\ new.last = now
  BY DEF LeadRow, IInv, TypeOK
<1>2. /\ seen \in AlertRow /\ seen.state = alert[l].state
      /\ seen.escalated = alert[l].escalated /\ seen.held = alert[l].held
      /\ seen.attempts = alert[l].attempts /\ seen.moves = alert[l].moves
      /\ seen.owner = alert[l].owner
  BY TouchedRow DEF IInv, TypeOK
<1>3. lead' = [lead EXCEPT ![l] = new] /\ alert' = [alert EXCEPT ![l] = seen]
  BY DEF Activity
<1> HIDE DEF new, seen
<1>4. lead' \in [Lead -> LeadRow] /\ alert' \in [Lead -> AlertRow]
  BY <1>1, <1>2, <1>3 DEF IInv, TypeOK
<1>5. \A k \in Lead : lead'[k].last = lead[k].last \/ lead'[k].last >= PolicyAt
  BY <1>1, <1>3 DEF IInv, TypeOK
<1>6. /\ SameEscalation
      /\ \A k \in Lead : alert'[k].state = alert[k].state
  BY <1>2, <1>3 DEF SameEscalation, IInv, TypeOK
<1>7. UNCHANGED <<now, user, scan, faults>>
  BY DEF Activity
<1> QED
  BY <1>4, <1>5, <1>6, <1>7, OutsideKeeps DEF IInv, TypeOK, Time

\* Whatever people do, to a lead, to an alert or to a user.
LEMMA PeopleKeep ==
  ASSUME IInv,
         \/ TimePasses
         \/ \E l \in Lead : Work(l) \/ BookFollowup(l) \/ ChangeStage(l)
                            \/ ResolveByHand(l)
         \/ \E l \in Lead, u \in Owners : Assign(l, u)
         \/ \E u \in User : SetActive(u)
         \/ \E u, v \in User : Offboard(u, v)
  PROVE  IInv' /\ SameEscalation
<1>t. TypeOK
  BY DEF IInv
<1>1. CASE TimePasses
  <2>1. now' \in Time /\ now <= now'
    BY <1>1, <1>t DEF TimePasses, TypeOK, Time
  <2>2. UNCHANGED <<user, lead, alert, scan, faults>>
    BY <1>1 DEF TimePasses
  <2>3. SameEscalation
    BY <2>2 DEF SameEscalation
  <2> QED BY <1>t, <2>1, <2>2, <2>3, OutsideKeeps DEF TypeOK
<1>2. ASSUME NEW l \in Lead, Work(l) \/ BookFollowup(l) \/ ChangeStage(l)
      PROVE  IInv' /\ SameEscalation
  <2>1. PICK row \in LeadRow : Activity(l, row)
    <3>1. CASE Work(l)
      BY <1>t, <3>1 DEF Work, TypeOK
    <3>2. CASE BookFollowup(l)
      BY <1>t, <3>2 DEF BookFollowup, TypeOK, LeadRow
    <3>3. CASE ChangeStage(l)
      BY <1>t, <3>3 DEF ChangeStage, TypeOK, LeadRow
    <3> QED BY <1>2, <3>1, <3>2, <3>3
  <2> QED BY <2>1, ActivityKeeps
<1>3. ASSUME NEW l \in Lead, NEW u \in Owners, Assign(l, u)
      PROVE  IInv' /\ SameEscalation
  <2>1. [lead[l] EXCEPT !.owner = u] \in LeadRow
    BY <1>t DEF TypeOK, LeadRow
  <2> QED BY <1>3, <2>1, ActivityKeeps DEF Assign
<1>4. ASSUME NEW l \in Lead, ResolveByHand(l)
      PROVE  IInv' /\ SameEscalation
  <2> DEFINE new == [alert[l] EXCEPT !.state = "resolved"]
  <2>1. /\ new \in AlertRow
        /\ new.escalated = alert[l].escalated /\ new.held = alert[l].held
        /\ new.attempts = alert[l].attempts /\ new.moves = alert[l].moves
        /\ new.owner = alert[l].owner
    BY <1>t DEF TypeOK, AlertRow
  <2>2. alert' = [alert EXCEPT ![l] = new] /\ alert[l].state = "open"
    BY <1>4 DEF ResolveByHand
  <2> HIDE DEF new
  <2>3. /\ alert' \in [Lead -> AlertRow] /\ SameEscalation
        /\ \A k \in Lead : alert'[k].state # "none" => alert[k].state # "none"
    BY <1>t, <2>1, <2>2 DEF TypeOK, SameEscalation
  <2>4. UNCHANGED <<now, user, lead, scan, faults>>
    BY <1>4 DEF ResolveByHand, people
  <2> QED BY <1>t, <2>3, <2>4, OutsideKeeps DEF TypeOK, Time
<1>5. ASSUME NEW u \in User, SetActive(u)
      PROVE  IInv' /\ SameEscalation
  <2>1. user' \in [User -> UserState]
    BY <1>t, <1>5 DEF TypeOK, SetActive, UserState
  <2>2. UNCHANGED <<now, lead, alert, scan, faults>>
    BY <1>5 DEF SetActive
  <2>3. \A w \in User : user[w] = "deleted" => user'[w] = "deleted"
    BY <1>t, <1>5 DEF SetActive, TypeOK
  <2>4. SameEscalation
    BY <2>2 DEF SameEscalation
  <2> QED BY <1>t, <2>1, <2>2, <2>3, <2>4, OutsideKeeps DEF TypeOK, Time
<1>6. ASSUME NEW u \in User, NEW v \in User, Offboard(u, v)
      PROVE  IInv' /\ SameEscalation
  <2>1. /\ user' \in [User -> UserState]
        /\ UNCHANGED <<now, scan, faults>>
    BY <1>t, <1>6 DEF TypeOK, Offboard, UserState
  <2>d. \A w \in User : user[w] = "deleted" => user'[w] = "deleted"
    BY <1>t, <1>6 DEF TypeOK, Offboard
  <2>2. PICK mine \in SUBSET Lead :
          /\ lead' = [l \in Lead |->
                IF l \in mine THEN [lead[l] EXCEPT !.owner = v, !.last = now]
                ELSE lead[l]]
          /\ alert' = [l \in Lead |->
                IF l \in mine THEN [alert[l] EXCEPT !.touched = TRUE]
                ELSE alert[l]]
    BY <1>6 DEF Offboard
  <2> DEFINE row(l) == [lead[l] EXCEPT !.owner = v, !.last = now]
             seen(l) == [alert[l] EXCEPT !.touched = TRUE]
  <2>r. \A l \in Lead : row(l) \in LeadRow /\ row(l).last = now
    BY <1>t, HandedRow DEF TypeOK, Owners
  <2>s. \A l \in Lead :
          /\ seen(l) \in AlertRow /\ seen(l).state = alert[l].state
          /\ seen(l).escalated = alert[l].escalated /\ seen(l).held = alert[l].held
          /\ seen(l).attempts = alert[l].attempts /\ seen(l).moves = alert[l].moves
          /\ seen(l).owner = alert[l].owner
    BY <1>t, TouchedRow DEF TypeOK
  <2>a. /\ lead' = [l \in Lead |-> IF l \in mine THEN row(l) ELSE lead[l]]
        /\ alert' = [l \in Lead |-> IF l \in mine THEN seen(l) ELSE alert[l]]
    BY <2>2
  <2> HIDE DEF row, seen
  <2>3. lead' \in [Lead -> LeadRow] /\ alert' \in [Lead -> AlertRow]
    BY <1>t, <2>r, <2>s, <2>a DEF TypeOK
  <2>4. \A l \in Lead : lead'[l].last = lead[l].last \/ lead'[l].last >= PolicyAt
    BY <1>t, <2>r, <2>a DEF IInv
  <2>5. /\ SameEscalation
        /\ \A l \in Lead : alert'[l].state = alert[l].state
    BY <1>t, <2>s, <2>a DEF SameEscalation
  <2> QED BY <1>t, <2>1, <2>d, <2>3, <2>4, <2>5, OutsideKeeps DEF TypeOK, Time
<1> QED BY <1>1, <1>2, <1>3, <1>4, <1>5, <1>6

\* The scanner's own steps.  Each changes one row of alert at most, and the
\* scan record; the lemmas say which conjuncts that disturbs.
LEMMA StartPassKeeps == ASSUME IInv, StartPass PROVE IInv'
<1>t. TypeOK
  BY DEF IInv
<1>1. UNCHANGED <<now, user, lead, alert, faults>>
  BY DEF StartPass, people
<1> DEFINE snap == [l \in Lead |-> IF Stale(l) THEN lead[l].owner ELSE NoUser]
<1>2. snap \in [Lead -> Owners]
  BY <1>t DEF TypeOK, LeadRow, Owners
<1>3. /\ scan'.pc = "flag" /\ scan'.todo = {l \in Lead : Stale(l)}
      /\ scan'.snap = snap /\ scan'.cur = scan.cur /\ scan'.pick = scan.pick
      /\ scan' \in Scanner
  <2> HIDE DEF snap
  <2>1. scan' = [scan EXCEPT !.pc = "flag", !.todo = {l \in Lead : Stale(l)},
                             !.snap = snap]
    BY DEF StartPass, snap
  <2> QED BY <1>t, <1>2, <2>1 DEF TypeOK, Scanner
<1>4. TypeOK'
  BY <1>t, <1>1, <1>3 DEF TypeOK
<1>5. PassInv'
  BY <1>1, <1>3 DEF PassInv, InHand, Stale
<1> QED BY <1>1, <1>4, <1>5 DEF IInv, BacklogKept, NewestAlert

\* The rows the pass writes: a fresh alert, a stamp, a hold, a handover.
LEMMA FreshRow ==
  ASSUME NEW o \in Owners, NEW t \in Time
  PROVE  LET new == [NoAlert EXCEPT !.state = "open", !.owner = o, !.flagged = t]
         IN  /\ new \in AlertRow /\ new.escalated = FALSE /\ new.held = FALSE
             /\ new.attempts = 0 /\ new.moves = 0
BY EmptyTyped DEF AlertRow, NoAlert

LEMMA StampedRow ==
  ASSUME NEW r \in AlertRow, r.attempts < MaxAttempts
  PROVE  LET new == [r EXCEPT !.escalated = TRUE, !.attempts = @ + 1]
         IN  /\ new \in AlertRow /\ new.escalated = TRUE /\ new.held = r.held
             /\ new.state = r.state /\ new.moves = r.moves /\ new.owner = r.owner
<1>1. r.attempts + 1 \in 0..MaxAttempts
  BY DEF AlertRow
<1> QED BY <1>1 DEF AlertRow

LEMMA HeldRow ==
  ASSUME NEW r \in AlertRow, NEW h \in BOOLEAN
  PROVE  LET new == [r EXCEPT !.held = h]
         IN  /\ new \in AlertRow /\ new.escalated = r.escalated /\ new.held = h
             /\ new.attempts = r.attempts /\ new.state = r.state
             /\ new.moves = r.moves /\ new.owner = r.owner
BY DEF AlertRow

LEMMA MovedRow ==
  ASSUME NEW r \in AlertRow
  PROVE  LET new == [r EXCEPT !.touched = TRUE, !.moves = @ + 1]
         IN  /\ new \in AlertRow /\ new.escalated = r.escalated
             /\ new.held = r.held /\ new.attempts = r.attempts
             /\ new.state = r.state /\ new.moves = r.moves + 1
             /\ new.owner = r.owner
<1>1. r.moves + 1 \in Nat
  BY DEF AlertRow
<1> QED BY <1>1 DEF AlertRow

LEMMA ResolvedRow ==
  ASSUME NEW r \in AlertRow
  PROVE  LET new == [r EXCEPT !.state = "resolved"]
         IN  /\ new \in AlertRow /\ new.escalated = r.escalated
             /\ new.held = r.held /\ new.attempts = r.attempts
             /\ new.moves = r.moves /\ new.owner = r.owner
BY DEF AlertRow

LEMMA FlagKeeps == ASSUME IInv, NEW l \in Lead, Flag(l) PROVE IInv'
<1>t. TypeOK
  BY DEF IInv
<1>1. UNCHANGED <<now, user, lead, faults>> /\ scan.pc = "flag" /\ l \in scan.todo
  BY DEF Flag, people
<1> DEFINE new == [NoAlert EXCEPT !.state = "open", !.owner = scan.snap[l],
                                  !.flagged = now]
<1>2. /\ new \in AlertRow /\ new.escalated = FALSE /\ new.held = FALSE
      /\ new.attempts = 0 /\ new.moves = 0
  BY <1>t, FreshRow DEF TypeOK, Scanner
<1>3. alert' = [alert EXCEPT ![l] = new]
  BY DEF Flag
<1>4. /\ scan'.pc = "flag" /\ scan'.todo = scan.todo \ {l}
      /\ scan' \in Scanner
  BY <1>t, <1>1 DEF TypeOK, Scanner, Flag
<1> HIDE DEF new
<1>5. TypeOK'
  BY <1>t, <1>1, <1>2, <1>3, <1>4 DEF TypeOK
<1>6. BacklogKept'
  BY <1>t, <1>1, <1>3 DEF IInv, BacklogKept, PassInv, TypeOK
<1>7. \A k \in Lead : NewestAlert(k)'
  BY <1>t, <1>2, <1>3 DEF IInv, NewestAlert, TypeOK
<1>8. PassInv'
  BY <1>1, <1>4 DEF IInv, PassInv, InHand
<1> QED BY <1>1, <1>5, <1>6, <1>7, <1>8 DEF IInv

LEMMA StartEscalationKeeps == ASSUME IInv, StartEscalation PROVE IInv'
<1>t. TypeOK
  BY DEF IInv
<1>1. UNCHANGED <<now, user, lead, alert, faults>>
  BY DEF StartEscalation, people
<1>2. /\ scan'.pc = "escalate" /\ scan'.todo = {l \in Lead : Due(l)}
      /\ scan' \in Scanner
  <2>1. Resting.snap \in [Lead -> Owners]
    BY DEF Resting, Owners
  <2> DEFINE none == Resting.snap
             due == {l \in Lead : Due(l)}
  <2>2. scan' = [scan EXCEPT !.pc = "escalate", !.todo = due, !.snap = none]
    BY DEF StartEscalation
  <2>3. due \in SUBSET Lead
    OBVIOUS
  <2> HIDE DEF none, due
  <2>4. scan'.pc = "escalate" /\ scan'.todo = due /\ scan' \in Scanner
    BY <1>t, <2>1, <2>2, <2>3 DEF TypeOK, Scanner, none
  <2> QED BY <2>4 DEF due
<1>3. \A l \in Lead : Due(l) => alert[l].moves = 0 /\ alert[l].attempts < MaxAttempts
  <2> SUFFICES ASSUME NEW l \in Lead, Due(l)
               PROVE  alert[l].moves = 0 /\ alert[l].attempts < MaxAttempts
    OBVIOUS
  <2>1. alert[l] \in AlertRow /\ NewestAlert(l)
    BY <1>t DEF TypeOK, IInv
  <2> QED BY <2>1 DEF Due, NewestAlert, AlertRow
<1>4. TypeOK'
  BY <1>t, <1>1, <1>2 DEF TypeOK
<1>5. PassInv'
  BY <1>1, <1>2, <1>3 DEF PassInv, InHand
<1> QED BY <1>1, <1>4, <1>5 DEF IInv, BacklogKept, NewestAlert

LEMMA StampKeeps == ASSUME IInv, NEW l \in Lead, Stamp(l) PROVE IInv'
<1>t. TypeOK
  BY DEF IInv
<1>1. UNCHANGED <<now, user, lead, faults>> /\ scan.pc = "escalate" /\ l \in scan.todo
  BY DEF Stamp, people
<1> DEFINE new == [alert[l] EXCEPT !.escalated = TRUE, !.attempts = @ + 1]
<1>2. alert[l].moves = 0 /\ alert[l].attempts < MaxAttempts
  BY <1>1 DEF IInv, PassInv
<1>3. /\ new \in AlertRow /\ new.escalated = TRUE /\ new.held = alert[l].held
      /\ new.state = alert[l].state /\ new.moves = 0
  BY <1>t, <1>2, StampedRow DEF TypeOK
<1>4. alert' = [alert EXCEPT ![l] = new]
  BY DEF Stamp
<1>5. /\ scan'.pc = "pick" /\ scan'.todo = scan.todo \ {l} /\ scan'.cur = l
      /\ scan' \in Scanner
  BY <1>t, <1>1 DEF TypeOK, Scanner, Stamp
<1> HIDE DEF new
<1>6. alert'[l] = new /\ \A k \in Lead \ {l} : alert'[k] = alert[k]
  BY <1>t, <1>4 DEF TypeOK
<1>7. TypeOK'
  BY <1>t, <1>1, <1>3, <1>4, <1>5 DEF TypeOK
<1>8. BacklogKept'
  <2>1. \A k \in Lead : alert'[k].state = alert[k].state
    BY <1>3, <1>6
  <2> QED BY <1>1, <2>1 DEF IInv, BacklogKept
<1>9. \A k \in Lead : NewestAlert(k)'
  <2>1. \A k \in Lead \ {l} : NewestAlert(k)'
    BY <1>6 DEF IInv, NewestAlert
  <2>2. NewestAlert(l)'
    BY <1>3, <1>6 DEF NewestAlert
  <2> QED BY <2>1, <2>2
<1>10. PassInv'
  <2>1. scan.todo \subseteq Lead
    BY <1>t DEF TypeOK, Scanner
  <2> QED BY <1>1, <1>3, <1>5, <1>6, <2>1 DEF IInv, PassInv, InHand
<1> QED BY <1>1, <1>7, <1>8, <1>9, <1>10 DEF IInv

\* Whoever the picker returns may replace the owner who was warned.
LEMMA PickedMayReplace ==
  ASSUME NEW l \in Lead, NEW u \in Replacements(l)
  PROVE  u \in User /\ MayReplace(u, l)
BY DEF Replacements, PoolPeers, Peers, MayReplace, Active, Found, Same

LEMMA PickOwnerKeeps == ASSUME IInv, PickOwner PROVE IInv'
<1>t. TypeOK
  BY DEF IInv
<1>1. /\ UNCHANGED <<now, user, lead, alert, faults>>
      /\ scan.pc = "pick" /\ scan.cur \in Lead
  BY DEF PickOwner, people, IInv, PassInv, InHand
<1>2. PICK u : /\ u \in IF Replacements(scan.cur) = {} THEN {NoUser}
                        ELSE Replacements(scan.cur)
               /\ scan' = [scan EXCEPT !.pc = "record", !.pick = u]
  BY DEF PickOwner
<1>3. u \in Owners /\ (u # NoUser => MayReplace(u, scan.cur))
  BY <1>1, <1>2, PickedMayReplace DEF Owners
<1>4. /\ scan'.pc = "record" /\ scan'.pick = u
      /\ scan'.todo = scan.todo /\ scan'.cur = scan.cur /\ scan' \in Scanner
  BY <1>t, <1>2, <1>3 DEF TypeOK, Scanner
<1>5. TypeOK'
  BY <1>t, <1>1, <1>4 DEF TypeOK
<1>7. PassInv'
  <2>1. scan.todo \subseteq Lead
    BY <1>t DEF TypeOK, Scanner
  <2>2. (scan.pick # NoUser => MayReplace(scan.pick, scan.cur))'
    BY <1>1, <1>3, <1>4 DEF MayReplace, Found, Same
  <2> QED BY <1>1, <1>4, <2>1, <2>2 DEF IInv, PassInv, InHand
<1> QED BY <1>1, <1>5, <1>7 DEF IInv, BacklogKept, NewestAlert

LEMMA RecordHoldKeeps == ASSUME IInv, RecordHold PROVE IInv'
<1>t. TypeOK
  BY DEF IInv
<1>p. PICK l \in Lead : scan.cur = l
  BY DEF RecordHold, IInv, PassInv, InHand
<1> DEFINE h == HoldAfter(l, scan.pick)
           new == [alert[l] EXCEPT !.held = h]
<1>1. /\ UNCHANGED <<now, user, lead, faults>> /\ scan.pc = "record"
      /\ l \notin scan.todo /\ alert[l].escalated /\ alert[l].moves = 0
  BY <1>p DEF RecordHold, people, IInv, PassInv, InHand
<1>2. h \in BOOLEAN /\ (h <=> scan.pick = NoUser)
  BY DEF HoldAfter
<1>3. alert' = [alert EXCEPT ![l] = new]
  BY <1>p DEF RecordHold
<1> HIDE DEF h
<1>4. /\ new \in AlertRow /\ new.escalated = alert[l].escalated /\ new.held = h
      /\ new.attempts = alert[l].attempts /\ new.state = alert[l].state
      /\ new.moves = alert[l].moves /\ new.owner = alert[l].owner
  BY <1>t, <1>1, <1>2, HeldRow DEF TypeOK
<1> HIDE DEF new
<1>5. /\ scan' \in Scanner /\ scan'.todo = scan.todo /\ scan'.pick = scan.pick
      /\ \/ scan.pick = NoUser /\ scan'.pc = "escalate"
         \/ scan.pick # NoUser /\ scan'.pc = "move" /\ scan'.cur = l
  <2>1. CASE scan.pick = NoUser
    <3>1. scan' = [scan EXCEPT !.pc = "escalate", !.cur = NoLead]
      BY <2>1 DEF RecordHold
    <3> QED BY <1>t, <2>1, <3>1 DEF TypeOK, Scanner
  <2>2. CASE scan.pick # NoUser
    <3>1. scan' = [scan EXCEPT !.pc = "move"]
      BY <2>2 DEF RecordHold
    <3> QED BY <1>t, <1>p, <2>2, <3>1 DEF TypeOK, Scanner
  <2> QED BY <2>1, <2>2
<1>6. alert'[l] = new /\ \A k \in Lead \ {l} : alert'[k] = alert[k]
  BY <1>t, <1>1, <1>3 DEF TypeOK
<1>7. TypeOK'
  BY <1>t, <1>1, <1>3, <1>4, <1>5 DEF TypeOK
<1>8. BacklogKept'
  <2>1. \A k \in Lead : alert'[k].state = alert[k].state
    BY <1>4, <1>6
  <2> QED BY <1>1, <2>1 DEF IInv, BacklogKept
<1>9. \A k \in Lead : NewestAlert(k)'
  <2>1. \A k \in Lead \ {l} : NewestAlert(k)'
    BY <1>6 DEF IInv, NewestAlert
  <2>2. NewestAlert(l)'
    <3>1. alert'[l].escalated /\ alert'[l].moves = 0
      BY <1>1, <1>4, <1>6
    <3> QED BY <3>1 DEF NewestAlert
  <2> QED BY <2>1, <2>2
<1>10. PassInv'
  <2>1. \A k \in scan.todo : /\ alert'[k].moves = 0
                             /\ alert'[k].attempts < MaxAttempts
    <3>1. scan.todo \subseteq Lead
      BY <1>t DEF TypeOK, Scanner
    <3> QED BY <1>1, <1>6, <3>1 DEF IInv, PassInv, InHand
  <2>2. CASE scan.pick = NoUser
    BY <1>5, <2>1, <2>2 DEF PassInv, InHand
  <2>3. CASE scan.pick # NoUser
    <3>1. MayReplace(scan.pick, scan.cur)'
      <4>1. MayReplace(scan.pick, l)
        BY <1>1, <1>p, <2>3 DEF IInv, PassInv, InHand
      <4> QED BY <1>1, <1>p, <1>4, <1>5, <1>6, <2>3, <4>1 DEF MayReplace, Found, Same
    <3>2. ~alert'[l].held /\ alert'[l].escalated /\ alert'[l].moves = 0
      BY <1>1, <1>2, <1>4, <1>6, <2>3
    <3> QED BY <1>1, <1>5, <2>1, <2>3, <3>1, <3>2 DEF PassInv, InHand
  <2> QED BY <2>2, <2>3
<1> QED BY <1>1, <1>7, <1>8, <1>9, <1>10 DEF IInv

LEMMA MoveKeeps == ASSUME IInv, Move PROVE IInv'
<1>t. TypeOK
  BY DEF IInv
<1>p. PICK l \in Lead : scan.cur = l
  BY DEF Move, IInv, PassInv, InHand
<1> DEFINE new == [alert[l] EXCEPT !.touched = TRUE, !.moves = @ + 1]
           row == [lead[l] EXCEPT !.owner = scan.pick, !.last = now]
<1>1. /\ UNCHANGED <<now, user, faults>> /\ scan.pc = "move"
      /\ l \notin scan.todo /\ alert[l].escalated
      /\ ~alert[l].held /\ alert[l].moves = 0
  BY <1>p DEF Move, IInv, PassInv, InHand
<1>2. alert' = [alert EXCEPT ![l] = new] /\ lead' = [lead EXCEPT ![l] = row]
  BY <1>p DEF Move
<1>3. /\ new \in AlertRow /\ new.escalated = alert[l].escalated
      /\ new.held = alert[l].held /\ new.attempts = alert[l].attempts
      /\ new.state = alert[l].state /\ new.moves = 1
  <2>1. alert[l] \in AlertRow
    BY <1>t DEF TypeOK
  <2>2. /\ new \in AlertRow /\ new.escalated = alert[l].escalated
        /\ new.held = alert[l].held /\ new.attempts = alert[l].attempts
        /\ new.state = alert[l].state /\ new.moves = alert[l].moves + 1
    BY <2>1, MovedRow
  <2>3. new.moves = 1
    BY <1>1, <2>2
  <2> QED BY <2>2, <2>3
<1>4. row \in LeadRow /\ row.last = now
  BY <1>t, <1>1, HandedRow DEF TypeOK, Scanner
<1>5. /\ scan' \in Scanner /\ scan'.pc = "resolve" /\ scan'.todo = scan.todo
      /\ scan'.cur = l
  BY <1>t, <1>p DEF TypeOK, Scanner, Move
<1> HIDE DEF new, row
<1>6. /\ alert'[l] = new /\ lead'[l] = row
      /\ \A k \in Lead \ {l} : alert'[k] = alert[k] /\ lead'[k] = lead[k]
  BY <1>t, <1>1, <1>2 DEF TypeOK
<1>7. TypeOK'
  BY <1>t, <1>1, <1>2, <1>3, <1>4, <1>5 DEF TypeOK
<1>8. BacklogKept'
  <2>1. lead'[l].last >= PolicyAt
    BY <1>4, <1>6 DEF IInv
  <2> QED BY <1>6, <2>1 DEF IInv, BacklogKept
<1>9. \A k \in Lead : NewestAlert(k)'
  <2>1. \A k \in Lead \ {l} : NewestAlert(k)'
    BY <1>6 DEF IInv, NewestAlert
  <2>2. NewestAlert(l)'
    <3>1. alert'[l].escalated /\ ~alert'[l].held
      BY <1>1, <1>3, <1>6
    <3>2. alert'[l].moves = 1
      BY <1>3, <1>6
    <3> QED BY <3>1, <3>2 DEF NewestAlert
  <2> QED BY <2>1, <2>2
<1>10. PassInv'
  <2>1. scan.todo \subseteq Lead
    BY <1>t DEF TypeOK, Scanner
  <2>2. \A k \in scan.todo : /\ alert'[k].moves = 0
                             /\ alert'[k].attempts < MaxAttempts
    BY <1>1, <1>6, <2>1 DEF IInv, PassInv, InHand
  <2>3. alert'[l].escalated
    BY <1>1, <1>3, <1>6
  <2>4. lead'[l].last >= PolicyAt
    BY <1>4, <1>6 DEF IInv
  <2> QED BY <1>1, <1>5, <2>2, <2>3, <2>4 DEF PassInv, InHand
<1> QED BY <1>1, <1>7, <1>8, <1>9, <1>10 DEF IInv

LEMMA ResolveMovedKeeps == ASSUME IInv, ResolveMoved PROVE IInv'
<1>t. TypeOK
  BY DEF IInv
<1>p. PICK l \in Lead : scan.cur = l
  BY DEF ResolveMoved, IInv, PassInv, InHand
<1> DEFINE new == [alert[l] EXCEPT !.state = "resolved"]
<1>1. /\ UNCHANGED <<now, user, lead, faults>> /\ scan.pc = "resolve"
      /\ l \notin scan.todo
  BY <1>p DEF ResolveMoved, people, IInv, PassInv, InHand
<1>2. alert' = [alert EXCEPT ![l] = new]
  BY <1>p DEF ResolveMoved
<1>3. /\ new \in AlertRow /\ new.escalated = alert[l].escalated
      /\ new.held = alert[l].held /\ new.attempts = alert[l].attempts
      /\ new.moves = alert[l].moves
  BY <1>t, <1>1, ResolvedRow DEF TypeOK
<1>4. scan' \in Scanner /\ scan'.pc = "escalate" /\ scan'.todo = scan.todo
  BY <1>t DEF TypeOK, Scanner, ResolveMoved, Owners
<1> HIDE DEF new
<1>5. alert'[l] = new /\ \A k \in Lead \ {l} : alert'[k] = alert[k]
  BY <1>t, <1>1, <1>2 DEF TypeOK
<1>6. TypeOK'
  BY <1>t, <1>1, <1>2, <1>3, <1>4 DEF TypeOK
<1>7. BacklogKept'
  <2>1. lead[l].last >= PolicyAt
    BY <1>1, <1>p DEF IInv, PassInv
  <2> QED BY <1>1, <1>5, <2>1 DEF IInv, BacklogKept
<1>8. \A k \in Lead : NewestAlert(k)'
  <2>1. \A k \in Lead \ {l} : NewestAlert(k)'
    BY <1>5 DEF IInv, NewestAlert
  <2>2. NewestAlert(l)'
    BY <1>1, <1>3, <1>5 DEF IInv, NewestAlert
  <2> QED BY <2>1, <2>2
<1>9. PassInv'
  <2>1. scan.todo \subseteq Lead
    BY <1>t DEF TypeOK, Scanner
  <2> QED BY <1>1, <1>4, <1>5, <2>1 DEF IInv, PassInv, InHand
<1> QED BY <1>1, <1>6, <1>7, <1>8, <1>9 DEF IInv

LEMMA AutoResolveKeeps == ASSUME IInv, AutoResolve PROVE IInv'
<1>t. TypeOK
  BY DEF IInv
<1> DEFINE new(l) == [alert[l] EXCEPT !.state = "resolved"]
           P(l) == alert[l].state = "open" /\ alert[l].touched
<1>1. UNCHANGED <<now, user, lead, faults>> /\ scan' = Resting
  BY DEF AutoResolve, people
<1>2. alert' = [l \in Lead |-> IF P(l) THEN new(l) ELSE alert[l]]
  BY DEF AutoResolve
<1>3. \A l \in Lead :
         /\ new(l) \in AlertRow /\ new(l).escalated = alert[l].escalated
         /\ new(l).held = alert[l].held /\ new(l).attempts = alert[l].attempts
         /\ new(l).moves = alert[l].moves
  BY <1>t, ResolvedRow DEF TypeOK
<1>4. \A l \in Lead : P(l) => alert[l].state # "none"
  OBVIOUS
<1> HIDE DEF new, P
<1>5. TypeOK'
  BY <1>t, <1>1, <1>2, <1>3, EmptyTyped DEF TypeOK
<1>6. \A l \in Lead : alert'[l] = alert[l] \/ (P(l) /\ alert'[l] = new(l))
  BY <1>2
<1>7. BacklogKept'
  BY <1>1, <1>4, <1>6 DEF IInv, BacklogKept
<1>8. \A l \in Lead : NewestAlert(l)'
  BY <1>3, <1>6 DEF IInv, NewestAlert
<1>9. PassInv'
  BY <1>1 DEF PassInv, InHand, Resting
<1> QED BY <1>1, <1>5, <1>7, <1>8, <1>9 DEF IInv

LEMMA AbortKeeps == ASSUME IInv, Abort PROVE IInv'
<1>t. TypeOK
  BY DEF IInv
<1>1. UNCHANGED <<now, user, lead, alert>> /\ scan' = Resting
  BY DEF Abort, people
<1>2. faults' \in 0..MaxFaults
  BY <1>t DEF Abort, TypeOK
<1>3. TypeOK' /\ PassInv'
  BY <1>t, <1>1, <1>2, EmptyTyped DEF TypeOK, PassInv, InHand, Resting
<1> QED BY <1>1, <1>3 DEF IInv, BacklogKept, NewestAlert

LEMMA StepInv == IInv /\ [Next]_vars => IInv'
<1> SUFFICES ASSUME IInv, [Next]_vars PROVE IInv'
  OBVIOUS
<1>1. CASE ScanStep
  BY <1>1, StartPassKeeps, StartEscalationKeeps, PickOwnerKeeps, RecordHoldKeeps,
     MoveKeeps, ResolveMovedKeeps, AutoResolveKeeps, FlagKeeps, StampKeeps
     DEF ScanStep
<1>2. CASE Abort
  BY <1>2, AbortKeeps
<1>3. CASE UNCHANGED vars
  <2>1. UNCHANGED <<now, user, lead, alert, scan, faults>>
    BY <1>3 DEF vars
  <2> QED BY <2>1 DEF IInv, TypeOK, BacklogKept, NewestAlert, PassInv, InHand,
                      MayReplace, Found, Same
<1> QED BY <1>1, <1>2, <1>3, PeopleKeep DEF Next

\* The invariant of the scanner: what a pass selected is still as the SELECT
\* saw it when its turn comes.
THEOREM Invariant == Spec => []IInv
BY InitInv, StepInv, PTL DEF Spec

\* Rows stay typed; in particular attempts never pass the cap.
THEOREM TypeCorrect == Spec => []TypeOK
<1>1. IInv => TypeOK
  BY DEF IInv
<1> QED BY <1>1, Invariant, PTL

\* No alert on the backlog, however late a selected row is processed.
THEOREM BacklogSpared == Spec => []BacklogKept
<1>1. IInv => BacklogKept
  BY DEF IInv
<1> QED BY <1>1, Invariant, PTL

\* One handover per alert, for any number of retries and of passes that die.
THEOREM OneHandover == Spec => []MovedOnce
<1>1. IInv => MovedOnce
  BY DEF IInv, NewestAlert, MovedOnce
<1> QED BY <1>1, Invariant, PTL


\* A handover is the step Move: nothing else counts one.
LEMMA TakenByMove ==
  ASSUME IInv, [Next]_vars, NEW l \in Lead, Taken(l)
  PROVE  Move
<1>1. scan.pc = "move" /\ alert'[l].moves # alert[l].moves
  BY DEF Taken
<1>2. CASE ScanStep
  BY <1>1, <1>2 DEF ScanStep, StartPass, StartEscalation, PickOwner, RecordHold,
                    ResolveMoved, AutoResolve, Flag, Stamp
<1>3. CASE Abort \/ UNCHANGED vars
  BY <1>1, <1>3 DEF Abort, people, vars
<1>4. CASE SameEscalation
  BY <1>1, <1>4 DEF SameEscalation
<1> QED BY <1>2, <1>3, <1>4, PeopleKeep DEF Next

\* A handover never goes back to the owner who was warned and stays in his role
\* class, whoever is hired, deactivated or deleted while the replacement is
\* picked; of an owner deleted before the pick, the lead's own pool may cross it
\* (the role test of lead-routing/service.js:209 has nothing to compare with).
THEOREM ClassPreserved == Spec => ClassKept
<1>1. ASSUME IInv, [Next]_vars, NEW l \in Lead, Taken(l)
      PROVE  LET warned == alert[l].owner  chosen == lead'[l].owner
             IN  /\ chosen # warned
                 /\ Same(chosen, warned) \/ (~Found(warned) /\ chosen \in Pool[l])
  <2>1. Move
    BY <1>1, TakenByMove
  <2>2. scan.pc = "move" /\ scan.cur = l
    BY <1>1 DEF Taken
  <2>3. lead'[l].owner = scan.pick
    BY <1>1, <2>1, <2>2 DEF Move, IInv, TypeOK, LeadRow
  <2>4. MayReplace(scan.pick, l)
    BY <1>1, <2>2 DEF IInv, PassInv
  <2> QED BY <2>3, <2>4 DEF MayReplace
<1>2. IInv /\ [Next]_vars =>
        [\A l \in Lead :
           LET warned == alert[l].owner  chosen == lead'[l].owner
           IN  Taken(l) =>
                  /\ chosen # warned
                  /\ Same(chosen, warned) \/ (~Found(warned) /\ chosen \in Pool[l])]_vars
  BY <1>1
<1> QED BY <1>2, Invariant, PTL DEF Spec, ClassKept
=============================================================================
