--------------------------- MODULE FollowUps_proofs ---------------------------
(***************************************************************************)
(* Proofs about FollowUps, for any rows, stages, ticks, passes and bounds: *)
(* its type invariant, that a rescheduled follow-up starts afresh, that a  *)
(* missed one is told of once, and how often a planned one is reminded of. *)
(*                                                                         *)
(* FreshCycle rests on what a tick has in its hand: a row it has sent but  *)
(* not yet marked.  MissedTold rests on a planned row being unclaimed, and *)
(* on the scanner's hand holding claims that are not yet told.             *)
(* RemindersBounded counts, for one row and kind, the ticks that have      *)
(* listed the row and those that have sent but not marked it.              *)
(***************************************************************************)
EXTENDS FollowUps, FiniteSetTheorems, TLAPS

-----------------------------------------------------------------------------
(* The type invariant *)

LEMMA KindOfPass == \A p \in 1..Len(Passes) : Passes[p] \in Kind
  BY DEF Kind

LEMMA TypeInit == Init => TypeOK
<1> SUFFICES ASSUME Init PROVE TypeOK
  OBVIOUS
<1>0. Horizon \in Nat /\ MaxFaults \in Nat /\ Len(Passes) \in Nat
  BY FollowUpConstants
<1>1. now \in Time /\ faults \in 0..MaxFaults /\ scan \in SUBSET Row
  BY <1>0 DEF Init, Time
<1>2. row \in [Row -> FollowUp]
  BY DEF Init, FollowUp, Due
<1>3. tick \in [Tick -> TickState]
  <2>1. 0 \in 0..Len(Passes)
    BY <1>0
  <2>2. Waiting \in TickState
    BY <2>1 DEF Waiting, TickState
  <2> QED
    BY <2>2 DEF Init
<1>4. past \in [Row -> History]
  BY DEF Init, History, NoHistory
<1> QED
  BY <1>1, <1>2, <1>3, <1>4 DEF TypeOK

\* What every action of people comes down to: the workers are left alone,
\* and each row keeps its history and its marks and is not planned unless it
\* was or is new, or it is planned again.
Kept(r) ==
    /\ past'[r] = past[r]
    /\ row'[r].marked = row[r].marked
    /\ row'[r].status \in {"planned", "absent"} =>
           row[r].status \in {"planned", "absent"}
    /\ row'[r].status = "absent" => row[r].status = "absent"

Afresh(r) ==
    /\ past'[r] = [NoHistory EXCEPT !.crossed = Held(r)]
    /\ row'[r].marked = {}

Again(r) ==
    /\ past'[r] = Replanned(r)
    /\ row'[r].marked = row[r].marked

Handled ==
    /\ row' \in [Row -> FollowUp] /\ past' \in [Row -> History]
    /\ UNCHANGED <<now, tick, scan, faults>>
    /\ \A r \in Row : Kept(r) \/ Afresh(r) \/ Again(r)

LEMMA Rows == ASSUME TypeOK, NEW r \in Row
              PROVE  /\ row[r] \in FollowUp /\ past[r] \in History
                     /\ DOMAIN row = Row /\ DOMAIN past = Row
  BY DEF TypeOK

\* A single row is replaced, and no history with it.
LEMMA OneRow ==
    ASSUME TypeOK, NEW r \in Row, NEW new \in FollowUp,
           Save([row EXCEPT ![r] = new]), UNCHANGED past,
           new.marked = row[r].marked, new.status # "absent",
           new.status = "planned" => row[r].status \in {"planned", "absent"}
    PROVE  Handled
<1>1. /\ row' = [row EXCEPT ![r] = new] /\ past' = past
      /\ UNCHANGED <<now, tick, scan, faults>>
  BY DEF Save, workers
<1>2. row' \in [Row -> FollowUp] /\ past' \in [Row -> History]
  BY <1>1 DEF TypeOK
<1>3. ASSUME NEW q \in Row PROVE Kept(q)
  <2>1. CASE q = r
    BY <1>1, <2>1 DEF Kept, TypeOK
  <2>2. CASE q # r
    BY <1>1, <2>2 DEF Kept, TypeOK
  <2> QED
    BY <2>1, <2>2
<1> QED
  BY <1>1, <1>2, <1>3 DEF Handled

LEMMA CreateHandled == \A r \in Row : TypeOK /\ Create(r) => Handled
<1> SUFFICES ASSUME NEW r \in Row, TypeOK, Create(r) PROVE Handled
  OBVIOUS
<1>1. PICK due \in Time, s \in Stage \cup {NoStage}, n \in Note :
          Save([row EXCEPT ![r] = [row[r] EXCEPT !.status = "planned", !.due = due,
                                                 !.stage = s, !.note = n]])
  BY Rows DEF Create
<1> DEFINE new == [row[r] EXCEPT !.status = "planned", !.due = due,
                                 !.stage = s, !.note = n]
<1>2. new \in FollowUp /\ new.marked = row[r].marked /\ new.status = "planned"
  BY Rows DEF FollowUp, Due, Status
<1>3. row[r].status = "absent" /\ UNCHANGED past /\ Save([row EXCEPT ![r] = new])
  BY <1>1 DEF Create
<1> HIDE DEF new
<1> QED
  BY <1>2, <1>3, OneRow

LEMMA EditHandled == \A r \in Row : TypeOK /\ Edit(r) => Handled
<1> SUFFICES ASSUME NEW r \in Row, TypeOK, Edit(r) PROVE Handled
  OBVIOUS
<1>1. PICK due \in Time \cup {row[r].due}, s \in Stage \cup {row[r].stage}, n \in Note :
          Save([row EXCEPT ![r] = [row[r] EXCEPT !.due = due, !.stage = s, !.note = n]])
  BY Rows DEF Edit
<1> DEFINE new == [row[r] EXCEPT !.due = due, !.stage = s, !.note = n]
<1>2. new \in FollowUp /\ new.marked = row[r].marked /\ new.status = row[r].status
  BY Rows DEF FollowUp, Due, Status
<1>3. row[r].status \in Status /\ UNCHANGED past /\ Save([row EXCEPT ![r] = new])
  BY <1>1 DEF Edit, Live
<1> HIDE DEF new
<1>4. new.status # "absent" /\ (new.status = "planned" => row[r].status = "planned")
  BY <1>2, <1>3 DEF Status
<1> QED
  BY <1>2, <1>3, <1>4, OneRow

LEMMA CloseHandled == \A r \in Row, status \in {"done", "cancelled"} :
                          TypeOK /\ Close(r, status) => Handled
<1> SUFFICES ASSUME NEW r \in Row, NEW status \in {"done", "cancelled"},
                    TypeOK, Close(r, status)
             PROVE  Handled
  OBVIOUS
<1> DEFINE new == [row[r] EXCEPT !.status = status]
<1>1. new \in FollowUp /\ new.marked = row[r].marked /\ new.status = status
  BY Rows DEF FollowUp, Status
<1>2. UNCHANGED past /\ Save([row EXCEPT ![r] = new])
  BY Rows DEF Close
<1> HIDE DEF new
<1> QED
  BY <1>1, <1>2, OneRow

LEMMA DeleteHandled == \A r \in Row : TypeOK /\ Delete(r) => Handled
<1> SUFFICES ASSUME NEW r \in Row, TypeOK, Delete(r) PROVE Handled
  OBVIOUS
<1>1. /\ Deleted(r) \in FollowUp /\ Deleted(r).marked = row[r].marked
      /\ Deleted(r).status = "deleted"
  BY Rows DEF Deleted, FollowUp, Due
<1>2. UNCHANGED past /\ Save([row EXCEPT ![r] = Deleted(r)])
  BY DEF Delete
<1> QED
  BY <1>1, <1>2, OneRow

LEMMA AdHocHandled == \A r \in Row : TypeOK /\ SaveAdHoc(r) => Handled
<1> SUFFICES ASSUME NEW r \in Row, TypeOK, SaveAdHoc(r) PROVE Handled
  OBVIOUS
<1>1. PICK due \in Due, s \in Stage \cup {row[r].stage}, n \in Note :
          Save([row EXCEPT ![r] = [row[r] EXCEPT !.status = "planned", !.due = due,
                                                 !.stage = s, !.note = n]])
  BY Rows DEF SaveAdHoc
<1> DEFINE new == [row[r] EXCEPT !.status = "planned", !.due = due,
                                 !.stage = s, !.note = n]
<1>2. new \in FollowUp /\ new.marked = row[r].marked /\ new.status = "planned"
  BY Rows DEF FollowUp, Due, Status
<1>3. /\ row[r].status \in {"planned", "absent"} /\ UNCHANGED past
      /\ Save([row EXCEPT ![r] = new])
  BY <1>1 DEF SaveAdHoc, Planned
<1> HIDE DEF new
<1> QED
  BY <1>2, <1>3, OneRow

LEMMA RescheduleHandled == \A r \in Row : TypeOK /\ Reschedule(r) => Handled
<1> SUFFICES ASSUME NEW r \in Row, TypeOK, Reschedule(r) PROVE Handled
  OBVIOUS
<1>1. PICK due \in Time : Save([row EXCEPT ![r] = Rescheduled(r, due)])
  BY DEF Reschedule
<1>2. /\ row' = [row EXCEPT ![r] = Rescheduled(r, due)]
      /\ UNCHANGED <<now, tick, scan, faults>>
  BY <1>1 DEF Save, workers
<1>3. Rescheduled(r, due) \in FollowUp /\ Rescheduled(r, due).marked = {}
  BY Rows DEF Rescheduled, FollowUp, Due, Status
<1> DEFINE h == [NoHistory EXCEPT !.crossed = Held(r)]
<1>4. h \in History
  <2>1. Held(r) \in BOOLEAN
    BY DEF Held
  <2> QED
    BY <2>1 DEF NoHistory, History
<1>5. past' = [past EXCEPT ![r] = h]
  BY DEF Reschedule
<1>6. Afresh(r)
  <2>1. past'[r] = h
    BY <1>5, Rows
  <2>2. row'[r].marked = {}
    BY <1>2, <1>3, Rows
  <2> QED
    BY <2>1, <2>2 DEF Afresh
<1> HIDE DEF h
<1>7. row' \in [Row -> FollowUp] /\ past' \in [Row -> History]
  BY <1>2, <1>3, <1>4, <1>5 DEF TypeOK
<1>8. \A q \in Row \ {r} : Kept(q)
  BY <1>2, <1>5 DEF Kept, TypeOK
<1> QED
  BY <1>2, <1>6, <1>7, <1>8 DEF Handled

LEMMA SweepHandled == \A s \in Stage : TypeOK /\ Sweep(s) => Handled
<1> SUFFICES ASSUME NEW s \in Stage, TypeOK, Sweep(s) PROVE Handled
  OBVIOUS
<1>1. /\ UNCHANGED <<now, tick, scan, faults, past>>
      /\ row' = [r \in Row |-> IF Planned(r) /\ row[r].stage \in {s, NoStage}
                                 THEN [row[r] EXCEPT !.status = "done"] ELSE row[r]]
  BY DEF Sweep, Save, workers
<1>2. ASSUME NEW r \in Row PROVE row'[r] \in FollowUp /\ Kept(r)
  <2>1. CASE row'[r] = [row[r] EXCEPT !.status = "done"]
    BY <1>1, <2>1, Rows DEF FollowUp, Status, Kept
  <2>2. CASE row'[r] = row[r]
    BY <1>1, <2>2, Rows DEF Kept
  <2> QED
    BY <1>1, <2>1, <2>2
<1> QED
  BY <1>1, <1>2 DEF Handled, TypeOK

LEMMA DropHandled == TypeOK /\ DropAdmission => Handled
<1> SUFFICES ASSUME TypeOK, DropAdmission PROVE Handled
  OBVIOUS
<1>1. /\ UNCHANGED <<now, tick, scan, faults, past>>
      /\ row' = [r \in Row |-> IF Planned(r)
                                 THEN [row[r] EXCEPT !.status = "cancelled"] ELSE row[r]]
  BY DEF DropAdmission, Save, workers
<1>2. ASSUME NEW r \in Row PROVE row'[r] \in FollowUp /\ Kept(r)
  <2>1. CASE row'[r] = [row[r] EXCEPT !.status = "cancelled"]
    BY <1>1, <2>1, Rows DEF FollowUp, Status, Kept
  <2>2. CASE row'[r] = row[r]
    BY <1>1, <2>2, Rows DEF Kept
  <2> QED
    BY <1>1, <2>1, <2>2
<1> QED
  BY <1>1, <1>2 DEF Handled, TypeOK

LEMMA SlotsHandled == \A s \in Stage : TypeOK /\ SaveSlots(s) => Handled
<1> SUFFICES ASSUME NEW s \in Stage, TypeOK, SaveSlots(s) PROVE Handled
  OBVIOUS
<1>1. PICK kept \in SUBSET (Existing(s) \cup {r \in Row : row[r].status = "absent"}) :
      \E due \in [kept -> Due], status \in [kept -> Status], n \in [kept -> Note] :
        LET new == SlotTable(s, kept, due, status, n)
        IN  /\ Save(new)
            /\ past' = [r \in Row |-> IF r \in kept /\ new[r].status = "planned"
                                        THEN Replanned(r) ELSE past[r]]
  BY DEF SaveSlots
<1>2. PICK due \in [kept -> Due], status \in [kept -> Status], n \in [kept -> Note] :
        LET new == SlotTable(s, kept, due, status, n)
        IN  /\ Save(new)
            /\ past' = [r \in Row |-> IF r \in kept /\ new[r].status = "planned"
                                        THEN Replanned(r) ELSE past[r]]
  BY <1>1
<1>3. PICK new : new = SlotTable(s, kept, due, status, n)
  OBVIOUS
<1>4. /\ row' = new /\ UNCHANGED <<now, tick, scan, faults>>
      /\ past' = [r \in Row |-> IF r \in kept /\ new[r].status = "planned"
                                  THEN Replanned(r) ELSE past[r]]
  BY <1>2, <1>3 DEF Save, workers
<1>5. ASSUME NEW r \in Row PROVE Replanned(r) \in History
  <2>1. past[r].crossed \/ Held(r) \in BOOLEAN
    BY DEF Held
  <2> QED
    BY <2>1, Rows DEF Replanned, History
<1>6. ASSUME NEW r \in Row
      PROVE  /\ new[r] \in FollowUp /\ new[r].marked = row[r].marked
             /\ \/ r \in kept /\ new[r].status \in Status
                \/ new[r].status = "deleted" /\ r \notin kept
                \/ new[r] = row[r] /\ r \notin kept
  <2>1. new[r] = CASE r \in kept -> SlotRow(r, s, due[r], status[r], n[r])
                   [] r \in Existing(s) \ kept -> Deleted(r)
                   [] OTHER -> row[r]
    BY <1>3 DEF SlotTable
  <2>2. CASE r \in kept
    <3>1. new[r] = SlotRow(r, s, due[r], status[r], n[r])
      BY <2>1, <2>2
    <3>2. due[r] \in Due /\ status[r] \in Status /\ n[r] \in Note
      BY <2>2
    <3> QED
      BY <2>2, <3>1, <3>2, Rows DEF SlotRow, FollowUp, Status
  <2>3. CASE r \in Existing(s) \ kept
    <3>1. new[r] = Deleted(r)
      BY <2>1, <2>3
    <3> QED
      BY <2>3, <3>1, Rows DEF Deleted, FollowUp, Due
  <2>4. CASE r \notin kept /\ r \notin Existing(s)
    BY <2>1, <2>4, Rows
  <2> QED
    BY <2>2, <2>3, <2>4
<1>7. row' \in [Row -> FollowUp]
  <2>1. DOMAIN new = Row /\ new = [r \in Row |-> new[r]]
    BY <1>3 DEF SlotTable
  <2> QED
    BY <1>4, <1>6, <2>1
<1>8. past' \in [Row -> History]
  BY <1>4, <1>5, Rows
<1>9. ASSUME NEW r \in Row PROVE Kept(r) \/ Again(r)
  <2>1. CASE r \in kept /\ new[r].status = "planned"
    BY <1>4, <1>6, <2>1 DEF Again
  <2>2. CASE ~(r \in kept /\ new[r].status = "planned")
    <3>1. past'[r] = past[r]
      BY <1>4, <2>2
    <3>2. row'[r] = new[r] /\ new[r].marked = row[r].marked
      BY <1>4, <1>6
    <3>3. \/ new[r].status \notin {"planned", "absent"}
          \/ new[r] = row[r]
      BY <1>6, <2>2 DEF Status
    <3> QED
      BY <3>1, <3>2, <3>3 DEF Kept
  <2> QED
    BY <2>1, <2>2
<1> QED
  BY <1>4, <1>7, <1>8, <1>9 DEF Handled

LEMMA PeopleHandled == TypeOK /\ People => Handled
  BY CreateHandled, EditHandled, CloseHandled, DeleteHandled, AdHocHandled,
     RescheduleHandled, SweepHandled, DropHandled, SlotsHandled
  DEF People, Complete, Cancel

-----------------------------------------------------------------------------
(* What the workers have in hand *)

\* A tick between two of its runs holds nothing.
Rests == \A t \in Tick : tick[t].pass = 0 => Free(t)

\* A row sent but not yet marked has been sent for the pass of its tick.
SentFirst ==
    \A t \in Tick, r \in Row :
        tick[t].cur = r /\ ~past[r].crossed => past[r].sent[Passes[tick[t].pass]] > 0

\* What is planned is not claimed, and what the scanner holds is not told.
Unclaimed ==
    \A r \in Row : row[r].status \in {"planned", "absent"} => past[r].claimed = 0
InHand ==
    \A r \in scan : ~past[r].crossed => past[r].claimed = 1 /\ past[r].told = 0

IInv == TypeOK /\ Rests /\ SentFirst /\ FreshCycle /\ Unclaimed /\ InHand /\ MissedTold

LEMMA InvInit == Init => IInv
<1> SUFFICES ASSUME Init PROVE IInv
  OBVIOUS
<1>1. TypeOK
  BY TypeInit
<1>2. Rests
  BY DEF Init, Rests, Free, Waiting
<1>3. SentFirst
  BY FollowUpConstants DEF Init, SentFirst, Waiting
<1>4. FreshCycle /\ Unclaimed /\ InHand
  BY DEF Init, FreshCycle, Unclaimed, InHand, NoHistory
<1>5. MissedTold
  BY DEF Init, MissedTold, NoHistory
<1> QED
  BY <1>1, <1>2, <1>3, <1>4, <1>5 DEF IInv

LEMMA InvPeople == IInv /\ People => IInv'
<1> SUFFICES ASSUME IInv, People PROVE IInv'
  OBVIOUS
<1>1. TypeOK /\ Handled
  BY PeopleHandled DEF IInv
<1>2. UNCHANGED <<now, tick, scan, faults>>
  BY <1>1 DEF Handled
<1>3. TypeOK'
  BY <1>1 DEF Handled, TypeOK
<1>4. Rests'
  BY <1>2 DEF IInv, Rests, Free
<1>5. ASSUME NEW r \in Row
      PROVE  \/ Kept(r)
             \/ /\ past'[r].crossed = Held(r) /\ row'[r].marked = {}
                /\ past'[r].claimed = 0 /\ past'[r].told = 0 /\ past'[r].lost = FALSE
             \/ /\ past'[r].crossed = (past[r].crossed \/ Held(r))
                /\ row'[r].marked = row[r].marked /\ past'[r].sent = past[r].sent
                /\ past'[r].claimed = 0 /\ past'[r].told = 0 /\ past'[r].lost = FALSE
  <2>1. CASE Kept(r)
    BY <2>1
  <2>2. CASE Afresh(r)
    BY <2>2 DEF Afresh, NoHistory
  <2>3. CASE Again(r)
    BY <2>3, <1>1, Rows DEF Again, Replanned, History
  <2> QED
    BY <1>1, <2>1, <2>2, <2>3 DEF Handled
<1>6. SentFirst'
  <2> SUFFICES ASSUME NEW t \in Tick, NEW r \in Row, tick[t].cur = r, ~past'[r].crossed
               PROVE  past'[r].sent[Passes[tick[t].pass]] > 0
    BY <1>2 DEF SentFirst
  <2>1. Held(r)
    BY DEF Held
  <2>2. Kept(r)
    BY <1>5, <2>1
  <2> QED
    BY <2>2 DEF Kept, IInv, SentFirst
<1>7. FreshCycle'
  <2> SUFFICES ASSUME NEW r \in Row, NEW k \in Kind,
                      k \in row'[r].marked, ~past'[r].crossed
               PROVE  past'[r].sent[k] > 0
    BY DEF FreshCycle
  <2>1. k \in row[r].marked /\ ~past[r].crossed /\ past'[r].sent = past[r].sent
    BY <1>5 DEF Kept
  <2> QED
    BY <2>1 DEF IInv, FreshCycle
<1>8. Unclaimed'
  BY <1>5 DEF IInv, Unclaimed, Kept
<1>9. InHand'
  <2> SUFFICES ASSUME NEW r \in scan, ~past'[r].crossed
               PROVE  past'[r].claimed = 1 /\ past'[r].told = 0
    BY <1>2 DEF InHand
  <2>1. r \in Row /\ Held(r)
    BY <1>1 DEF TypeOK, Held
  <2>2. past'[r] = past[r]
    BY <1>5, <2>1 DEF Kept
  <2> QED
    BY <2>2 DEF IInv, InHand
<1>10. MissedTold'
  <2> SUFFICES ASSUME NEW r \in Row
               PROVE  /\ past'[r].claimed <= 1
                      /\ ~past'[r].crossed =>
                           /\ past'[r].told <= past'[r].claimed
                           /\ past'[r].claimed = 1 =>
                                past'[r].told = 1 \/ r \in scan \/ past'[r].lost
    BY <1>2 DEF MissedTold
  <2>1. CASE past'[r] = past[r]
    BY <2>1 DEF IInv, MissedTold
  <2>2. CASE past'[r].claimed = 0 /\ past'[r].told = 0
    BY <2>2
  <2> QED
    BY <1>5, <2>1, <2>2 DEF Kept
<1> QED
  BY <1>3, <1>4, <1>6, <1>7, <1>8, <1>9, <1>10 DEF IInv

LEMMA InvStartPass == \A t \in Tick : IInv /\ StartPass(t) => IInv'
<1> SUFFICES ASSUME NEW t \in Tick, IInv, StartPass(t) PROVE IInv'
  OBVIOUS
<1>0. TypeOK /\ NoRow \notin Row /\ Len(Passes) \in Nat
  BY FollowUpConstants DEF IInv
<1> DEFINE p == tick[t].pass + 1
           new == [tick[t] EXCEPT !.pass = p, !.todo = {r \in Row : Wanted(r, Passes[p])}]
<1>1. p \in 1..Len(Passes) /\ tick[t].cur = NoRow
  BY <1>0 DEF StartPass, Free, TypeOK, TickState
<1>2. tick' = [tick EXCEPT ![t] = new] /\ UNCHANGED <<now, row, scan, past, faults>>
  BY <1>0 DEF StartPass, TypeOK, TickState
<1>3. new \in TickState /\ new.cur = NoRow /\ new.pass # 0
  <2>1. tick[t] \in TickState /\ p \in 0..Len(Passes) /\ p # 0
    BY <1>0, <1>1 DEF TypeOK
  <2>2. {r \in Row : Wanted(r, Passes[p])} \in SUBSET Row
    OBVIOUS
  <2>3. PICK todo : todo = {r \in Row : Wanted(r, Passes[p])}
    OBVIOUS
  <2> HIDE DEF p
  <2>4. new = [tick[t] EXCEPT !.pass = p, !.todo = todo]
    BY <2>3
  <2> HIDE DEF new
  <2> QED
    BY <1>1, <2>1, <2>2, <2>3, <2>4 DEF TickState
<1> HIDE DEF new, p
<1>4. tick' \in [Tick -> TickState] /\ TypeOK'
  BY <1>0, <1>2, <1>3 DEF TypeOK
<1>5. Rests' /\ SentFirst'
  <2>1. ASSUME NEW u \in Tick
        PROVE  tick'[u] = IF u = t THEN new ELSE tick[u]
    BY <1>0, <1>2 DEF TypeOK
  <2>2. Rests'
    BY <1>3, <2>1 DEF IInv, Rests, Free
  <2>3. SentFirst'
    BY <1>0, <1>2, <1>3, <2>1 DEF IInv, SentFirst
  <2> QED
    BY <2>2, <2>3
<1>6. FreshCycle' /\ Unclaimed' /\ InHand' /\ MissedTold'
  BY <1>2 DEF IInv, FreshCycle, Unclaimed, InHand, MissedTold
<1> QED
  BY <1>4, <1>5, <1>6 DEF IInv

LEMMA InvRemind == \A t \in Tick, r \in Row : IInv /\ Remind(t, r) => IInv'
<1> SUFFICES ASSUME NEW t \in Tick, NEW r \in Row, IInv, Remind(t, r) PROVE IInv'
  OBVIOUS
<1> DEFINE k == Passes[tick[t].pass]
           new == [tick[t] EXCEPT !.todo = @ \ {r}, !.cur = r]
<1>0. TypeOK /\ NoRow \notin Row /\ Len(Passes) \in Nat
  BY FollowUpConstants DEF IInv
<1>1. tick[t].pass \in 1..Len(Passes) /\ tick[t] \in TickState
  BY <1>0 DEF Remind, IInv, Rests, Free, TypeOK, TickState
<1>2. k \in Kind
  BY <1>1, KindOfPass
<1>3. /\ tick' = [tick EXCEPT ![t] = new] /\ past' = [past EXCEPT ![r].sent[k] = @ + 1]
      /\ UNCHANGED <<now, row, scan, faults>>
  BY <1>0 DEF Remind, TypeOK, TickState
<1>4. new \in TickState /\ new.cur = r /\ new.pass = tick[t].pass
  BY <1>1 DEF TickState
<1> HIDE DEF new
<1>5. tick' \in [Tick -> TickState]
  BY <1>0, <1>3, <1>4 DEF TypeOK
<1> HIDE DEF k
<1>6. ASSUME NEW q \in Row
      PROVE  /\ past'[q] \in History
             /\ past'[q].claimed = past[q].claimed /\ past'[q].told = past[q].told
             /\ past'[q].lost = past[q].lost /\ past'[q].crossed = past[q].crossed
             /\ \A j \in Kind : past'[q].sent[j] >= past[q].sent[j]
             /\ q = r => past'[q].sent[k] > 0
  <2>1. CASE q = r
    <3>1. past'[q] = [past[r] EXCEPT !.sent[k] = @ + 1]
      BY <1>3, <2>1, <1>0, Rows
    <3>2. past[r] \in History
      BY <1>0, Rows
    <3> QED
      BY <1>2, <3>1, <3>2, <2>1 DEF History
  <2>2. CASE q # r
    <3>1. past'[q] = past[q] /\ past[q] \in History
      BY <1>3, <2>2, <1>0, Rows
    <3> QED
      BY <3>1, <2>2 DEF History
  <2> QED
    BY <2>1, <2>2
<1>7. past' \in [Row -> History]
  <2>1. past' = [q \in Row |-> past'[q]]
    BY <1>0, <1>3, Rows
  <2> QED
    BY <1>6, <2>1
<1>8. TypeOK'
  BY <1>0, <1>3, <1>5, <1>7 DEF TypeOK
<1>9. Rests'
  BY <1>0, <1>1, <1>3, <1>4 DEF IInv, Rests, Free, TypeOK
<1>10. SentFirst'
  <2> SUFFICES ASSUME NEW u \in Tick, NEW q \in Row, tick'[u].cur = q, ~past'[q].crossed
               PROVE  past'[q].sent[Passes[tick'[u].pass]] > 0
    BY DEF SentFirst
  <2>1. CASE u = t
    <3>1. tick'[u] = new
      BY <1>0, <1>3, <2>1 DEF TypeOK
    <3>2. q = r /\ Passes[tick'[u].pass] = k
      BY <1>4, <3>1 DEF k
    <3> QED
      BY <1>6, <3>2
  <2>2. CASE u # t
    <3>1. tick'[u] = tick[u]
      BY <1>0, <1>3, <2>2 DEF TypeOK
    <3>2. past[q].sent[Passes[tick[u].pass]] > 0
      BY <1>6, <3>1 DEF IInv, SentFirst
    <3>3. tick[u].pass # 0
      BY <3>1, <1>0 DEF IInv, Rests, Free
    <3>4. tick[u].pass \in 1..Len(Passes)
      BY <1>0, <3>3 DEF TypeOK, TickState
    <3>5. Passes[tick[u].pass] \in Kind
      BY <3>4, KindOfPass
    <3> DEFINE j == Passes[tick[u].pass]
    <3>6. past[q].sent[j] \in Nat /\ past'[q].sent[j] \in Nat
      BY <1>6, <3>5, <1>0, Rows DEF History
    <3>7. past'[q].sent[j] >= past[q].sent[j] /\ past[q].sent[j] > 0
      BY <1>6, <3>2, <3>5
    <3> QED
      BY <3>1, <3>6, <3>7
  <2> QED
    BY <2>1, <2>2
<1>11. FreshCycle'
  <2> SUFFICES ASSUME NEW q \in Row, NEW j \in Kind, j \in row[q].marked, ~past'[q].crossed
               PROVE  past'[q].sent[j] > 0
    BY <1>3 DEF FreshCycle
  <2>1. past[q].sent[j] > 0
    BY <1>6 DEF IInv, FreshCycle
  <2>2. past[q].sent[j] \in Nat /\ past'[q].sent[j] \in Nat
    BY <1>6, <1>0, Rows DEF History
  <2>3. past'[q].sent[j] >= past[q].sent[j]
    BY <1>6
  <2> QED
    BY <2>1, <2>2, <2>3
<1>12. Unclaimed' /\ InHand' /\ MissedTold'
  <2>1. scan \subseteq Row
    BY <1>0 DEF TypeOK
  <2> QED
    BY <1>3, <1>6, <2>1 DEF IInv, Unclaimed, InHand, MissedTold
<1> QED
  BY <1>8, <1>9, <1>10, <1>11, <1>12 DEF IInv

LEMMA InvMark == \A t \in Tick : IInv /\ Mark(t) => IInv'
<1> SUFFICES ASSUME NEW t \in Tick, IInv, Mark(t) PROVE IInv'
  OBVIOUS
<1>0. TypeOK /\ NoRow \notin Row /\ Len(Passes) \in Nat
  BY FollowUpConstants DEF IInv
<1> DEFINE k == Passes[tick[t].pass]
           c == tick[t].cur
           new == [tick[t] EXCEPT !.cur = NoRow]
<1>1. tick[t].pass \in 1..Len(Passes) /\ tick[t] \in TickState /\ c \in Row
  BY <1>0 DEF Mark, IInv, Rests, Free, TypeOK, TickState
<1>2. k \in Kind
  BY <1>1, KindOfPass
<1>3. /\ tick' = [tick EXCEPT ![t] = new]
      /\ row' = [row EXCEPT ![c] = [row[c] EXCEPT !.marked = @ \cup {k}]]
      /\ UNCHANGED <<now, scan, past, faults>>
  BY <1>0, <1>1 DEF Mark, TypeOK, TickState
<1>4. new \in TickState /\ new.cur = NoRow /\ new.pass # 0
  BY <1>1, <1>0 DEF TickState
<1>5. ~past[c].crossed => past[c].sent[k] > 0
  BY <1>1 DEF IInv, SentFirst
<1> HIDE DEF new, k, c
<1>6. tick' \in [Tick -> TickState]
  BY <1>0, <1>3, <1>4 DEF TypeOK
<1>7. ASSUME NEW q \in Row
      PROVE  /\ row'[q] \in FollowUp /\ row'[q].status = row[q].status
             /\ row'[q].marked \subseteq row[q].marked \cup {k}
             /\ q # c => row'[q].marked = row[q].marked
  <2>1. CASE q = c
    <3>1. row'[q] = [row[c] EXCEPT !.marked = @ \cup {k}] /\ row[c] \in FollowUp
      BY <1>0, <1>1, <1>3, <2>1, Rows
    <3> QED
      BY <1>2, <2>1, <3>1 DEF FollowUp
  <2>2. CASE q # c
    BY <1>0, <1>3, <2>2, Rows
  <2> QED
    BY <2>1, <2>2
<1>8. TypeOK'
  <2>1. row[c] \in FollowUp
    BY <1>0, <1>1, Rows
  <2>2. [row[c] EXCEPT !.marked = @ \cup {k}] \in FollowUp
    BY <1>2, <2>1 DEF FollowUp
  <2>3. row' \in [Row -> FollowUp]
    BY <1>0, <1>1, <1>3, <2>2 DEF TypeOK
  <2> QED
    BY <1>0, <1>3, <1>6, <2>3 DEF TypeOK
<1>9. Rests' /\ SentFirst'
  BY <1>0, <1>3, <1>4 DEF IInv, Rests, Free, SentFirst, TypeOK
<1>10. FreshCycle'
  <2> SUFFICES ASSUME NEW q \in Row, NEW j \in Kind, j \in row'[q].marked, ~past[q].crossed
               PROVE  past[q].sent[j] > 0
    BY <1>3 DEF FreshCycle
  <2>1. CASE j \in row[q].marked
    BY <2>1 DEF IInv, FreshCycle
  <2>2. CASE j \notin row[q].marked
    <3>1. j = k /\ q = c
      BY <1>7, <2>2
    <3> QED
      BY <1>5, <3>1
  <2> QED
    BY <2>1, <2>2
<1>11. Unclaimed' /\ InHand' /\ MissedTold'
  BY <1>3, <1>7 DEF IInv, Unclaimed, InHand, MissedTold
<1> QED
  BY <1>8, <1>9, <1>10, <1>11 DEF IInv

\* EndTick and TickFails: a tick lets go of what it holds.
LEMMA InvLetGo ==
    ASSUME IInv, NEW t \in Tick, tick' = [tick EXCEPT ![t] = Waiting],
           UNCHANGED <<now, row, scan, past>>, faults' \in 0..MaxFaults
    PROVE  IInv'
<1>0. TypeOK /\ NoRow \notin Row /\ Len(Passes) \in Nat
  BY FollowUpConstants DEF IInv
<1>1. Waiting \in TickState /\ Waiting.cur = NoRow /\ Waiting.todo = {}
  BY <1>0 DEF Waiting, TickState
<1>2. TypeOK'
  BY <1>0, <1>1 DEF TypeOK
<1>3. Rests' /\ SentFirst'
  BY <1>0, <1>1 DEF IInv, Rests, Free, SentFirst, TypeOK
<1>4. FreshCycle' /\ Unclaimed' /\ InHand' /\ MissedTold'
  BY DEF IInv, FreshCycle, Unclaimed, InHand, MissedTold
<1> QED
  BY <1>2, <1>3, <1>4 DEF IInv

LEMMA InvClaim == IInv /\ Claim => IInv'
<1> SUFFICES ASSUME IInv, Claim PROVE IInv'
  OBVIOUS
<1>0. TypeOK
  BY DEF IInv
<1>1. PICK hits : hits = {r \in Row : OverdueRow(r)}
  OBVIOUS
<1>2. /\ row' = [r \in Row |-> IF r \in hits THEN [row[r] EXCEPT !.status = "missed"]
                                 ELSE row[r]]
      /\ past' = [r \in Row |-> IF r \in hits
                                  THEN [past[r] EXCEPT !.claimed = @ + 1] ELSE past[r]]
      /\ scan = {} /\ scan' = hits /\ UNCHANGED <<now, tick, faults>>
  BY <1>1 DEF Claim
<1>3. ASSUME NEW r \in hits PROVE r \in Row /\ row[r].status = "planned"
  BY <1>1 DEF OverdueRow, Planned
<1>4. ASSUME NEW r \in Row
      PROVE  /\ row'[r] \in FollowUp /\ past'[r] \in History
             /\ row'[r].marked = row[r].marked
             /\ past'[r].sent = past[r].sent /\ past'[r].crossed = past[r].crossed
             /\ past'[r].told = past[r].told /\ past'[r].lost = past[r].lost
             /\ r \in hits => /\ row'[r].status = "missed"
                              /\ past'[r].claimed = past[r].claimed + 1
             /\ r \notin hits => row'[r] = row[r] /\ past'[r] = past[r]
  <2>1. row[r] \in FollowUp /\ past[r] \in History
    BY <1>0, Rows
  <2>2. CASE r \in hits
    <3>1. /\ row'[r] = [row[r] EXCEPT !.status = "missed"]
          /\ past'[r] = [past[r] EXCEPT !.claimed = @ + 1]
      BY <1>2, <2>2
    <3> QED
      BY <2>1, <2>2, <3>1 DEF FollowUp, Status, History
  <2>3. CASE r \notin hits
    BY <1>2, <2>1, <2>3
  <2> QED
    BY <2>2, <2>3
<1>5. TypeOK'
  BY <1>0, <1>1, <1>2, <1>4 DEF TypeOK
<1>6. Rests' /\ SentFirst' /\ FreshCycle'
  BY <1>2, <1>4 DEF IInv, Rests, Free, SentFirst, FreshCycle
<1>7. Unclaimed'
  BY <1>4 DEF IInv, Unclaimed
<1>8. ASSUME NEW r \in hits
      PROVE  /\ past'[r].claimed = 1
             /\ ~past'[r].crossed => past'[r].told = 0
  <2>1. r \in Row /\ past[r].claimed = 0
    BY <1>3 DEF IInv, Unclaimed
  <2>2. past[r].told \in Nat /\ (~past[r].crossed => past[r].told <= past[r].claimed)
    BY <1>0, <2>1, Rows DEF IInv, MissedTold, History
  <2> QED
    BY <1>4, <2>1, <2>2
<1>9. InHand'
  BY <1>2, <1>8 DEF InHand
<1>10. MissedTold'
  <2> SUFFICES ASSUME NEW r \in Row
               PROVE  /\ past'[r].claimed <= 1
                      /\ ~past'[r].crossed =>
                           /\ past'[r].told <= past'[r].claimed
                           /\ past'[r].claimed = 1 =>
                                past'[r].told = 1 \/ r \in scan' \/ past'[r].lost
    BY DEF MissedTold
  <2>1. CASE r \in hits
    <3>1. past'[r].claimed = 1 /\ r \in scan'
      BY <1>2, <1>8, <2>1
    <3>2. ~past'[r].crossed => past'[r].told <= past'[r].claimed
      <4>1. ~past'[r].crossed => past'[r].told = 0
        BY <1>8, <2>1
      <4> QED
        BY <3>1, <4>1
    <3> QED
      BY <3>1, <3>2
  <2>2. CASE r \notin hits
    BY <1>2, <1>4, <2>2 DEF IInv, MissedTold
  <2> QED
    BY <2>1, <2>2
<1> QED
  BY <1>5, <1>6, <1>7, <1>9, <1>10 DEF IInv

LEMMA InvTell == \A r \in Row : IInv /\ Tell(r) => IInv'
<1> SUFFICES ASSUME NEW r \in Row, IInv, Tell(r) PROVE IInv'
  OBVIOUS
<1>0. TypeOK
  BY DEF IInv
<1>1. /\ r \in scan /\ scan' = scan \ {r} /\ UNCHANGED <<now, row, tick, faults>>
      /\ past' = [past EXCEPT ![r] = [past[r] EXCEPT !.told = @ + 1]]
  BY <1>0, Rows DEF Tell
<1>2. ASSUME NEW q \in Row
      PROVE  /\ past'[q] \in History
             /\ past'[q].sent = past[q].sent /\ past'[q].crossed = past[q].crossed
             /\ past'[q].claimed = past[q].claimed /\ past'[q].lost = past[q].lost
             /\ q = r => past'[q].told = past[q].told + 1
             /\ q # r => past'[q] = past[q]
  <2>1. past[q] \in History
    BY <1>0, Rows
  <2>2. past'[q] = IF q = r THEN [past[q] EXCEPT !.told = @ + 1] ELSE past[q]
    BY <1>0, <1>1, Rows
  <2> QED
    BY <2>1, <2>2 DEF History
<1>3. TypeOK'
  <2>1. [past[r] EXCEPT !.told = @ + 1] \in History
    BY <1>0, Rows DEF History
  <2> QED
    BY <1>0, <1>1, <2>1 DEF TypeOK
<1>4. Rests' /\ SentFirst' /\ FreshCycle' /\ Unclaimed'
  BY <1>1, <1>2 DEF IInv, Rests, Free, SentFirst, FreshCycle, Unclaimed
<1>5. InHand'
  BY <1>0, <1>1, <1>2 DEF IInv, InHand, TypeOK
<1>6. MissedTold'
  <2> SUFFICES ASSUME NEW q \in Row
               PROVE  /\ past'[q].claimed <= 1
                      /\ ~past'[q].crossed =>
                           /\ past'[q].told <= past'[q].claimed
                           /\ past'[q].claimed = 1 =>
                                past'[q].told = 1 \/ q \in scan' \/ past'[q].lost
    BY DEF MissedTold
  <2>1. CASE q = r
    <3>1. past[r].claimed <= 1
      BY DEF IInv, MissedTold
    <3>2. ~past[r].crossed => past[r].claimed = 1 /\ past[r].told = 0
      BY <1>1 DEF IInv, InHand
    <3>3. /\ past'[r].claimed = past[r].claimed /\ past'[r].told = past[r].told + 1
          /\ past'[r].crossed = past[r].crossed
      BY <1>2
    <3>4. ~past'[r].crossed => past'[r].claimed = 1 /\ past'[r].told = 1
      <4>1. CASE past[r].crossed
        BY <3>3, <4>1
      <4>2. CASE ~past[r].crossed
        BY <3>2, <3>3, <4>2
      <4> QED
        BY <4>1, <4>2
    <3>5. past'[r].claimed <= 1
      BY <3>1, <3>3
    <3>6. ~past'[r].crossed => past'[r].told <= past'[r].claimed
      BY <3>4
    <3> QED
      BY <2>1, <3>4, <3>5, <3>6
  <2>2. CASE q # r
    BY <1>1, <1>2, <2>2 DEF IInv, MissedTold
  <2> QED
    BY <2>1, <2>2
<1> QED
  BY <1>3, <1>4, <1>5, <1>6 DEF IInv

LEMMA InvScanFails == IInv /\ ScanFails => IInv'
<1> SUFFICES ASSUME IInv, ScanFails PROVE IInv'
  OBVIOUS
<1>0. TypeOK /\ MaxFaults \in Nat
  BY FollowUpConstants DEF IInv
<1>1. /\ scan' = {} /\ UNCHANGED <<now, row, tick>> /\ faults' \in 0..MaxFaults
      /\ past' = [r \in Row |-> IF r \in scan THEN [past[r] EXCEPT !.lost = TRUE]
                                ELSE past[r]]
  BY <1>0 DEF ScanFails, TypeOK
<1>2. ASSUME NEW q \in Row
      PROVE  /\ past'[q] \in History
             /\ past'[q].sent = past[q].sent /\ past'[q].crossed = past[q].crossed
             /\ past'[q].claimed = past[q].claimed /\ past'[q].told = past[q].told
             /\ q \in scan => past'[q].lost = TRUE
             /\ q \notin scan => past'[q] = past[q]
  <2>1. past[q] \in History
    BY <1>0, Rows
  <2>2. past'[q] = IF q \in scan THEN [past[q] EXCEPT !.lost = TRUE] ELSE past[q]
    BY <1>1
  <2> QED
    BY <2>1, <2>2 DEF History
<1>3. TypeOK'
  BY <1>0, <1>1, <1>2 DEF TypeOK
<1>4. Rests' /\ SentFirst' /\ FreshCycle' /\ Unclaimed' /\ InHand'
  BY <1>1, <1>2 DEF IInv, Rests, Free, SentFirst, FreshCycle, Unclaimed, InHand
<1>5. MissedTold'
  <2> SUFFICES ASSUME NEW q \in Row
               PROVE  /\ past'[q].claimed <= 1
                      /\ ~past'[q].crossed =>
                           /\ past'[q].told <= past'[q].claimed
                           /\ past'[q].claimed = 1 =>
                                past'[q].told = 1 \/ q \in scan' \/ past'[q].lost
    BY DEF MissedTold
  <2>1. CASE q \in scan
    <3>1. past'[q].lost
      BY <1>2, <2>1
    <3> QED
      BY <1>2, <3>1 DEF IInv, MissedTold
  <2>2. CASE q \notin scan
    BY <1>1, <1>2, <2>2 DEF IInv, MissedTold
  <2> QED
    BY <2>1, <2>2
<1> QED
  BY <1>3, <1>4, <1>5 DEF IInv

LEMMA InvStep == IInv /\ [Next]_vars => IInv'
<1> SUFFICES ASSUME IInv, [Next]_vars PROVE IInv'
  OBVIOUS
<1>0. Horizon \in Nat /\ TypeOK
  BY FollowUpConstants DEF IInv
<1>1. CASE People
  BY <1>1, InvPeople
<1>2. CASE Clock
  <2>1. now' \in Time /\ UNCHANGED <<row, tick, scan, past, faults>>
    BY <1>0, <1>2 DEF Clock, TypeOK, Time, workers
  <2> QED
    BY <2>1 DEF IInv, TypeOK, Rests, Free, SentFirst, FreshCycle, Unclaimed, InHand,
                MissedTold
<1>3. ASSUME NEW t \in Tick, EndTick(t) \/ TickFails(t) PROVE IInv'
  <2>1. /\ tick' = [tick EXCEPT ![t] = Waiting] /\ UNCHANGED <<now, row, scan, past>>
        /\ faults' \in 0..MaxFaults
    BY <1>0, <1>3, FollowUpConstants DEF EndTick, TickFails, TypeOK
  <2> QED
    BY <2>1, InvLetGo
<1>4. CASE Reminders
  BY <1>3, <1>4, InvStartPass, InvRemind, InvMark DEF Reminders
<1>5. CASE Scanner
  BY <1>5, InvClaim, InvTell, InvScanFails DEF Scanner
<1>6. CASE UNCHANGED vars
  BY <1>6 DEF vars, IInv, TypeOK, Rests, Free, SentFirst, FreshCycle, Unclaimed, InHand,
              MissedTold
<1> QED
  BY <1>1, <1>2, <1>4, <1>5, <1>6 DEF Next

\* What the workers have in hand, and what was claimed and told, in every
\* reachable state.
THEOREM Inductive == Spec => []IInv
  BY InvInit, InvStep, PTL DEF Spec

-----------------------------------------------------------------------------
(* How often a planning is reminded of *)

\* A tick takes a row off its list when it sends for it.
Apart == \A t \in Tick : tick[t].cur \notin tick[t].todo

\* The two counts of RemindersCounted, for one row and kind.
Count(r, k) ==
    /\ past[r].sent[k] + Cardinality(Listing(r, k)) <= Cardinality(Tick) + faults
    /\ k \notin row[r].marked =>
          past[r].sent[k] <= Cardinality(Marking(r, k)) + faults

\* Every count is a number.
LEMMA Countable ==
  ASSUME TypeOK, NEW r \in Row, NEW k \in Kind
  PROVE  /\ IsFiniteSet(Listing(r, k)) /\ Cardinality(Listing(r, k)) \in Nat
         /\ IsFiniteSet(Marking(r, k)) /\ Cardinality(Marking(r, k)) \in Nat
         /\ Cardinality(Listing(r, k)) <= Cardinality(Tick)
         /\ Cardinality(Tick) \in Nat /\ IsFiniteSet(Tick)
         /\ past[r].sent[k] \in Nat /\ faults \in Nat
<1>1. Listing(r, k) \in SUBSET Tick /\ Marking(r, k) \in SUBSET Tick
  BY DEF Listing, Marking
<1>2. /\ IsFiniteSet(Listing(r, k)) /\ IsFiniteSet(Marking(r, k))
      /\ Cardinality(Listing(r, k)) <= Cardinality(Tick)
  BY <1>1, FS_Subset, FollowUpConstants
<1>3. past[r].sent[k] \in Nat /\ faults \in Nat
  BY FollowUpConstants DEF TypeOK, History
<1> QED
  BY <1>2, <1>3, FS_CardinalityType, FollowUpConstants

\* The same in the state a step leads to.
LEMMA CountableNext ==
  ASSUME TypeOK', NEW r \in Row, NEW k \in Kind
  PROVE  /\ IsFiniteSet(Listing(r, k)') /\ Cardinality(Listing(r, k)') \in Nat
         /\ IsFiniteSet(Marking(r, k)') /\ Cardinality(Marking(r, k)') \in Nat
         /\ Cardinality(Listing(r, k)') <= Cardinality(Tick)
         /\ past'[r].sent[k] \in Nat /\ faults' \in Nat
<1>1. Listing(r, k)' \in SUBSET Tick /\ Marking(r, k)' \in SUBSET Tick
  BY DEF Listing, Marking
<1>2. /\ IsFiniteSet(Listing(r, k)') /\ IsFiniteSet(Marking(r, k)')
      /\ Cardinality(Listing(r, k)') <= Cardinality(Tick)
  BY <1>1, FS_Subset, FollowUpConstants
<1>3. past'[r].sent[k] \in Nat /\ faults' \in Nat
  BY FollowUpConstants DEF TypeOK, History
<1> QED
  BY <1>2, <1>3, FS_CardinalityType, FollowUpConstants

\* A step that sends no reminder of the row and lists it nowhere keeps the
\* counts, if it makes up by a death for a tick it takes from marking the row.
LEMMA CountKept ==
  ASSUME TypeOK, TypeOK', NEW r \in Row, NEW k \in Kind, Count(r, k),
         Listing(r, k)' \subseteq Listing(r, k), faults' >= faults,
         past'[r].sent[k] = past[r].sent[k],
         k \notin row'[r].marked =>
            /\ k \notin row[r].marked
            /\ Cardinality(Marking(r, k)) + faults
                 <= Cardinality(Marking(r, k)') + faults'
  PROVE  Count(r, k)'
<1>1. Cardinality(Listing(r, k)') <= Cardinality(Listing(r, k))
  BY Countable, FS_Subset
<1>2. past[r].sent[k] + Cardinality(Listing(r, k)) <= Cardinality(Tick) + faults
  BY DEF Count
<1>3. k \notin row[r].marked =>
         past[r].sent[k] <= Cardinality(Marking(r, k)) + faults
  BY DEF Count
<1>4. /\ Cardinality(Listing(r, k)) \in Nat /\ Cardinality(Marking(r, k)) \in Nat
      /\ Cardinality(Tick) \in Nat /\ past[r].sent[k] \in Nat /\ faults \in Nat
  BY Countable
<1>5. /\ Cardinality(Listing(r, k)') \in Nat /\ Cardinality(Marking(r, k)') \in Nat
      /\ faults' \in Nat
  BY CountableNext
<1>6. past'[r].sent[k] + Cardinality(Listing(r, k)') <= Cardinality(Tick) + faults'
  BY <1>1, <1>2, <1>4, <1>5
<1>7. k \notin row'[r].marked =>
         past'[r].sent[k] <= Cardinality(Marking(r, k)') + faults'
  BY <1>3, <1>4, <1>5
<1> QED
  BY <1>6, <1>7 DEF Count

\* A row without a reminder sent keeps the counts whatever the ticks hold.
LEMMA CountAfresh ==
  ASSUME TypeOK', NEW r \in Row, NEW k \in Kind, past'[r].sent[k] = 0
  PROVE  Count(r, k)'
<1>1. /\ Cardinality(Listing(r, k)') \in Nat /\ Cardinality(Marking(r, k)') \in Nat
      /\ Cardinality(Listing(r, k)') <= Cardinality(Tick) /\ faults' \in Nat
  BY CountableNext
<1>2. Cardinality(Tick) \in Nat
  BY FS_CardinalityType, FollowUpConstants
<1> QED
  BY <1>1, <1>2 DEF Count

\* Whoever is no tick leaves the ticks alone, and no mark is taken off a row
\* without its history.
LEMMA CountOthers ==
  ASSUME TypeOK, TypeOK', NEW r \in Row, NEW k \in Kind, Count(r, k),
         UNCHANGED tick, faults' >= faults,
         \/ past'[r].sent[k] = past[r].sent[k] /\ row'[r].marked = row[r].marked
         \/ past'[r].sent[k] = 0
  PROVE  Count(r, k)'
<1>1. Listing(r, k)' = Listing(r, k) /\ Marking(r, k)' = Marking(r, k)
  BY DEF Listing, Marking
<1>2. Cardinality(Marking(r, k)) \in Nat /\ faults \in Nat /\ faults' \in Nat
  BY Countable, CountableNext
<1>3. CASE past'[r].sent[k] = past[r].sent[k] /\ row'[r].marked = row[r].marked
  BY <1>1, <1>2, <1>3, CountKept
<1>4. CASE past'[r].sent[k] = 0
  BY <1>4, CountAfresh
<1> QED
  BY <1>3, <1>4

\* A tick lists a row it finds unmarked: what was sent of it, is in the hands of
\* other ticks or of the dead.
LEMMA CountStartPass ==
  ASSUME IInv, TypeOK', NEW t \in Tick, StartPass(t), NEW r \in Row, NEW k \in Kind,
         Count(r, k), Apart
  PROVE  Count(r, k)'
<1> DEFINE p == tick[t].pass + 1
<1>0. TypeOK /\ NoRow \notin Row
  BY FollowUpConstants DEF IInv
<1>1. /\ tick' = [tick EXCEPT ![t].pass = p,
                              ![t].todo = {q \in Row : Wanted(q, Passes[p])}]
      /\ UNCHANGED <<row, past, faults>> /\ tick[t].todo = {} /\ tick[t].cur = NoRow
  BY DEF StartPass, Free
<1>2. /\ tick'[t].pass = p /\ tick'[t].cur = NoRow
      /\ tick'[t].todo = {q \in Row : Wanted(q, Passes[p])}
      /\ \A u \in Tick \ {t} : tick'[u] = tick[u]
  BY <1>0, <1>1 DEF TypeOK, TickState
<1>3. Marking(r, k)' = Marking(r, k) /\ t \notin Listing(r, k) /\ t \notin Marking(r, k)
  BY <1>0, <1>1, <1>2 DEF Marking, Listing
<1>4. CASE ~Wanted(r, Passes[p]) \/ Passes[p] # k
  <2>1. Listing(r, k)' = Listing(r, k)
    BY <1>2, <1>3, <1>4 DEF Listing
  <2> QED
    BY <1>0, <1>1, <1>3, <2>1, CountKept, Countable
<1>5. CASE Wanted(r, Passes[p]) /\ Passes[p] = k
  <2>1. Listing(r, k)' = Listing(r, k) \cup {t}
    BY <1>2, <1>5 DEF Listing
  <2>2. k \notin row[r].marked
    BY <1>5 DEF Wanted
  <2>3. past[r].sent[k] <= Cardinality(Marking(r, k)) + faults
    BY <2>2 DEF Count
  <2>4. Listing(r, k)' \cap Marking(r, k) = {}
    BY <1>3, <2>1 DEF Listing, Marking, Apart
  <2>5. Listing(r, k)' \cup Marking(r, k) \in SUBSET Tick
    BY <2>1 DEF Listing, Marking
  <2>6. Cardinality(Listing(r, k)' \cup Marking(r, k)) <= Cardinality(Tick)
    BY <2>5, FS_Subset, FollowUpConstants
  <2>7. Cardinality(Listing(r, k)' \cup Marking(r, k)) =
          Cardinality(Listing(r, k)') + Cardinality(Marking(r, k))
                                      - Cardinality(Listing(r, k)' \cap Marking(r, k))
    BY <1>0, Countable, CountableNext, FS_Union
  <2>8. Cardinality(Listing(r, k)' \cap Marking(r, k)) = 0
    BY <2>4, FS_EmptySet
  <2>9. /\ Cardinality(Listing(r, k)') \in Nat /\ Cardinality(Marking(r, k)) \in Nat
        /\ Cardinality(Tick) \in Nat /\ past[r].sent[k] \in Nat /\ faults \in Nat
    BY <1>0, Countable, CountableNext
  <2>10. past[r].sent[k] + Cardinality(Listing(r, k)') <= Cardinality(Tick) + faults
    BY <2>3, <2>6, <2>7, <2>8, <2>9
  <2> QED
    BY <1>1, <1>3, <2>3, <2>10 DEF Count
<1> QED
  BY <1>4, <1>5

\* A reminder sent moves the tick from listing the row to marking it.
LEMMA CountRemind ==
  ASSUME IInv, TypeOK', NEW t \in Tick, NEW q \in Row, Remind(t, q),
         NEW r \in Row, NEW k \in Kind, Count(r, k)
  PROVE  Count(r, k)'
<1> DEFINE j == Passes[tick[t].pass]
<1>0. TypeOK /\ NoRow \notin Row
  BY FollowUpConstants DEF IInv
<1>1. /\ tick' = [tick EXCEPT ![t].todo = @ \ {q}, ![t].cur = q]
      /\ past' = [past EXCEPT ![q].sent[j] = @ + 1]
      /\ UNCHANGED <<row, faults>> /\ q \in tick[t].todo /\ tick[t].cur = NoRow
  BY DEF Remind
<1>2. /\ tick'[t].pass = tick[t].pass /\ tick'[t].cur = q
      /\ tick'[t].todo = tick[t].todo \ {q}
      /\ \A u \in Tick \ {t} : tick'[u] = tick[u]
  BY <1>0, <1>1 DEF TypeOK, TickState
<1>3. CASE r # q \/ j # k
  <2>1. ASSUME NEW u \in Tick
        PROVE  /\ u \in Listing(r, k)' <=> u \in Listing(r, k)
               /\ u \in Marking(r, k)' <=> u \in Marking(r, k)
    <3>1. CASE u = t
      <4>1. CASE r # q
        BY <1>0, <1>1, <1>2, <3>1, <4>1 DEF Listing, Marking
      <4>2. CASE j # k
        BY <1>2, <3>1, <4>2 DEF Listing, Marking
      <4> QED
        BY <1>3, <4>1, <4>2
    <3>2. CASE u # t
      BY <1>2, <3>2 DEF Listing, Marking
    <3> QED
      BY <3>1, <3>2
  <2>2. Listing(r, k)' = Listing(r, k) /\ Marking(r, k)' = Marking(r, k)
    BY <2>1 DEF Listing, Marking
  <2>3. past'[r].sent[k] = past[r].sent[k]
    BY <1>0, <1>1, <1>3 DEF TypeOK, History
  <2> QED
    BY <1>0, <1>1, <2>2, <2>3, CountKept, Countable
<1>4. CASE r = q /\ j = k
  <2>1. /\ t \in Listing(r, k) /\ Listing(r, k)' = Listing(r, k) \ {t}
        /\ t \notin Marking(r, k) /\ Marking(r, k)' = Marking(r, k) \cup {t}
    BY <1>0, <1>1, <1>2, <1>4 DEF Listing, Marking
  <2>2. past'[r].sent[k] = past[r].sent[k] + 1
    BY <1>0, <1>1, <1>4 DEF TypeOK, History
  <2>3. Cardinality(Listing(r, k)') = Cardinality(Listing(r, k)) - 1
    BY <1>0, <2>1, Countable, FS_RemoveElement
  <2>4. Cardinality(Marking(r, k)') = Cardinality(Marking(r, k)) + 1
    BY <1>0, <2>1, Countable, FS_AddElement
  <2>5. /\ Cardinality(Listing(r, k)) \in Nat /\ Cardinality(Marking(r, k)) \in Nat
        /\ Cardinality(Tick) \in Nat /\ past[r].sent[k] \in Nat /\ faults \in Nat
    BY <1>0, Countable
  <2>6. /\ past[r].sent[k] + Cardinality(Listing(r, k)) <= Cardinality(Tick) + faults
        /\ k \notin row[r].marked =>
              past[r].sent[k] <= Cardinality(Marking(r, k)) + faults
    BY DEF Count
  <2>7. past'[r].sent[k] + Cardinality(Listing(r, k)') <= Cardinality(Tick) + faults
    BY <2>2, <2>3, <2>5, <2>6
  <2>8. k \notin row[r].marked =>
           past'[r].sent[k] <= Cardinality(Marking(r, k)') + faults
    BY <2>2, <2>4, <2>5, <2>6
  <2> QED
    BY <1>1, <2>7, <2>8 DEF Count
<1> QED
  BY <1>3, <1>4

\* The row a tick stops marking is marked from then on.
LEMMA CountMark ==
  ASSUME IInv, TypeOK', NEW t \in Tick, Mark(t), NEW r \in Row, NEW k \in Kind,
         Count(r, k)
  PROVE  Count(r, k)'
<1> DEFINE j == Passes[tick[t].pass]
           c == tick[t].cur
<1>0. TypeOK /\ NoRow \notin Row
  BY FollowUpConstants DEF IInv
<1>1. /\ tick' = [tick EXCEPT ![t].cur = NoRow]
      /\ row' = [row EXCEPT ![c].marked = @ \cup {j}]
      /\ UNCHANGED <<past, faults>> /\ c # NoRow
  BY DEF Mark
<1>2. /\ tick'[t].pass = tick[t].pass /\ tick'[t].cur = NoRow
      /\ tick'[t].todo = tick[t].todo
      /\ \A u \in Tick \ {t} : tick'[u] = tick[u]
  BY <1>0, <1>1 DEF TypeOK, TickState
<1>3. Listing(r, k)' = Listing(r, k)
  BY <1>2 DEF Listing
<1>4. row[r].marked \subseteq row'[r].marked
  BY <1>0, <1>1 DEF TypeOK, FollowUp
<1>5. CASE r = c /\ j = k
  <2>1. k \in row'[r].marked
    BY <1>0, <1>1, <1>5 DEF TypeOK, FollowUp
  <2> QED
    BY <1>0, <1>1, <1>3, <2>1, CountKept, Countable
<1>6. CASE r # c \/ j # k
  <2>1. Marking(r, k)' = Marking(r, k)
    BY <1>0, <1>2, <1>6 DEF Marking
  <2> QED
    BY <1>0, <1>1, <1>3, <1>4, <2>1, CountKept, Countable
<1> QED
  BY <1>5, <1>6

\* A tick that dies takes one sending with it that nothing marks.
LEMMA CountFails ==
  ASSUME IInv, TypeOK', NEW t \in Tick, TickFails(t), NEW r \in Row, NEW k \in Kind,
         Count(r, k)
  PROVE  Count(r, k)'
<1>0. TypeOK /\ NoRow \notin Row
  BY FollowUpConstants DEF IInv
<1>1. tick' = [tick EXCEPT ![t] = Waiting] /\ UNCHANGED <<row, past>> /\ faults' = faults + 1
  BY DEF TickFails
<1>2. /\ tick'[t].todo = {} /\ tick'[t].cur = NoRow
      /\ \A u \in Tick \ {t} : tick'[u] = tick[u]
  BY <1>0, <1>1 DEF TypeOK, Waiting
<1>3. Listing(r, k)' \subseteq Listing(r, k) /\ Marking(r, k)' = Marking(r, k) \ {t}
  BY <1>0, <1>2 DEF Listing, Marking
<1>4. Cardinality(Marking(r, k)) <= Cardinality(Marking(r, k)') + 1
  <2>1. CASE t \in Marking(r, k)
    <3>1. Cardinality(Marking(r, k)') = Cardinality(Marking(r, k)) - 1
      BY <1>0, <1>3, <2>1, Countable, FS_RemoveElement
    <3> QED
      BY <1>0, <3>1, Countable
  <2>2. CASE t \notin Marking(r, k)
    <3>1. Marking(r, k)' = Marking(r, k)
      BY <1>3, <2>2
    <3> QED
      BY <1>0, <3>1, Countable
  <2> QED
    BY <2>1, <2>2
<1>5. /\ Cardinality(Marking(r, k)) \in Nat /\ Cardinality(Marking(r, k)') \in Nat
      /\ faults \in Nat
  BY <1>0, Countable, CountableNext
<1>6. Cardinality(Marking(r, k)) + faults <= Cardinality(Marking(r, k)') + faults'
  BY <1>1, <1>4, <1>5
<1>7. faults' >= faults
  BY <1>1, <1>5
<1> QED
  BY <1>0, <1>1, <1>3, <1>6, <1>7, CountKept

LEMMA CountStep == IInv /\ Apart /\ RemindersCounted /\ [Next]_vars => Apart' /\ RemindersCounted'
<1> SUFFICES ASSUME IInv, Apart, RemindersCounted, [Next]_vars
             PROVE  Apart' /\ RemindersCounted'
  OBVIOUS
<1>0. TypeOK /\ TypeOK' /\ NoRow \notin Row /\ faults \in Nat
  BY InvStep, FollowUpConstants DEF IInv, TypeOK
<1>1. Apart'
  <2>1. ASSUME NEW t \in Tick, StartPass(t) PROVE Apart'
    <3>1. /\ tick'[t].cur = NoRow /\ tick'[t].todo \subseteq Row
          /\ \A u \in Tick \ {t} : tick'[u] = tick[u]
      BY <1>0, <2>1 DEF StartPass, Free, TypeOK, TickState
    <3> QED
      BY <1>0, <3>1 DEF Apart
  <2>2. ASSUME NEW t \in Tick, NEW r \in Row, Remind(t, r) PROVE Apart'
    <3>1. /\ tick'[t].cur = r /\ tick'[t].todo = tick[t].todo \ {r}
          /\ \A u \in Tick \ {t} : tick'[u] = tick[u]
      BY <1>0, <2>2 DEF Remind, TypeOK, TickState
    <3> QED
      BY <3>1 DEF Apart
  <2>3. ASSUME NEW t \in Tick, Mark(t) PROVE Apart'
    BY <1>0, <2>3 DEF Mark, Apart, TypeOK, TickState
  <2>4. ASSUME NEW t \in Tick, EndTick(t) \/ TickFails(t) PROVE Apart'
    BY <1>0, <2>4 DEF EndTick, TickFails, Waiting, Apart, TypeOK
  <2>5. CASE UNCHANGED tick
    BY <2>5 DEF Apart
  <2>6. People => UNCHANGED tick
    BY <1>0, PeopleHandled DEF Handled
  <2> QED
    BY <2>1, <2>2, <2>3, <2>4, <2>5, <2>6
    DEF Next, Clock, workers, Reminders, Scanner, Claim, Tell, ScanFails, vars
<1>2. ASSUME NEW r \in Row, NEW k \in Kind PROVE Count(r, k)'
  <2>1. Count(r, k)
    BY DEF RemindersCounted, Count
  <2>2. CASE People
    <3>1. UNCHANGED <<tick, faults>> /\ (Kept(r) \/ Afresh(r) \/ Again(r))
      BY <1>0, <2>2, PeopleHandled DEF Handled
    <3>2. \/ past'[r].sent[k] = past[r].sent[k] /\ row'[r].marked = row[r].marked
          \/ past'[r].sent[k] = 0
      BY <1>0, <3>1, Rows DEF Kept, Afresh, Again, NoHistory, Replanned, History
    <3> QED
      BY <1>0, <2>1, <3>1, <3>2, CountOthers
  <2>3. CASE Scanner
    <3>1. UNCHANGED tick /\ faults' >= faults
      BY <1>0, <2>3 DEF Scanner, Claim, Tell, ScanFails
    <3>2. past'[r].sent = past[r].sent /\ row'[r].marked = row[r].marked
      <4>1. CASE Claim
        BY <1>0, <4>1, Rows DEF Claim, FollowUp, History
      <4>2. ASSUME NEW q \in Row, Tell(q)
            PROVE  past'[r].sent = past[r].sent /\ row'[r].marked = row[r].marked
        BY <1>0, <4>2, Rows DEF Tell, History
      <4>3. CASE ScanFails
        BY <1>0, <4>3, Rows DEF ScanFails, History
      <4> QED
        BY <2>3, <4>1, <4>2, <4>3 DEF Scanner
    <3> QED
      BY <1>0, <2>1, <3>1, <3>2, CountOthers
  <2>4. CASE Clock \/ UNCHANGED vars
    <3>1. UNCHANGED <<row, tick, past, faults>>
      BY <2>4 DEF Clock, workers, vars
    <3> QED
      BY <1>0, <2>1, <3>1, CountOthers
  <2>5. ASSUME NEW t \in Tick, EndTick(t) PROVE Count(r, k)'
    <3>1. /\ tick' = [tick EXCEPT ![t] = Waiting] /\ UNCHANGED <<row, past, faults>>
          /\ tick[t].todo = {} /\ tick[t].cur = NoRow
      BY <2>5 DEF EndTick, Free
    <3>2. /\ tick'[t].todo = {} /\ tick'[t].cur = NoRow
          /\ \A u \in Tick \ {t} : tick'[u] = tick[u]
      BY <1>0, <3>1 DEF TypeOK, Waiting
    <3>3. Listing(r, k)' = Listing(r, k) /\ Marking(r, k)' = Marking(r, k)
      BY <1>0, <3>1, <3>2 DEF Listing, Marking
    <3> QED
      BY <1>0, <2>1, <3>1, <3>3, CountKept, Countable
  <2>6. CASE Reminders
    BY <1>0, <2>1, <2>5, <2>6, CountStartPass, CountRemind, CountMark, CountFails
    DEF Reminders
  <2> QED
    BY <2>2, <2>3, <2>4, <2>6 DEF Next
<1>3. RemindersCounted'
  BY <1>2 DEF RemindersCounted, Count
<1> QED
  BY <1>1, <1>3

\* The counts of RemindersCounted, in every reachable state.
THEOREM Counting == Spec => [](Apart /\ RemindersCounted)
<1>1. Init => Apart /\ RemindersCounted
  <2> SUFFICES ASSUME Init PROVE Apart /\ RemindersCounted
    OBVIOUS
  <2>1. Apart
    BY DEF Init, Waiting, Apart
  <2>2. ASSUME NEW r \in Row, NEW k \in Kind PROVE Count(r, k)
    <3>1. past[r].sent[k] = 0
      BY DEF Init, NoHistory
    <3>2. /\ Cardinality(Listing(r, k)) \in Nat /\ Cardinality(Marking(r, k)) \in Nat
          /\ Cardinality(Listing(r, k)) <= Cardinality(Tick)
          /\ Cardinality(Tick) \in Nat /\ faults \in Nat
      BY TypeInit, Countable
    <3> QED
      BY <3>1, <3>2 DEF Count
  <2> QED
    BY <2>1, <2>2 DEF RemindersCounted, Count
<1>2. IInv /\ (Apart /\ RemindersCounted) /\ [Next]_vars => (Apart /\ RemindersCounted)'
  BY CountStep
<1> QED
  BY <1>1, <1>2, Inductive, PTL DEF Spec

-----------------------------------------------------------------------------
(* Theorems *)

\* Every write of a route, a tick or the scanner keeps the rows' columns and
\* the workers' hands well typed.
THEOREM TypeCorrect == Spec => []TypeOK
<1>1. IInv => TypeOK
  BY DEF IInv
<1> QED
  BY Inductive, <1>1, PTL

\* However many ticks overlap: a flag of a follow-up that no worker held when
\* it was rescheduled stands for a reminder sent since.
THEOREM CycleIsFresh == Spec => []FreshCycle
<1>1. IInv => FreshCycle
  BY DEF IInv
<1> QED
  BY Inductive, <1>1, PTL

\* The scanner claims a planned follow-up once and tells of it once, unless
\* its pass dies holding it.
THEOREM MissedToldOnce == Spec => []MissedTold
<1>1. IInv => MissedTold
  BY DEF IInv
<1> QED
  BY Inductive, <1>1, PTL

\* However ticks overlap and die, and whatever people change between a SELECT,
\* a sending and a mark: one planning of a follow-up is reminded of at most once
\* for each tick that may overlap and each death.
THEOREM RemindersAlwaysBounded == Spec => []RemindersBounded
<1>1. TypeOK /\ RemindersCounted => RemindersBounded
  <2> SUFFICES ASSUME TypeOK, RemindersCounted, NEW r \in Row, NEW k \in Kind
               PROVE  past[r].sent[k] <= Cardinality(Tick) + faults
    BY DEF RemindersBounded
  <2>1. past[r].sent[k] + Cardinality(Listing(r, k)) <= Cardinality(Tick) + faults
    BY DEF RemindersCounted
  <2>2. /\ past[r].sent[k] \in Nat /\ Cardinality(Listing(r, k)) \in Nat
        /\ Cardinality(Tick) \in Nat /\ faults \in Nat
    BY Countable
  <2> QED
    BY <2>1, <2>2
<1> QED
  BY <1>1, Counting, TypeCorrect, PTL
=============================================================================
