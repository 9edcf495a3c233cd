------------------------------ MODULE FollowUps ------------------------------
(***************************************************************************)
(* The follow-ups of one lead, the reminders of them and the notice that   *)
(* one was missed.                                                         *)
(*                                                                         *)
(* Source: src/src/modules/follow-ups/routes.js, the writers of            *)
(* lead_followups in leads/repo.js, leads/service.js and                   *)
(* admissions/service.js, and the two timers in src/src/workers:           *)
(* followup-reminder-scheduler.js, whose ticks select, send and mark       *)
(* statement by statement and may overlap, and missed-followup-scanner.js, *)
(* which claims rows with one UPDATE and tells people afterwards.  A tick  *)
(* or a scan that throws, or dies with its process, drops what it holds.   *)
(* Who hears a reminder, masked names and the timeline are left out.       *)
(***************************************************************************)
EXTENDS Naturals, Sequences, FiniteSets

CONSTANTS
    Row,        \* rows lead_followups may come to hold for the lead
    Stage, Note,
    NoRow, NoStage, NoDue,
    Tick,       \* ticks of the reminder timer that may overlap
    Passes,     \* what a tick goes through, the overdue pass last
    Ahead,      \* how long before the due time each of the others fires
    Horizon,    \* bound on the clock
    MaxFaults   \* bound on ticks and scans that die half way

Overdue == "overdue"
Kind == {Passes[i] : i \in 1..Len(Passes)}

ASSUME FollowUpConstants ==
    /\ NoRow \notin Row /\ IsFiniteSet(Tick)
    /\ NoStage \notin Stage /\ NoDue \notin Nat
    /\ Passes \in Seq(STRING)
    /\ Ahead \in [Kind -> Nat]
    /\ Horizon \in Nat /\ MaxFaults \in Nat

VARIABLES
    now,
    row,     \* lead_followups
    tick,    \* the ticks under way: pass, rows selected, row sent but not marked
    scan,    \* rows the scanner has claimed and not yet told of
    past,    \* history of each row, for the properties
    faults   \* ticks and scans that died

vars == <<now, row, tick, scan, past, faults>>
workers == <<tick, scan, faults>>

-----------------------------------------------------------------------------
Time == 0..Horizon
Due == Time \cup {NoDue}
Status == {"planned", "done", "missed", "cancelled"}

\* deleted_at is folded into the status; "slot": slot_index is not null;
\* "marked": the *_sent_at and overdue_notified_at columns that are not null.
FollowUp == [status : Status \cup {"absent", "deleted"}, due : Due, slot : BOOLEAN,
             stage : Stage \cup {NoStage}, note : Note, marked : SUBSET Kind]
TickState == [pass : 0..Len(Passes), todo : SUBSET Row, cur : Row \cup {NoRow}]
Waiting == [pass |-> 0, todo |-> {}, cur |-> NoRow]

\* Since the row was last planned: the reminders sent, the claims of the
\* scanner, the notices given, whether one was dropped, and whether a tick or
\* the scanner held the row when it was planned again.
History == [sent : [Kind -> Nat], claimed : Nat, told : Nat, lost : BOOLEAN,
            crossed : BOOLEAN]
NoHistory == [sent |-> [k \in Kind |-> 0], claimed |-> 0, told |-> 0,
              lost |-> FALSE, crossed |-> FALSE]

Init ==
    /\ now = 0
    /\ \E n \in Note : row = [r \in Row |->
           [status |-> "absent", due |-> NoDue, slot |-> FALSE, stage |-> NoStage,
            note |-> n, marked |-> {}]]
    /\ tick = [t \in Tick |-> Waiting]
    /\ scan = {}
    /\ past = [r \in Row |-> NoHistory]
    /\ faults = 0

-----------------------------------------------------------------------------
(* What people do with follow-ups *)

Live(r) == row[r].status \in Status
Planned(r) == row[r].status = "planned"

\* The unique index lead_followups_no_dup_open, which NULL due times escape.
NoTwins(table) ==
    \A p, q \in Row :
        /\ p # q /\ table[p].due = table[q].due /\ table[p].due # NoDue
        /\ table[p].status = "planned" /\ table[q].status = "planned"
        => table[p].note # table[q].note

Save(table) ==
    /\ NoTwins(table)
    /\ row' = table
    /\ UNCHANGED <<now, workers>>

\* POST /follow-ups, a call's disposition, a workflow, and the insert that
\* follows a stage change.  On a conflict nothing is written.
Create(r) ==
    /\ row[r].status = "absent"
    /\ \E due \in Time, s \in Stage \cup {NoStage}, n \in Note :
           Save([row EXCEPT ![r] = [@ EXCEPT !.status = "planned", !.due = due,
                                             !.stage = s, !.note = n]])
    /\ UNCHANGED past

\* PUT /follow-ups/:id touches neither the status nor the marks.
Edit(r) ==
    /\ Live(r)
    /\ \E due \in Time \cup {row[r].due}, s \in Stage \cup {row[r].stage}, n \in Note :
           Save([row EXCEPT ![r] = [@ EXCEPT !.due = due, !.stage = s, !.note = n]])
    /\ UNCHANGED past

Close(r, status) ==
    /\ Save([row EXCEPT ![r] = [@ EXCEPT !.status = status]])
    /\ UNCHANGED past

Complete(r) == Live(r) /\ Close(r, "done")

Cancel(r) == row[r].status \in {"planned", "missed"} /\ Close(r, "cancelled")

\* deleted_at is set: no query reads the row again, so its columns are dropped.
Deleted(r) == [row[r] EXCEPT !.status = "deleted", !.due = NoDue, !.slot = FALSE,
                             !.stage = NoStage]

Delete(r) ==
    /\ Live(r)
    /\ Save([row EXCEPT ![r] = Deleted(r)])
    /\ UNCHANGED past

Held(r) == r \in scan \/ \E t \in Tick : r \in tick[t].todo \/ tick[t].cur = r

\* Mutant: the overdue flag survives.
RescheduledButOverdue(r, due) ==
    [row[r] EXCEPT !.status = "planned", !.due = due, !.marked = @ \cap {Overdue}]

\* The UPDATE of POST /:id/reschedule.
Rescheduled(r, due) ==
    [row[r] EXCEPT !.status = "planned", !.due = due, !.marked = {}]

Reschedule(r) ==
    /\ Live(r)
    /\ \E due \in Time : Save([row EXCEPT ![r] = Rescheduled(r, due)])
    /\ past' = [past EXCEPT ![r] = [NoHistory EXCEPT !.crossed = Held(r)]]

\* The sweep of a stage change: planned rows of the stage it left, as it read
\* it, and those of no stage.
Sweep(s) ==
    /\ Save([r \in Row |-> IF Planned(r) /\ row[r].stage \in {s, NoStage}
                             THEN [row[r] EXCEPT !.status = "done"] ELSE row[r]])
    /\ UNCHANGED past

\* A dropped admission cancels what is planned for its lead.
DropAdmission ==
    /\ Save([r \in Row |-> IF Planned(r)
                             THEN [row[r] EXCEPT !.status = "cancelled"] ELSE row[r]])
    /\ UNCHANGED past

\* What one slot of the payload writes; without a date it stays planned.
\* The marks are left as they are.
SlotRow(r, s, due, status, n) ==
    [row[r] EXCEPT !.status = IF due = NoDue THEN "planned" ELSE status,
                   !.due = due, !.slot = TRUE, !.stage = s, !.note = n]

Existing(s) == {r \in Row : Live(r) /\ row[r].slot /\ row[r].stage = s}

SlotTable(s, kept, due, status, n) ==
    [r \in Row |->
        CASE r \in kept -> SlotRow(r, s, due[r], status[r], n[r])
          [] r \in Existing(s) \ kept -> Deleted(r)
          [] OTHER -> row[r]]

\* History: a slot saved as planned is planned again, though its marks stay.
Replanned(r) == [past[r] EXCEPT !.claimed = 0, !.told = 0, !.lost = FALSE,
                                !.crossed = @ \/ Held(r)]

\* replaceFollowupsForStage, one transaction: slots of the stage that the
\* payload leaves out are deleted, the others updated or inserted.
SaveSlots(s) ==
    \E kept \in SUBSET (Existing(s) \cup {r \in Row : row[r].status = "absent"}) :
    \E due \in [kept -> Due], status \in [kept -> Status], n \in [kept -> Note] :
        LET new == SlotTable(s, kept, due, status, n)
        IN  /\ Save(new)
            /\ past' = [r \in Row |-> IF r \in kept /\ new[r].status = "planned"
                                        THEN Replanned(r) ELSE past[r]]

\* upsertAdHocPlannedFollowup: a planned ad-hoc row is given another date and
\* note; when there is none it inserts one (as Create does, or without a date).
SaveAdHoc(r) ==
    /\ \/ Planned(r) /\ ~row[r].slot
       \/ row[r].status = "absent" /\ \A p \in Row : Planned(p) => row[p].slot
    /\ \E due \in Due, s \in Stage \cup {row[r].stage}, n \in Note :
           Save([row EXCEPT ![r] = [@ EXCEPT !.status = "planned", !.due = due,
                                             !.stage = s, !.note = n]])
    /\ UNCHANGED past

-----------------------------------------------------------------------------
(* A tick of the reminder timer *)

InWindow(r, k) ==
    /\ row[r].due # NoDue
    /\ \/ k = Overdue /\ row[r].due < now
       \/ k # Overdue /\ row[r].due \in now..(now + Ahead[k])

\* Mutant: the pass forgets what it has marked.
WantedAgain(r, k) == Planned(r) /\ InWindow(r, k)

\* The SELECT of a pass.
Wanted(r, k) == Planned(r) /\ k \notin row[r].marked /\ InWindow(r, k)

Free(t) == tick[t].todo = {} /\ tick[t].cur = NoRow

StartPass(t) ==
    /\ Free(t) /\ tick[t].pass < Len(Passes)
    /\ LET p == tick[t].pass + 1
       IN  tick' = [tick EXCEPT ![t].pass = p,
                                ![t].todo = {r \in Row : Wanted(r, Passes[p])}]
    /\ UNCHANGED <<now, row, scan, past, faults>>

\* One row of the result: its recipients are told ...
Remind(t, r) ==
    /\ tick[t].cur = NoRow /\ r \in tick[t].todo
    /\ tick' = [tick EXCEPT ![t].todo = @ \ {r}, ![t].cur = r]
    /\ past' = [past EXCEPT ![r].sent[Passes[tick[t].pass]] = @ + 1]
    /\ UNCHANGED <<now, row, scan, faults>>

\* ... and the row is marked by its id alone.
Mark(t) ==
    /\ tick[t].cur # NoRow
    /\ row' = [row EXCEPT ![tick[t].cur].marked = @ \cup {Passes[tick[t].pass]}]
    /\ tick' = [tick EXCEPT ![t].cur = NoRow]
    /\ UNCHANGED <<now, scan, past, faults>>

EndTick(t) ==
    /\ Free(t) /\ tick[t].pass = Len(Passes) /\ Len(Passes) > 0
    /\ tick' = [tick EXCEPT ![t] = Waiting]
    /\ UNCHANGED <<now, row, scan, past, faults>>

\* The catch around the tick, or the end of its process.
TickFails(t) ==
    /\ faults < MaxFaults /\ ~Free(t)
    /\ tick' = [tick EXCEPT ![t] = Waiting]
    /\ faults' = faults + 1
    /\ UNCHANGED <<now, row, scan, past>>

-----------------------------------------------------------------------------
(* A pass of the missed-follow-up scanner, which ends before the next one
   begins: the timer fires every five minutes. *)

\* Mutants: rows that are missed already are claimed again; rows whose overdue
\* notice went out are left alone.
OverdueAny(r) == Live(r) /\ row[r].due # NoDue /\ row[r].due < now
OverdueUnsaid(r) ==
    /\ Planned(r) /\ row[r].due # NoDue /\ row[r].due < now
    /\ Overdue \notin row[r].marked

\* The WHERE clause of the claim.
OverdueRow(r) == Planned(r) /\ row[r].due # NoDue /\ row[r].due < now

Claim ==
    LET hits == {r \in Row : OverdueRow(r)}
    IN  /\ scan = {} /\ hits # {}
        /\ row' = [r \in Row |-> IF r \in hits THEN [row[r] EXCEPT !.status = "missed"]
                                 ELSE row[r]]
        /\ scan' = hits
        /\ past' = [r \in Row |-> IF r \in hits
                                    THEN [past[r] EXCEPT !.claimed = @ + 1] ELSE past[r]]
        /\ UNCHANGED <<now, tick, faults>>

Tell(r) ==
    /\ r \in scan
    /\ scan' = scan \ {r}
    /\ past' = [past EXCEPT ![r].told = @ + 1]
    /\ UNCHANGED <<now, row, tick, faults>>

ScanFails ==
    /\ faults < MaxFaults /\ scan # {}
    /\ scan' = {}
    /\ past' = [r \in Row |-> IF r \in scan THEN [past[r] EXCEPT !.lost = TRUE]
                              ELSE past[r]]
    /\ faults' = faults + 1
    /\ UNCHANGED <<now, row, tick>>

-----------------------------------------------------------------------------
Clock == now < Horizon /\ now' = now + 1 /\ UNCHANGED <<row, workers, past>>

People ==
    \/ \E r \in Row : \/ Create(r) \/ Edit(r) \/ Complete(r) \/ Cancel(r)
                      \/ Delete(r) \/ Reschedule(r) \/ SaveAdHoc(r)
    \/ \E s \in Stage : Sweep(s) \/ SaveSlots(s)
    \/ DropAdmission

Reminders ==
    \E t \in Tick : \/ StartPass(t) \/ Mark(t) \/ EndTick(t) \/ TickFails(t)
                    \/ \E r \in Row : Remind(t, r)

Scanner == Claim \/ ScanFails \/ \E r \in Row : Tell(r)

Next == Clock \/ People \/ Reminders \/ Scanner

Spec == Init /\ [][Next]_vars

\* The scanner's timer keeps firing, and its pass runs on to its end.
FairSpec == Spec /\ WF_vars(Claim) /\ WF_vars(\E r \in Row : Tell(r))

-----------------------------------------------------------------------------
(* Properties *)

\* Every write of a route, a tick or the scanner keeps the row's columns and
\* the workers' hands well typed.
TypeOK ==
    /\ now \in Time
    /\ row \in [Row -> FollowUp]
    /\ tick \in [Tick -> TickState]
    /\ scan \in SUBSET Row
    /\ past \in [Row -> History]
    /\ faults \in 0..MaxFaults

\* A tick selects unmarked rows and marks them by id after sending: however
\* ticks overlap and die, and whatever people change between, one planning of
\* a follow-up is reminded of at most once per overlapping tick and death.
RemindersBounded ==
    \A r \in Row, k \in Kind : past[r].sent[k] <= Cardinality(Tick) + faults

\* What makes it inductive.  Reminders still to come are counted by the ticks
\* that have listed the row; while the row is unmarked, reminders gone out are
\* counted by the ticks about to mark it and by those that died before they did.
Listing(r, k) == {t \in Tick : r \in tick[t].todo /\ Passes[tick[t].pass] = k}
Marking(r, k) == {t \in Tick : r = tick[t].cur /\ Passes[tick[t].pass] = k}
RemindersCounted ==
    \A r \in Row, k \in Kind :
        /\ past[r].sent[k] + Cardinality(Listing(r, k)) <= Cardinality(Tick) + faults
        /\ k \notin row[r].marked =>
              past[r].sent[k] <= Cardinality(Marking(r, k)) + faults

\* "Reset BOTH reminder flags + overdue flag so the new due time gets a fresh
\* cycle": unless a worker held the row when it was rescheduled, no flag of
\* it is set for a reminder that was not sent since.
FreshCycle ==
    \A r \in Row, k \in Kind :
        k \in row[r].marked /\ ~past[r].crossed => past[r].sent[k] > 0

\* The scanner claims a follow-up once each time it is planned, and tells of
\* it once, unless its pass dies before it comes to that row.
MissedTold ==
    \A r \in Row :
        /\ past[r].claimed <= 1
        /\ ~past[r].crossed =>
               /\ past[r].told <= past[r].claimed
               /\ past[r].claimed = 1 => past[r].told = 1 \/ r \in scan \/ past[r].lost

\* "The missed-followup scanner will eventually catch a stale planned row",
\* whatever died before and however long the worker was down.
Chased ==
    \A r \in Row : (Planned(r) /\ row[r].due \in Nat /\ row[r].due < now)
                       ~> ~(Planned(r) /\ row[r].due \in Nat /\ row[r].due < now)
=============================================================================
