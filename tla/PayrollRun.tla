----------------------------- MODULE PayrollRun -----------------------------
(***************************************************************************)
(* One payroll run: the month's payslips are computed, reviewed, approved  *)
(* and paid, one disbursement per payslip, and the run is announced as     *)
(* complete when the last is paid.                                         *)
(*                                                                         *)
(* Every request is a sequence of statements that commit one by one (only  *)
(* replacePayslips and openDisbursements are transactions); requests       *)
(* interleave between them and may die there.  A payslip's figures are     *)
(* represented by its days without pay: "lop" is what leave says of them.  *)
(* Who may run or pay a payroll, the access log and reminders are left out.*)
(***************************************************************************)
EXTENDS Naturals, FiniteSets

CONSTANTS
    Staff,    \* people with a salary structure for the month
    Req,
    FollowMixed  \* bound: whether requests still begin once some have mixed

ASSUME PayrollConstants ==
    /\ IsFiniteSet(Staff) /\ Staff # {}
    /\ FollowMixed \in BOOLEAN

VARIABLES
    lop,     \* days without pay of each, from approved leave
    run,     \* the row of payroll_runs
    slip,    \* payslips of the run, one per person
    due,     \* payroll_disbursements, one per payslip
    req,
    payments,   \* history: how often each was marked paid
    completed,  \* history: how often a request announced completion
    mixed,      \* history: a computation or approval met another request
    cut         \* history: a request died half way

payVars == <<run, slip, due, req, payments, completed, mixed, cut>>

-----------------------------------------------------------------------------
NoSlip == [status |-> "none", lop |-> 0]
Slip == [status : {"none", "draft", "finalised", "paid"}, lop : Nat]
Phase == {"idle", "replace", "review", "approve", "finalise", "open",
          "slip", "progress", "count", "complete"}
Request == [phase : Phase, who : Staff, figures : [Staff -> Nat], all : BOOLEAN,
            paid : Nat]
Idle == [phase |-> "idle", who |-> CHOOSE s \in Staff : TRUE,
         figures |-> [s \in Staff |-> 0], all |-> FALSE, paid |-> 0]

Busy(q) == req[q].phase # "idle"
Free(q) == ~Busy(q) /\ (FollowMixed \/ ~mixed)
Computing == {"replace", "review"}
Approving == {"approve", "finalise", "open"}
Paying == {"slip", "progress", "count", "complete"}
\* Some other request is at one of the phases.
Met(phases) == \E p \in Req : req[p].phase \in phases

Goes(q, r) == req' = [req EXCEPT ![q] = r]
At(q, phase) == req[q].phase = phase
To(q, phase) == Goes(q, [req[q] EXCEPT !.phase = phase])
History == <<payments, completed, mixed, cut>>

Init ==
    /\ lop = [s \in Staff |-> 0]
    /\ run = [status |-> "draft", count |-> 0, paidCount |-> 0, notified |-> FALSE]
    /\ slip = [s \in Staff |-> NoSlip]
    /\ due = [s \in Staff |-> "none"]
    /\ req = [q \in Req |-> Idle]
    /\ payments = [s \in Staff |-> 0]
    /\ completed = 0 /\ mixed = FALSE /\ cut = FALSE

-----------------------------------------------------------------------------
(* compute *)

\* Mutant: an approved run may be recomputed.
RecomputableApproved == {"draft", "processing", "review", "approved"}

Recomputable == {"draft", "processing", "review"}

\* The run's status and the figures are read.
Compute(q) ==
    /\ Free(q) /\ run.status \in Recomputable
    /\ Goes(q, [Idle EXCEPT !.phase = "replace", !.figures = lop])
    /\ mixed' = (mixed \/ Met(Approving \cup Paying))
    /\ UNCHANGED <<lop, run, slip, due, payments, completed, cut>>

\* The old payslips go, and with them their disbursements; a payment under way
\* no longer finds its payslip.
replacePayslips(q) ==
    /\ At(q, "replace")
    /\ slip' = [s \in Staff |-> [status |-> "draft", lop |-> req[q].figures[s]]]
    /\ due' = [s \in Staff |-> "none"]
    /\ run' = [run EXCEPT !.count = Cardinality(Staff)]
    /\ req' = [p \in Req |->
           IF p = q THEN [req[q] EXCEPT !.phase = "review"]
           ELSE IF At(p, "slip") THEN [req[p] EXCEPT !.phase = "progress"] ELSE req[p]]
    /\ UNCHANGED <<lop, History>>

Review(q) ==
    /\ At(q, "review")
    /\ run' = [run EXCEPT !.status = "review"]
    /\ Goes(q, Idle)
    /\ UNCHANGED <<lop, slip, due, History>>

-----------------------------------------------------------------------------
(* approveRun *)

Approve(q) ==
    /\ Free(q) /\ run.status = "review" /\ run.count > 0
    /\ Goes(q, [Idle EXCEPT !.phase = "approve"])
    /\ mixed' = (mixed \/ Met(Computing \cup Approving \cup Paying))
    /\ UNCHANGED <<lop, run, slip, due, payments, completed, cut>>

setApproved(q) ==
    /\ At(q, "approve")
    /\ run' = [run EXCEPT !.status = "approved"]
    /\ To(q, "finalise")
    /\ UNCHANGED <<lop, slip, due, History>>

Finalise(q) ==
    /\ At(q, "finalise")
    /\ slip' = [s \in Staff |-> IF slip[s].status = "draft"
                                THEN [slip[s] EXCEPT !.status = "finalised"]
                                ELSE slip[s]]
    /\ To(q, "open")
    /\ UNCHANGED <<lop, run, due, History>>

\* One disbursement per payslip; one that exists keeps its status.
openDisbursements(q) ==
    /\ At(q, "open")
    /\ due' = [s \in Staff |-> IF slip[s].status # "none" /\ due[s] = "none"
                               THEN "pending" ELSE due[s]]
    /\ Goes(q, Idle)
    /\ UNCHANGED <<lop, run, slip, History>>

-----------------------------------------------------------------------------
(* markPaid *)

\* Mutant: the UPDATE does not exclude what is paid.
PayableAgain(s) == due[s] # "none"

Payable(s) == due[s] = "pending"

Pay(q, s) ==
    /\ Free(q) /\ Payable(s)
    /\ due' = [due EXCEPT ![s] = "paid"]
    /\ payments' = [payments EXCEPT ![s] = @ + 1]
    /\ Goes(q, [Idle EXCEPT !.phase = "slip", !.who = s])
    /\ mixed' = (mixed \/ Met(Computing))
    /\ UNCHANGED <<lop, run, slip, completed, cut>>

PaySlip(q) ==
    /\ At(q, "slip")
    /\ slip' = [slip EXCEPT ![req[q].who].status = "paid"]
    /\ To(q, "progress")
    /\ UNCHANGED <<lop, run, due, History>>

Open == {s \in Staff : due[s] # "none"}
Paid == {s \in Staff : due[s] = "paid"}

\* disbursementProgress: something is due, and all of it is paid.
AllPaid == Open # {} /\ Paid = Open

Progress(q) ==
    /\ At(q, "progress")
    /\ Goes(q, [req[q] EXCEPT !.phase = "count", !.all = AllPaid,
                              !.paid = Cardinality(Paid)])
    /\ UNCHANGED <<lop, run, slip, due, History>>

Count(q) ==
    /\ At(q, "count")
    /\ run' = [run EXCEPT !.paidCount = req[q].paid]
    /\ IF req[q].all THEN To(q, "complete") ELSE Goes(q, Idle)
    /\ UNCHANGED <<lop, slip, due, History>>

\* Mutant: whoever sees everything paid announces it.
FirstToCompleteAny == TRUE

\* completed_notified_at IS NULL
FirstToComplete == ~run.notified

Complete(q) ==
    /\ At(q, "complete")
    /\ IF FirstToComplete
       THEN /\ run' = [run EXCEPT !.status = "paid", !.notified = TRUE]
            /\ completed' = completed + 1
       ELSE UNCHANGED <<run, completed>>
    /\ Goes(q, Idle)
    /\ UNCHANGED <<lop, slip, due, payments, mixed, cut>>

-----------------------------------------------------------------------------
\* The process stops; nobody takes up what is left of the request.
Die(q) ==
    /\ Busy(q)
    /\ Goes(q, Idle)
    /\ cut' = TRUE
    /\ UNCHANGED <<lop, run, slip, due, payments, completed, mixed>>

\* All that touches no figures.
Onward(q) ==
    \/ Review(q)
    \/ Approve(q) \/ setApproved(q) \/ Finalise(q) \/ openDisbursements(q)
    \/ \E s \in Staff : Pay(q, s)
    \/ PaySlip(q) \/ Progress(q) \/ Count(q) \/ Complete(q)
    \/ Die(q)

Step == \E q \in Req : Compute(q) \/ replacePayslips(q) \/ Onward(q)

\* Leave is approved or cancelled.
LopChanges == lop' \in [Staff -> Nat] /\ UNCHANGED payVars

Next == Step \/ LopChanges

Spec == Init /\ [][Next]_<<lop, payVars>>

-----------------------------------------------------------------------------
(* Properties *)

\* The type invariant of payroll_runs, payslips and payroll_disbursements.
TypeOK ==
    /\ lop \in [Staff -> Nat]
    /\ run \in [status : {"draft", "review", "approved", "paid"}, count : Nat,
                paidCount : Nat, notified : BOOLEAN]
    /\ slip \in [Staff -> Slip] /\ due \in [Staff -> {"none", "pending", "paid"}]
    /\ req \in [Req -> Request]
    /\ payments \in [Staff -> Nat] /\ completed \in Nat
    /\ mixed \in BOOLEAN /\ cut \in BOOLEAN

\* Unless a computation or an approval ran beside another request, nobody's month
\* is paid twice, and what is paid is a payslip of an approved run (markPaid).
PaidOnce ==
    ~mixed => \A s \in Staff :
        /\ payments[s] = (IF due[s] = "paid" THEN 1 ELSE 0)
        /\ due[s] # "none" => run.status \in {"approved", "paid"}

\* Completion is announced at most once, whatever overlaps.  Unless requests
\* mixed, a run is paid only when everybody in it is, and it is once everybody is
\* and no request was cut short: of two last payments side by side, one sees
\* both (markPaid, completed_notified_at).
PaidWhenAllPaid ==
    /\ completed <= 1
    /\ ~mixed =>
        /\ run.status = "paid" => Paid = Staff
        /\ AllPaid /\ ~cut /\ (\A q \in Req : ~Busy(q)) => run.status = "paid"

\* Unless requests mixed, the figures of an approved run never change, whatever
\* happens to the leave they were computed from (compute, replacePayslips).
FiguresFrozen ==
    [][run.status \in {"approved", "paid"} /\ ~mixed'
        => \A s \in Staff : slip'[s].lop = slip[s].lop]_<<lop, payVars>>

-----------------------------------------------------------------------------
(* The invariant of the proofs *)

Unpaid == \A s \in Staff : due[s] = "none"
Locked == run.status \in {"approved", "paid"}

\* Which requests go together: a computation works on an open run, an approval
\* starts alone on one in review, a payment on an approved one.
PhasesAgree ==
    \A q \in Req :
        /\ req[q].phase \in Computing => ~Locked
        /\ req[q].phase = "approve" =>
               /\ run.status = "review" /\ run.count > 0
               /\ \A p \in Req \ {q} : req[p].phase \notin Computing \cup Approving
        /\ req[q].phase \in {"finalise", "open"} => Locked /\ run.count > 0
        /\ req[q].phase \in Paying => Locked

\* Payslips come for everybody at once, and so do disbursements, which are only
\* opened for an approved run and each paid at most once.
BooksAgree ==
    /\ run.count > 0 => \A s \in Staff : slip[s].status # "none"
    /\ Unpaid \/ (Locked /\ Open = Staff)
    /\ \A s \in Staff : payments[s] = IF due[s] = "paid" THEN 1 ELSE 0

\* The request has found everybody paid; it will look, or has found so.
Sees(q) == At(q, "complete") \/ (At(q, "count") /\ req[q].all)
WillSee(q) == At(q, "slip") \/ At(q, "progress") \/ Sees(q)

\* Whoever finds everybody paid is right, and completes the run; when everybody
\* is paid, somebody will have found it.
CompletionAgrees ==
    /\ \A q \in Req : Sees(q) => Paid = Staff
    /\ run.status = "paid" => Paid = Staff
    /\ run.notified => run.status = "paid"
    /\ Paid = Staff /\ ~cut => run.status = "paid" \/ \E q \in Req : WillSee(q)

AnnouncedOnce == completed = IF run.notified THEN 1 ELSE 0

IInv ==
    /\ TypeOK /\ AnnouncedOnce
    /\ ~mixed => PhasesAgree /\ BooksAgree /\ CompletionAgrees
=============================================================================
