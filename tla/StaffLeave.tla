----------------------------- MODULE StaffLeave -----------------------------
(***************************************************************************)
(* Leave requests of one member of staff: applying, the approval chain,    *)
(* cancelling, and what the balance is charged.                            *)
(*                                                                         *)
(* A request of the API reads, decides and then writes in one or more      *)
(* transactions; requests interleave between them, and may die there.  No  *)
(* UPDATE repeats the test the read made, so what the code promises holds  *)
(* for the leaves on which no two requests met: "torn" remembers the       *)
(* others.  Days are counted in half days.  Leave types of one balance are *)
(* one type; who may call which route is left to the roles below.          *)
(***************************************************************************)
EXTENDS Integers, Sequences, FiniteSets, FiniteSetsExt

CONSTANTS
    Leave,       \* the requests that may be filed
    Date,        \* spans of days; two leaves overlap when they have the same
    DayCounts,   \* lengths of a leave
    Quota,       \* annual_quota_days, opening and carried days included
    User, NoUser,
    Applicant,
    Lead, Hr, Super,  \* who resolveApprovalChain finds, or NoUser
    LeaveAdmins,
    Modes,       \* approval modes an admin may set for the applicant's role
    LeaveReq,    \* requests
    FollowTorn   \* bound: whether requests still begin on a torn leave

ASSUME StaffLeaveConstants ==
    /\ IsFiniteSet(Leave) /\ Leave # {} /\ Date # {}
    /\ DayCounts \subseteq Nat \ {0} /\ DayCounts # {} /\ Quota \in Nat
    /\ NoUser \notin User /\ Applicant \in User
    /\ {Lead, Hr, Super} \subseteq User \cup {NoUser}
    /\ LeaveAdmins \subseteq User
    /\ Modes \subseteq {"two_level", "hr_only", "lead_only", "none"}
    /\ FollowTorn \in BOOLEAN

VARIABLES
    leave,    \* staff_leave, each with its leave_approvals
    charged,  \* per leave, the sum of its rows of leave_ledger
    leaveReq,
    torn,     \* history: leaves on which two requests met, or one died
    rushed    \* history: an application was under way with another request

leaveVars == <<leave, charged, leaveReq, torn, rushed>>

-----------------------------------------------------------------------------
Span == [date : Date, days : DayCounts]
AnySpan == [date |-> CHOOSE d \in Date : TRUE, days |-> CHOOSE n \in DayCounts : TRUE]
ApprovalStep == [by : User, status : {"pending", "approved", "declined"}]
Chains == UNION {[1..n -> ApprovalStep] : n \in 0..2}
LeaveRow == [status : {"none", "pending", "approved", "declined", "cancelled"},
             span : Span, lop : Nat, steps : Chains]
Unfiled == [status |-> "none", span |-> AnySpan, lop |-> 0, steps |-> <<>>]

\* What a request remembers of what it read: the steps, the length charged.
LeaveRequest == [phase : {"idle", "insert", "decide", "refund", "cancel", "charge"},
            leave : Leave, who : User, span : Span, steps : Chains,
            pending : BOOLEAN, charge : Int]
AnyLeave == CHOOSE l \in Leave : TRUE
LeaveIdle == [phase |-> "idle", leave |-> AnyLeave, who |-> Applicant, span |-> AnySpan,
         steps |-> <<>>, pending |-> FALSE, charge |-> 0]

LeaveBusy(q) == leaveReq[q].phase # "idle"
\* A request at work on an existing leave.
On(q, l) == LeaveBusy(q) /\ leaveReq[q].phase # "insert" /\ leaveReq[q].leave = l
Followed(l) == FollowTorn \/ l \notin torn
Live(l) == leave[l].status \in {"pending", "approved"}

Total(w) == MapThenSumSet(LAMBDA l : w[l], Leave)

\* adjustBalance adds to used_days and to the ledger in one transaction: the
\* balance is the sum of the ledger.
Used == Total(charged)
PendingDays ==
    Total([l \in Leave |-> IF leave[l].status = "pending" THEN leave[l].span.days ELSE 0])
\* Mutant: pending requests are not held against the balance.
AvailableButPending == Quota - Used

Available == Quota - Used - PendingDays

LeaveInit ==
    /\ leave = [l \in Leave |-> Unfiled]
    /\ charged = [l \in Leave |-> 0]
    /\ leaveReq = [q \in LeaveReq |-> LeaveIdle]
    /\ torn = {} /\ rushed = FALSE

\* The history variables when q begins work on the leaves ls; the code keeps
\* neither.
Meets(ls) == torn' = torn \cup {l \in ls : \E q \in LeaveReq : On(q, l)}
Rushes(applying) ==
    rushed' = (rushed \/ \E p \in LeaveReq :
                            LeaveBusy(p) /\ (applying \/ leaveReq[p].phase = "insert"))

LeaveGoes(q, r) == leaveReq' = [leaveReq EXCEPT ![q] = r]

-----------------------------------------------------------------------------
(* Applying *)

OneStep(u) == IF u = NoUser THEN <<>> ELSE <<[by |-> u, status |-> "pending"]>>

\* The super admin stands in when nobody else is found, and is not the
\* applicant.
resolveApprovalChain(mode) ==
    LET found == CASE mode = "two_level" -> OneStep(Lead) \o OneStep(Hr)
                   [] mode = "hr_only" -> OneStep(Hr)
                   [] mode = "lead_only" -> OneStep(Lead)
    IN IF found = <<>> /\ Super # Applicant THEN OneStep(Super) ELSE found

\* The checks, all before the transaction.  Mode "none" is also how a leave
\* type that needs no approval behaves.
Apply(q, span, mode) ==
    /\ ~LeaveBusy(q)
    /\ ~\E l \in Leave : Live(l) /\ leave[l].span.date = span.date
    /\ span.days <= Available
    /\ LeaveGoes(q, [LeaveIdle EXCEPT !.phase = "insert", !.span = span,
                                      !.pending = mode # "none",
                                      !.steps = IF mode = "none" THEN <<>>
                                                ELSE resolveApprovalChain(mode)])
    /\ Rushes(TRUE)
    /\ UNCHANGED <<leave, charged, torn>>

\* insertLeave and its steps; an approved leave is charged next.
InsertLeave(q, l) ==
    /\ leaveReq[q].phase = "insert" /\ leave[l].status = "none"
    /\ leave' = [leave EXCEPT ![l] =
           [status |-> IF leaveReq[q].pending THEN "pending" ELSE "approved",
            span |-> leaveReq[q].span, lop |-> 0, steps |-> leaveReq[q].steps]]
    /\ LeaveGoes(q, IF leaveReq[q].pending THEN LeaveIdle
                    ELSE [LeaveIdle EXCEPT !.phase = "charge", !.leave = l,
                                           !.charge = leaveReq[q].span.days])
    /\ UNCHANGED <<charged, torn, rushed>>

-----------------------------------------------------------------------------
(* Deciding *)

\* The steps u may decide: its own, or any for a leave administrator.
Decidable(steps, u) ==
    {i \in DOMAIN steps : steps[i].status = "pending"
                          /\ (steps[i].by = u \/ u \in LeaveAdmins)}

\* findLeave, approvalSteps and the checks.
Decide(q, u, l) ==
    /\ ~LeaveBusy(q) /\ Followed(l)
    /\ leave[l].status = "pending" /\ u # Applicant
    /\ Decidable(leave[l].steps, u) # {}
    /\ LeaveGoes(q, [LeaveIdle EXCEPT !.phase = "decide", !.leave = l, !.who = u,
                                      !.steps = leave[l].steps])
    /\ Meets({l}) /\ Rushes(FALSE)
    /\ UNCHANGED <<leave, charged>>

Mine(q) == CHOOSE i \in Decidable(leaveReq[q].steps, leaveReq[q].who) :
               \A j \in Decidable(leaveReq[q].steps, leaveReq[q].who) : i <= j

\* Mutant: one approval is enough.
LastOfChainAny(q) == TRUE

\* Every other step was approved when the steps were read.
LastOfChain(q) ==
    \A i \in DOMAIN leaveReq[q].steps :
        i = Mine(q) \/ leaveReq[q].steps[i].status = "approved"

Decline(q) ==
    /\ leaveReq[q].phase = "decide"
    /\ leave' = [leave EXCEPT ![leaveReq[q].leave].status = "declined",
                              ![leaveReq[q].leave].steps[Mine(q)].status = "declined"]
    /\ LeaveGoes(q, LeaveIdle)
    /\ UNCHANGED <<charged, torn, rushed>>

ApproveStep(q) ==
    /\ leaveReq[q].phase = "decide" /\ ~LastOfChain(q)
    /\ leave' = [leave EXCEPT ![leaveReq[q].leave].steps[Mine(q)].status = "approved"]
    /\ LeaveGoes(q, LeaveIdle)
    /\ UNCHANGED <<charged, torn, rushed>>

\* Mutant: the days docked from the salary are charged as well.
ToChargeAll(days, lop) == days

\* commitBalance: what the balance pays of an approved leave.
ToCharge(days, lop) == days - lop

\* Mutant: the unpaid days are not compared with the leave's.
LopAllowedAny(lop, days) == TRUE

LopAllowed(lop, days) == lop <= days

\* The last step: the leave is approved, lop days of it unpaid, and the rest is
\* charged once the transaction has committed.
ApproveLeave(q, lop) ==
    LET l == leaveReq[q].leave IN
    /\ leaveReq[q].phase = "decide" /\ LastOfChain(q)
    /\ LopAllowed(lop, leave[l].span.days)
    /\ leave' = [leave EXCEPT ![l].status = "approved", ![l].lop = lop,
                              ![l].steps[Mine(q)].status = "approved"]
    /\ LET c == ToCharge(leave[l].span.days, lop)
       IN LeaveGoes(q, IF c <= 0 THEN LeaveIdle
                       ELSE [LeaveIdle EXCEPT !.phase = "charge", !.leave = l, !.charge = c])
    /\ UNCHANGED <<charged, torn, rushed>>

\* adjustBalance
Charge(q) ==
    /\ leaveReq[q].phase = "charge"
    /\ charged' = [charged EXCEPT ![leaveReq[q].leave] = @ + leaveReq[q].charge]
    /\ LeaveGoes(q, LeaveIdle)
    /\ UNCHANGED <<leave, torn, rushed>>

-----------------------------------------------------------------------------
(* Cancelling *)

Cancel(q, l) ==
    /\ ~LeaveBusy(q) /\ Followed(l) /\ Live(l)
    /\ LeaveGoes(q, [LeaveIdle EXCEPT !.leave = l,
           !.phase = IF leave[l].status = "approved" THEN "refund" ELSE "cancel"])
    /\ Meets({l}) /\ Rushes(FALSE)
    /\ UNCHANGED <<leave, charged>>

\* All the days are handed back, the unpaid ones too.
Refund(q) ==
    /\ leaveReq[q].phase = "refund"
    /\ charged' = [charged EXCEPT ![leaveReq[q].leave] =
                       @ - leave[leaveReq[q].leave].span.days]
    /\ LeaveGoes(q, [leaveReq[q] EXCEPT !.phase = "cancel"])
    /\ UNCHANGED <<leave, torn, rushed>>

cancelLeave(q) ==
    /\ leaveReq[q].phase = "cancel"
    /\ leave' = [leave EXCEPT ![leaveReq[q].leave].status = "cancelled"]
    /\ LeaveGoes(q, LeaveIdle)
    /\ UNCHANGED <<charged, torn, rushed>>

\* The process stops: between the decision and the charge, or the refund and
\* the cancellation, the rest is never done.
LeaveDie(q) ==
    /\ LeaveBusy(q)
    /\ LeaveGoes(q, LeaveIdle)
    /\ torn' = torn \cup (IF leaveReq[q].phase \in {"charge", "cancel"}
                          THEN {leaveReq[q].leave} ELSE {})
    /\ UNCHANGED <<leave, charged, rushed>>

LeaveNext ==
    \E q \in LeaveReq :
        \/ \E s \in Span, m \in Modes : Apply(q, s, m)
        \/ \E l \in Leave : InsertLeave(q, l) \/ Cancel(q, l)
        \/ \E l \in Leave, u \in User : Decide(q, u, l)
        \/ \E n \in DayCounts : \E lop \in 0..n : ApproveLeave(q, lop)
        \/ Decline(q) \/ ApproveStep(q) \/ Charge(q)
        \/ Refund(q) \/ cancelLeave(q) \/ LeaveDie(q)

LeaveSpec == LeaveInit /\ [][LeaveNext]_leaveVars

-----------------------------------------------------------------------------
(* Properties *)

\* The type invariant of staff_leave and leave_approvals, with the constraint
\* staff_leave_lop_days_chk: no more days are unpaid than the leave has.
LeaveTypeOK ==
    /\ leave \in [Leave -> LeaveRow]
    /\ \A l \in Leave : leave[l].status # "none" => leave[l].lop <= leave[l].span.days
    /\ charged \in [Leave -> Int]
    /\ leaveReq \in [LeaveReq -> LeaveRequest]
    /\ torn \subseteq Leave /\ rushed \in BOOLEAN

\* Nothing is owed any more: no charge, refund or cancellation is under way.
Settled(l) == l \notin torn /\ \A q \in LeaveReq : ~On(q, l)

\* A leave on which no two requests met is charged exactly while it is approved,
\* for its paid days; cancelling hands back all its days, so the unpaid ones are
\* what a cancelled leave leaves the balance too high by (commitBalance, cancel).
ChargedWhileApproved ==
    \A l \in Leave : Settled(l) =>
        charged[l] = (IF leave[l].status = "approved" THEN leave[l].span.days ELSE 0)
                     - leave[l].lop

\* The status of a leave is what its steps make of it.
Honoured(r) ==
    LET Some(x) == \E i \in DOMAIN r.steps : r.steps[i].status = x
    IN  /\ r.status = "approved" => ~Some("pending") /\ ~Some("declined")
        /\ r.status = "declined" => Some("declined")
        /\ r.status = "pending" => ~Some("declined") /\ (r.steps # <<>> => Some("pending"))

\* The chain is real: a leave on which no two requests met is approved when every
\* step is, declined when one is, and while it is pending one of its steps, if it
\* has any, is still to be decided (decide).
ChainHonoured == \A l \in Leave \ torn : Honoured(leave[l])

\* The paid days of the leaves that are asked for or taken, and the unpaid days of
\* those that were cancelled, which cancel hands back with the others.
PaidDays ==
    Total([l \in Leave |-> IF Live(l) THEN leave[l].span.days - leave[l].lop ELSE 0])
HandedBack ==
    Total([l \in Leave |-> IF leave[l].status = "cancelled" THEN leave[l].lop ELSE 0])

\* Unless an application ran beside another request, or a leave was torn, the paid
\* days that are asked for and taken exceed the quota by no more than the unpaid
\* days that cancelling handed back, and no two live leaves overlap (applyLeave's
\* two checks, made before its transaction).
BookedWithinQuota ==
    torn = {} /\ ~rushed =>
        /\ PaidDays <= Quota + HandedBack
        /\ \A l, k \in Leave : Live(l) /\ Live(k) /\ leave[l].span.date = leave[k].span.date
                               => l = k

-----------------------------------------------------------------------------
(* The invariant of the proofs *)

\* A leave that is worked on was filed; an application carries steps that nobody
\* has decided, and a decision one that is its to take.
RequestsSound ==
    \A q \in LeaveReq :
        /\ LeaveBusy(q) /\ leaveReq[q].phase # "insert"
               => leave[leaveReq[q].leave].status # "none"
        /\ leaveReq[q].phase = "insert" =>
               /\ \A i \in DOMAIN leaveReq[q].steps : leaveReq[q].steps[i].status = "pending"
               /\ ~leaveReq[q].pending => leaveReq[q].steps = <<>>
        /\ leaveReq[q].phase = "decide" => Decidable(leaveReq[q].steps, leaveReq[q].who) # {}

\* Who works on a leave that is not torn is alone there, and what it goes by is
\* still so.
Alone(l) == \A p, q \in LeaveReq : On(p, l) /\ On(q, l) => p = q
Informed(q, l) ==
    /\ leaveReq[q].phase = "decide" =>
           leave[l].status = "pending" /\ leaveReq[q].steps = leave[l].steps
    /\ leaveReq[q].phase = "charge" =>
           /\ leave[l].status = "approved" /\ charged[l] = 0
           /\ leaveReq[q].charge = leave[l].span.days - leave[l].lop
    /\ leaveReq[q].phase = "refund" => leave[l].status = "approved"
    /\ leaveReq[q].phase = "cancel" =>
           \/ leave[l].status = "pending"
           \/ leave[l].status = "approved" /\ charged[l] = 0 - leave[l].lop

\* What it has been charged, by its status.
Account(l) ==
    /\ leave[l].status \in {"none", "pending", "declined"} =>
           charged[l] = 0 /\ leave[l].lop = 0
    /\ leave[l].status = "cancelled" => charged[l] = 0 - leave[l].lop
    /\ leave[l].status = "approved"
       /\ (\A q \in LeaveReq : On(q, l) => leaveReq[q].phase = "refund")
        => charged[l] = leave[l].span.days - leave[l].lop

Agrees(l) ==
    /\ Alone(l) /\ (\A q \in LeaveReq : On(q, l) => Informed(q, l))
    /\ Account(l) /\ Honoured(leave[l])

\* What a leave comes to once what is owed of it has been done: the balance pays
\* no more than that.
Cost(r) ==
    CASE r.status = "pending" -> r.span.days
      [] r.status = "approved" -> r.span.days - r.lop
      [] r.status = "cancelled" -> 0 - r.lop
      [] OTHER -> 0
Costs == [l \in Leave |-> Cost(leave[l])]

\* An application no other request was beside is alone, and what it read holds.
QuotaKept ==
    torn = {} /\ ~rushed =>
        /\ Total(Costs) <= Quota
        /\ \A l, k \in Leave : Live(l) /\ Live(k) /\ leave[l].span.date = leave[k].span.date
                               => l = k
        /\ \A q \in LeaveReq : leaveReq[q].phase = "insert" =>
               /\ \A p \in LeaveReq \ {q} : ~LeaveBusy(p)
               /\ Total(Costs) + leaveReq[q].span.days <= Quota
               /\ \A l \in Leave : Live(l) => leave[l].span.date # leaveReq[q].span.date

LeaveInv == LeaveTypeOK /\ RequestsSound /\ (\A l \in Leave \ torn : Agrees(l)) /\ QuotaKept
=============================================================================
