------------------------------ MODULE StaffPay ------------------------------
(***************************************************************************)
(* Payroll and leave together: payroll docks the unpaid days of the leave  *)
(* that is approved when it computes (units.js), the balance is charged    *)
(* for the paid days.                                                      *)
(***************************************************************************)
EXTENDS PayrollRun, StaffLeave

ASSUME StaffPayConstants == Applicant \in Staff

VARIABLES
    seen,   \* history: of each leave, the unpaid days that a computation read
    docked  \* history: of each leave, the unpaid days that the payslips dock

staffPayVars == <<lop, payVars, leaveVars, seen, docked>>

\* lopDays: the unpaid days of each person's approved leave.
unpaidDays(l) == IF leave[l].status = "approved" THEN leave[l].lop ELSE 0
lopDays(s) ==
    IF s # Applicant THEN 0 ELSE Total([l \in Leave |-> unpaidDays(l)])

LeaveStep ==
    /\ LeaveNext
    /\ lop' = [s \in Staff |-> lopDays(s)']
    /\ UNCHANGED <<payVars, seen, docked>>

PayStep(q) ==
    /\ \/ Compute(q) /\ UNCHANGED docked
          /\ seen' = [seen EXCEPT ![q] = [l \in Leave |-> unpaidDays(l)]]
       \/ replacePayslips(q) /\ docked' = seen[q] /\ UNCHANGED seen
       \/ Onward(q) /\ UNCHANGED <<seen, docked>>
    /\ UNCHANGED leaveVars

PayInit ==
    /\ Init /\ LeaveInit
    /\ docked = [l \in Leave |-> 0]
    /\ seen = [q \in Req |-> [l \in Leave |-> 0]]

PaySpec == PayInit /\ [][LeaveStep \/ \E q \in Req : PayStep(q)]_staffPayVars

-----------------------------------------------------------------------------
\* Nobody is penalised twice for an absence of that month (commitBalance): of each
\* leave that no two requests met on, what a payslip docks and what the balance was
\* charged are together no more than its days; and what the payslip docks is what
\* it docks for each of the leaves.
NotPenalisedTwice ==
    /\ slip[Applicant].lop = Total(docked)
    /\ \A l \in Leave \ torn : docked[l] + charged[l] <= leave[l].span.days

\* What makes it inductive: the figures a computation holds are what it read, and
\* the unpaid days of a leave are never fewer later.
DockedUnpaid ==
    /\ docked \in [Leave -> Nat] /\ seen \in [Req -> [Leave -> Nat]]
    /\ lop[Applicant] = lopDays(Applicant) /\ slip[Applicant].lop = Total(docked)
    /\ \A q \in Req : At(q, "replace") => req[q].figures[Applicant] = Total(seen[q])
    /\ \A l \in Leave \ torn :
           docked[l] <= leave[l].lop /\ \A q \in Req : seen[q][l] <= leave[l].lop
=============================================================================
