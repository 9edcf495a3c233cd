----------------------------- MODULE BulkImport -----------------------------
(***************************************************************************)
(* The two spreadsheet importers: of admissions from a former system, and  *)
(* of leads.  A job works through the rows of its file; a row is written   *)
(* by statements that commit one by one, and the admission importer undoes *)
(* what it wrote when a later statement fails.  Jobs interleave between    *)
(* statements, on the same people, and may die there.                      *)
(*                                                                         *)
(* The unique indexes on a lead's contact details and on a receipt's UTR   *)
(* are the database's part.  What a row says is left out, but for whom it  *)
(* is about; a statement may fail for reasons the model does not know.     *)
(***************************************************************************)
EXTENDS Naturals, Sequences, FiniteSets

CONSTANTS
    Person,
    Known,     \* people entered as leads by hand
    WithUtr,   \* people whose payments carry a bank reference
    Payments,  \* payments a row brings, each one receipt
    Job,
    Kinds,     \* importers in play
    Handling,  \* duplicate_handling in play
    Files,     \* the files, as sequences of people, each named once
    Hand       \* not a job: entered by hand

Nobody == "nobody"

ASSUME BulkImportConstants ==
    /\ {Known, WithUtr} \subseteq SUBSET Person /\ Payments \in Nat
    /\ Kinds \subseteq {"leads", "admissions"}
    /\ Handling \subseteq {"skip", "use"}
    /\ \A f \in Files :
           f # <<>> /\ f \in Seq(Person) /\ \A m, n \in DOMAIN f : f[m] = f[n] => m = n
    /\ Files # {}
    /\ IsFiniteSet(Person) /\ Hand \notin Job /\ Nobody \notin Job \cup {Hand}

VARIABLES
    lead,       \* who entered the live lead with these contact details
    offer,      \* who entered the lead's fee offer
    admission,  \* per person and job, the admission the job made
    receipts,   \* its receipts
    job,        \* bulk_imports, with the worker's place in the file
    together,   \* history: two admission imports were at work together
    late,       \* history: people whose offer was entered during their row
    left,       \* history: rows whose rollback failed half way
    recounted   \* history: jobs that counted a failed row again

tables == <<lead, offer, admission, receipts>>
history == <<together, late, left, recounted>>
importVars == <<tables, job, history>>

-----------------------------------------------------------------------------
Makers == {Nobody, Hand} \cup Job
Phases == {"idle", "start", "match", "lead", "prior", "offer", "upsert",
           "admit", "receipt", "undo", "dead"}
JobRow == [kind : {"leads", "admissions"}, handling : {"skip", "use"}, file : Files,
           status : {"none", "queued", "processing", "completed", "failed"},
           phase : Phases, row : Nat, success : Nat, failed : Nat,
           duplicates : Nat, made : SUBSET {"lead", "offer", "admission"}]
NotUploaded == [kind |-> "leads", handling |-> "skip", file |-> CHOOSE f \in Files : TRUE,
                status |-> "none", phase |-> "idle", row |-> 1, success |-> 0,
                failed |-> 0, duplicates |-> 0, made |-> {}]

ImportInit ==
    /\ lead = [p \in Person |-> IF p \in Known THEN Hand ELSE Nobody]
    /\ offer = [p \in Person |-> Nobody]
    /\ admission = [p \in Person |-> [j \in Job |-> "none"]]
    /\ receipts = [p \in Person |-> [j \in Job |-> 0]]
    /\ job = [j \in Job |-> NotUploaded]
    /\ together = FALSE /\ late = {} /\ left = {} /\ recounted = {}

Subject(j) == job[j].file[job[j].row]
At(j, phase) == job[j].phase = phase
Goes(j, r) == job' = [job EXCEPT ![j] = r]
To(j, phase) == Goes(j, [job[j] EXCEPT !.phase = phase])

\* The next row, with what this one adds to the counts.
Over(j, s, f, d) ==
    [job[j] EXCEPT !.phase = "match", !.row = @ + 1, !.made = {},
                   !.success = @ + s, !.failed = @ + f, !.duplicates = @ + d]
NextRow(j, s, f, d) == Goes(j, Over(j, s, f, d))

\* The job fails.  What it had counted is kept for the operator and read by nobody
\* else: the model forgets it, and how far the job came.
JobFails(j) ==
    Goes(j, [job[j] EXCEPT !.status = "failed", !.phase = "idle", !.row = 1, !.made = {},
                           !.success = 0, !.failed = 0, !.duplicates = 0])

\* A row that failed is recorded for the operator.  Records are buffered and
\* written two hundred at a time; when that fails in the catch of the row, the
\* whole job is over.
RowFails(j, f, d) ==
    \/ NextRow(j, 0, f, d)
    \/ JobFails(j)

\* Counted as failed, then recorded, in the try of the row: when the writing of the
\* records fails, the catch counts the row again.
Recounts(j, d) == NextRow(j, 0, 2, d) /\ recounted' = recounted \cup {j}
Refused(j, d) ==
    \/ RowFails(j, 1, d) /\ recounted' = recounted
    \/ Recounts(j, d)

HasRow(j) == At(j, "match") /\ job[j].row <= Len(job[j].file)
\* The row of p is being written, or was when the job died.
Writes(j, p) ==
    /\ job[j].phase \in {"prior", "offer", "upsert", "admit", "receipt", "undo", "dead"}
    /\ job[j].row <= Len(job[j].file) /\ Subject(j) = p
Admitted(p) == {j \in Job : admission[p][j] # "none"}

-----------------------------------------------------------------------------
(* The job *)

\* A commit or retry-failures request: a preview may be committed twice.
Upload(j, kind, handling, file) ==
    /\ job[j].status = "none"
    /\ Goes(j, [NotUploaded EXCEPT !.kind = kind, !.handling = handling, !.file = file,
                                   !.status = "queued", !.phase = "start"])
    /\ UNCHANGED <<tables, history>>

Running(k, kind) == job[k].kind = kind /\ job[k].phase \notin {"idle", "start", "dead"}

\* Lead imports run one at a time; admission imports need not.  An admission
\* import that was picked up before is not begun again.
Start(j) ==
    /\ At(j, "start")
    /\ job[j].kind = "leads" => \A k \in Job : ~Running(k, "leads")
    /\ job[j].kind = "admissions" => job[j].status = "queued"
    /\ Goes(j, [job[j] EXCEPT !.status = "processing", !.phase = "match", !.row = 1,
                              !.success = 0, !.failed = 0, !.duplicates = 0])
    /\ together' = (together \/ (job[j].kind = "admissions"
                                 /\ \E k \in Job : Running(k, "admissions")))
    /\ UNCHANGED <<tables, late, left, recounted>>

\* The file cannot be read, no converted stage is configured, or the last records
\* cannot be written.
FailJob(j) ==
    /\ At(j, "match") /\ (job[j].row = 1 \/ ~HasRow(j))
    /\ JobFails(j)
    /\ UNCHANGED <<tables, history>>

Finish(j) ==
    /\ At(j, "match") /\ ~HasRow(j)
    /\ Goes(j, [job[j] EXCEPT !.status = "completed", !.phase = "idle"])
    /\ UNCHANGED <<tables, history>>

\* The worker dies, and its counts with it.  The queue hands the job out again, and
\* a lead import starts from the first row.
Die(j) ==
    /\ job[j].phase \notin {"idle", "start", "dead"}
    /\ Goes(j, [job[j] EXCEPT !.phase = "dead", !.success = 0, !.failed = 0,
                              !.duplicates = 0])
    /\ UNCHANGED <<tables, history>>

Redeliver(j) ==
    /\ At(j, "dead") /\ job[j].kind = "leads"
    /\ To(j, "start")
    /\ UNCHANGED <<tables, history>>

-----------------------------------------------------------------------------
(* A row *)

\* Validation, dropdowns, owner, attachments, or a statement of theirs fails.
Reject(j) ==
    /\ HasRow(j)
    /\ Refused(j, 0)
    /\ UNCHANGED <<tables, together, late, left>>

\* checkUtrs
UtrFree(p) == p \notin WithUtr \/ \A j \in Job : receipts[p][j] = 0

RejectUtr(j) ==
    /\ HasRow(j) /\ job[j].kind = "admissions" /\ ~UtrFree(Subject(j))
    /\ Refused(j, 0)
    /\ UNCHANGED <<tables, together, late, left>>

\* Mutant: a person who has an admission is imported again.
BouncesNever(p) == FALSE

\* ADMISSION_EXISTS
Bounces(p) == \E j \in Job : admission[p][j] = "linked"

\* Mutant: a lead that is skipped as a duplicate is counted as a duplicate only.
SkippedFails == 0

Skipped == 1

\* Nobody has these contact details: the lead is new.
NewLead(j) ==
    /\ HasRow(j) /\ lead[Subject(j)] = Nobody
    /\ job[j].kind = "admissions" => UtrFree(Subject(j))
    /\ To(j, "lead")
    /\ UNCHANGED <<tables, history>>

\* A lead import skips a duplicate, or updates the lead and counts both, unless
\* that or the record of it fails.
MatchLead(j) ==
    /\ HasRow(j) /\ job[j].kind = "leads" /\ lead[Subject(j)] # Nobody
    /\ \/ NextRow(j, IF job[j].handling = "use" THEN 1 ELSE 0, 0, 1)
       \/ RowFails(j, 1, 1)
    /\ UNCHANGED <<tables, history>>

\* An admission import counts a duplicate, and a row it does not write as failed:
\* skipped; already admitted, which is counted before it is recorded; or the
\* asking, or the record of the match, fails.
MatchAdmission(j) ==
    LET p == Subject(j) IN
    /\ HasRow(j) /\ job[j].kind = "admissions" /\ lead[p] # Nobody /\ UtrFree(p)
    /\ \/ job[j].handling = "skip" /\ RowFails(j, Skipped, 1) /\ recounted' = recounted
       \/ job[j].handling = "use" /\ RowFails(j, 1, 1) /\ recounted' = recounted
       \/ job[j].handling = "use" /\ Bounces(p) /\ Recounts(j, 1)
       \/ /\ job[j].handling = "use" /\ ~Bounces(p)
          /\ Goes(j, [job[j] EXCEPT !.phase = "offer", !.duplicates = @ + 1])
          /\ recounted' = recounted
    /\ UNCHANGED <<tables, together, late, left>>

\* insertLead; the unique indexes refuse a second lead.  The lead importer
\* counts that as a duplicate, the admission importer as a failure.
InsertLead(j) ==
    LET p == Subject(j)
        adm == job[j].kind = "admissions"
    IN /\ At(j, "lead")
       /\ IF lead[p] # Nobody
          THEN RowFails(j, IF adm THEN 1 ELSE 0, IF adm THEN 0 ELSE 1) /\ lead' = lead
          ELSE /\ lead' = [lead EXCEPT ![p] = j]
               /\ IF adm THEN Goes(j, [job[j] EXCEPT !.phase = "offer", !.made = {"lead"}])
                  ELSE Goes(j, [job[j] EXCEPT !.phase = "prior", !.success = @ + 1])
       /\ UNCHANGED <<offer, admission, receipts, history>>

\* Anything else that insertLead may throw.
LeadFails(j) ==
    /\ At(j, "lead")
    /\ RowFails(j, 1, 0)
    /\ UNCHANGED <<tables, history>>

\* The prior owner of an imported lead; failing here counts the row again.
PriorOwner(j) ==
    /\ At(j, "prior")
    /\ NextRow(j, 0, 0, 0) \/ RowFails(j, 1, 0)
    /\ UNCHANGED <<tables, history>>

\* Mutant: the offer is written without asking for one.
HasOfferNever(p) == FALSE

HasOffer(p) == offer[p] # Nobody

\* No offer is written over another, nor for a plan with too many instalments.
FindOffer(j) ==
    /\ At(j, "offer")
    /\ \/ To(j, "admit")
       \/ /\ ~HasOffer(Subject(j))
          /\ Goes(j, [job[j] EXCEPT !.phase = "upsert", !.made = @ \cup {"offer"}])
    /\ UNCHANGED <<tables, history>>

\* The upsert does not ask again whether there is an offer.  The lead may be gone.
UpsertOffer(j) ==
    /\ At(j, "upsert") /\ lead[Subject(j)] # Nobody
    /\ offer' = [offer EXCEPT ![Subject(j)] = j]
    /\ To(j, "admit")
    /\ UNCHANGED <<lead, admission, receipts, history>>

InsertAdmission(j) ==
    /\ At(j, "admit") /\ lead[Subject(j)] # Nobody
    /\ admission' = [admission EXCEPT ![Subject(j)][j] = "linked"]
    /\ Goes(j, [job[j] EXCEPT !.phase = "receipt", !.made = @ \cup {"admission"}])
    /\ UNCHANGED <<lead, offer, receipts, history>>

\* Mutant: one receipt too many.
DueOneMore(p, j) == receipts[p][j] <= Payments

Due(p, j) == receipts[p][j] < Payments

InsertReceipt(j) ==
    LET p == Subject(j) IN
    /\ At(j, "receipt") /\ Due(p, j)
    /\ p \in WithUtr => \A k \in Job \ {j} : receipts[p][k] = 0
    /\ receipts' = [receipts EXCEPT ![p][j] = @ + 1]
    /\ UNCHANGED <<lead, offer, admission, job, history>>

WriteDone(j) ==
    /\ At(j, "receipt") /\ receipts[Subject(j)][j] = Payments
    /\ NextRow(j, 1, 0, 0)
    /\ UNCHANGED <<tables, history>>

\* A statement of writeRow fails: rollbackRow.
WriteFails(j) ==
    /\ job[j].phase \in {"offer", "upsert", "admit", "receipt"}
    /\ To(j, "undo")
    /\ UNCHANGED <<tables, history>>

\* Mutant: the offer is forgotten.
ToUndoButOffer(j) == job[j].made \ {"offer"}

ToUndo(j) == job[j].made

\* The receipts go with the admission.
UndoAdmission(j) ==
    LET p == Subject(j) IN
    /\ At(j, "undo") /\ "admission" \in ToUndo(j)
    /\ admission' = [admission EXCEPT ![p][j] = "none"]
    /\ receipts' = [receipts EXCEPT ![p][j] = 0]
    /\ Goes(j, [job[j] EXCEPT !.made = @ \ {"admission"}])
    /\ UNCHANGED <<lead, offer, history>>

\* By lead: whoever entered the offer by now.
UndoOffer(j) ==
    /\ At(j, "undo") /\ "admission" \notin ToUndo(j) /\ "offer" \in ToUndo(j)
    /\ offer' = [offer EXCEPT ![Subject(j)] = Nobody]
    /\ Goes(j, [job[j] EXCEPT !.made = @ \ {"offer"}])
    /\ UNCHANGED <<lead, admission, receipts, history>>

\* The offer goes with the lead; an admission another job made stays without one.
UndoLead(j) ==
    LET p == Subject(j) IN
    /\ At(j, "undo") /\ ToUndo(j) = {"lead"}
    /\ lead' = [lead EXCEPT ![p] = Nobody]
    /\ offer' = [offer EXCEPT ![p] = Nobody]
    /\ admission' = [admission EXCEPT ![p] =
           [k \in Job |-> IF @[k] = "none" THEN "none" ELSE "orphan"]]
    /\ Goes(j, [job[j] EXCEPT !.made = {}])
    /\ UNCHANGED <<receipts, history>>

UndoDone(j) ==
    /\ At(j, "undo") /\ ToUndo(j) = {}
    /\ RowFails(j, 1, 0)
    /\ UNCHANGED <<tables, history>>

\* rollbackRow fails: the error is logged and the row is over.
UndoFails(j) ==
    /\ At(j, "undo") /\ ToUndo(j) # {}
    /\ left' = left \cup {<<Subject(j), j>>}
    /\ RowFails(j, 1, 0)
    /\ UNCHANGED <<tables, together, late, recounted>>

-----------------------------------------------------------------------------
\* Accounts configures the fee offer of a lead.
HandOffer(p) ==
    /\ lead[p] # Nobody /\ offer[p] # Hand
    /\ offer' = [offer EXCEPT ![p] = Hand]
    /\ late' = IF \E j \in Job : Writes(j, p) THEN late \cup {p} ELSE late
    /\ UNCHANGED <<lead, admission, receipts, job, together, left, recounted>>

Row(j) ==
    \/ Reject(j) \/ RejectUtr(j) \/ NewLead(j) \/ MatchLead(j) \/ MatchAdmission(j)
    \/ InsertLead(j) \/ LeadFails(j) \/ PriorOwner(j) \/ FindOffer(j) \/ UpsertOffer(j)
    \/ InsertAdmission(j) \/ InsertReceipt(j) \/ WriteDone(j) \/ WriteFails(j)
    \/ UndoAdmission(j) \/ UndoOffer(j) \/ UndoLead(j) \/ UndoDone(j) \/ UndoFails(j)

ImportNext ==
    \/ \E j \in Job, k \in Kinds, h \in Handling, f \in Files : Upload(j, k, h, f)
    \/ \E j \in Job : Start(j) \/ FailJob(j) \/ Finish(j) \/ Die(j) \/ Redeliver(j)
    \/ \E j \in Job : Row(j)
    \/ \E p \in Person : HandOffer(p)

ImportSpec == ImportInit /\ [][ImportNext]_importVars

-----------------------------------------------------------------------------
(* Properties *)

\* The type invariant of the importers' jobs and of what they write.
ImportTypeOK ==
    /\ lead \in [Person -> Makers] /\ offer \in [Person -> Makers]
    /\ admission \in [Person -> [Job -> {"none", "linked", "orphan"}]]
    /\ receipts \in [Person -> [Job -> Nat]]
    /\ \A p \in Person, j \in Job : receipts[p][j] <= Payments
    /\ job \in [Job -> JobRow]
    /\ together \in BOOLEAN /\ late \subseteq Person /\ left \subseteq Person \X Job
    /\ recounted \subseteq Job

\* Unless two admission imports were at work together, running a file again, after
\* a failure or a crash, admits nobody twice, and every admission keeps its lead
\* ("importing again would double-count").
AdmittedOnce ==
    ~together => \A p \in Person :
        /\ Cardinality(Admitted(p)) <= 1
        /\ \A j \in Admitted(p) : admission[p][j] = "linked" /\ lead[p] # Nobody

\* A row is written wholly or not at all: when the importer is done with a person,
\* an admission of its making has all its receipts, and there is no lead or offer
\* of its making without the admission, unless the worker died in the row or the
\* rollback failed.  It holds whatever other imports do (writeRow, rollbackRow).
AllOrNothing ==
    \A j \in Job, p \in Person :
        job[j].kind = "admissions" /\ ~Writes(j, p) /\ <<p, j>> \notin left =>
            /\ admission[p][j] # "none" => receipts[p][j] = Payments
            /\ admission[p][j] = "none" => lead[p] # j /\ offer[p] # j

\* What the report of a completed import adds up to.  The successes of an admission
\* import are the admissions there are, unless a rollback failed; each other row is
\* counted as failed once, or twice when the records of the failures could not be
\* written in between.  No row of either import goes uncounted.
RowsAccounted ==
    \A j \in Job : job[j].status = "completed" =>
        LET r == job[j] IN
        IF r.kind = "leads" THEN r.success + r.failed + r.duplicates >= Len(r.file)
        ELSE /\ r.success + r.failed >= Len(r.file)
             /\ r.success + r.success + r.failed <= Len(r.file) + Len(r.file)
             /\ j \notin recounted => r.success + r.failed = Len(r.file)
             /\ (\A p \in Person : <<p, j>> \notin left)
                => r.success = Cardinality({p \in Person : j \in Admitted(p)})

\* A fee offer entered by hand outlives every import, its rollbacks included,
\* unless it was entered while the row of that person was being written.
HandOfferKept ==
    [][\A p \in Person : offer[p] = Hand /\ p \notin late => offer'[p] = Hand]_importVars

-----------------------------------------------------------------------------
(* The invariant of the proofs *)

Working == {"offer", "upsert", "admit", "receipt", "undo"}
Importing(j) == job[j].kind = "admissions" /\ job[j].status # "none"

\* Where a job is in its file, and what its phase says of it.
Placed(j) ==
    LET r == job[j] IN
    /\ r.status = "none" => r = NotUploaded
    /\ r.status \in {"completed", "failed"} => r.phase = "idle"
    /\ r.phase = "start" /\ r.kind = "admissions" =>
           r.status = "queued" /\ r.row = 1 /\ r.success = 0 /\ r.failed = 0
    /\ r.phase \in Working => r.kind = "admissions"
    /\ r.phase = "prior" => r.kind = "leads"
    /\ r.row >= 1 /\ r.row <= Len(r.file) + 1
    /\ r.phase \in Working \cup {"lead", "prior"} => r.row <= Len(r.file)
    /\ r.phase \notin Working \cup {"dead"} \/ r.kind = "leads" => r.made = {}

\* An admission import has written nothing of the rows ahead of it.
Untouched(j, p) ==
    admission[p][j] = "none" /\ receipts[p][j] = 0 /\ lead[p] # j /\ offer[p] # j
Ahead(j) ==
    /\ job[j].status = "none" => \A p \in Person : Untouched(j, p)
    /\ Importing(j) /\ job[j].phase # "dead" /\ job[j].status # "failed" =>
           \A n \in DOMAIN job[j].file :
               n > job[j].row \/ (n = job[j].row /\ job[j].phase \notin Working)
               => Untouched(j, job[j].file[n])

\* Of the row it is writing it knows what it made, and that is what there is.
Remembers(j) ==
    LET r == job[j]
        p == Subject(j)
    IN  r.phase \in Working =>
            /\ "admission" \in r.made <=> admission[p][j] # "none"
            /\ admission[p][j] = "none" => receipts[p][j] = 0
            /\ lead[p] = j => "lead" \in r.made
            /\ offer[p] = j => "offer" \in r.made
            /\ r.phase = "offer" => r.made \subseteq {"lead"}
            /\ r.phase = "upsert" => "offer" \in r.made
            /\ r.phase \in {"upsert", "admit"} => "admission" \notin r.made
            /\ r.phase = "receipt" => "admission" \in r.made
            /\ r.made \cap {"lead", "offer"} # {} /\ offer[p] = Hand => p \in late
            /\ ~together => Admitted(p) = IF "admission" \in r.made THEN {j} ELSE {}

\* The people it has admitted, and its counts.
ByJob(j) == {p \in Person : admission[p][j] # "none"}
InHand(j) == IF job[j].phase \in Working THEN {Subject(j)} ELSE {}
Tallied(j) ==
    LET r == job[j] IN
    /\ r.kind = "leads" =>
           /\ r.phase \in {"match", "lead"} => r.success + r.failed + r.duplicates >= r.row - 1
           /\ r.phase = "prior" => r.success + r.failed + r.duplicates >= r.row
           /\ r.status = "completed" => r.success + r.failed + r.duplicates >= Len(r.file)
    /\ Importing(j) /\ r.phase # "dead" /\ r.status # "failed" =>
           /\ r.success + r.failed >= r.row - 1
           /\ r.success + r.success + r.failed <= (r.row - 1) + (r.row - 1)
           /\ j \notin recounted => r.success + r.failed = r.row - 1
           /\ r.status = "completed" => r.row = Len(r.file) + 1
           /\ (\A p \in Person : <<p, j>> \notin left) =>
                  r.success = Cardinality(ByJob(j) \ InHand(j))

Whole(j) ==
    job[j].kind = "admissions" =>
        \A p \in Person : ~Writes(j, p) /\ <<p, j>> \notin left =>
            /\ admission[p][j] # "none" => receipts[p][j] = Payments
            /\ admission[p][j] = "none" => lead[p] # j /\ offer[p] # j

JobInv(j) == Placed(j) /\ Ahead(j) /\ Remembers(j) /\ Tallied(j) /\ Whole(j)

\* Until two admission imports are at work together there is one at most, nobody
\* has two admissions and each has its lead.
AdmittedAlone(p) ==
    \A j \in Admitted(p) :
        /\ admission[p][j] = "linked" /\ lead[p] # Nobody
        /\ \A k \in Admitted(p) : k = j
OneAtATime ==
    ~together =>
        /\ \A j, k \in Job : Running(j, "admissions") /\ Running(k, "admissions") => j = k
        /\ \A p \in Person : AdmittedAlone(p)

\* Only a lead has a fee offer entered by hand.
OfferedToLeads == \A p \in Person : lead[p] = Nobody => offer[p] # Hand

ImportInv ==
    ImportTypeOK /\ (\A j \in Job : JobInv(j)) /\ OneAtATime /\ OfferedToLeads
=============================================================================
