# Verification of extraaedge-server

TLA+ models of the core of the server - admissions and their receipts, the lead
pipeline, lead ownership, follow-ups, spreadsheet imports, work sessions, staff
leave and payroll -, the TLC configurations that check them on small instances, and TLAPS proofs of
the properties that matter most for every instance. `PROJECT.json` lists the
components, runs, mutants, the source lines behind every definition, the
hazards, the findings and the theorems.

## The system

A CRM for educational institutes: Express handlers over Postgres, one database
per tenant plus one system database, an event queue (BullMQ on Redis, or an
in-process emitter when Redis is absent), and workers that consume events or
scan tables on a timer. Everything the models need to know about concurrency
follows from `src/src/db/tenant.js`:

* `tenantQuery` sends one statement: it is atomic, at READ COMMITTED.
* `tenantTx` is a transaction (113-128): its writes are atomic, but its SELECTs
  take no lock unless they say FOR UPDATE, so a value read in it may be stale
  when the UPDATE runs.
* A handler awaits between statements. Another handler, a worker or another
  server process may run there; a crash there leaves what was committed.

Hence the shape of every module: a request (or a worker's pass) is a record with
a program counter, every action is one statement or one transaction, and the
lost update, the stale check and the half-finished handler are ordinary
behaviours. What happens between two awaits without touching the database is
folded into the neighbouring statement.

### Components

| Component | State | Operations | What is hard | What makes it correct |
|---|---|---|---|---|
| admissions | `admissions`, `admission_receipts`, `receipt_counters`, `admission_pending_breakdowns` | create, update, approve, reject, drop, set status, receipts, confirm course | automatic receipt at approval races accounts; three sources of numbers; status PUT without guard | numbers unique, one registration receipt, one receipt per transfer, the counter only goes forward |
| public-admissions, lead-fee-offers | `public_admission_tokens` (system db), `lead_fee_offers`, `admissions` | save offer, mint link, submit, decide | check and insert in two databases, links expire, a request fails between insert and burn, the importer deletes an offer | open submissions and uses of a link stay bounded, priced by an offer in force |
| leads, lead-discounts | `leads.stage_id`, `converted_at`, `lead_discounts` | stage change, discount request, decision, PUT, bulk change, webhook | two requests judge a boundary by a stage one of them has replaced; a decision held over a re-request | approved discounts are signed off, a held stage belongs to a pending discount, the stamp follows the stage |
| student-auth | `students` and the linked admission's status | confirm course, reset request, set password, login, status changes | a link redeemed twice, a link replaced while it is redeemed | a link works once, break and drop keep the student out |
| lead-assignments, rules, pools | `leads.assigned_to`, `lead_assignments` | create, auto-assign worker, manual, bulk and round-robin reassign, deactivation | rule processor, creator rule and manager write the same owner | one active assignment per lead, owner and ledger agree |
| follow-ups and scanners | `lead_followups` | schedule, edit, complete, reschedule, slots of a stage, sweep; reminder, missed scan | a tick selects, sends and marks statement by statement; two ticks overlap; the row is rescheduled meanwhile; death between send and mark | reminders bounded, a rescheduled row starts afresh, a missed one is told of once, none is planned past its time for ever |
| sla | breaches, timers | scan, auto-resolve | snapshot read, then writes | a breach is opened once and closed once |
| event queue, workers | queue jobs | enqueue, consume, retry | at-least-once against at-most-once delivery | consumers are idempotent |
| bulk import (leads, admissions, hiring) | `bulk_imports`, the rows written | upload, start, rows, rollback, finish, redeliver | a row is a sequence of statements with a compensation that may fail; jobs overlap; a death leaves `processing` | nobody is admitted twice, a row is written wholly or not at all, the counts add up |
| staff leave | `staff_leave`, `leave_approvals`, `leave_ledger` | apply, approve, decline, cancel | checks before the transaction, a refund and a charge in transactions of their own | charged while approved, the chain honoured, within the quota |
| payroll | `payroll_runs`, `payslips`, `payroll_disbursements` | compute, approve, pay | every statement commits alone; recompute against approval; the last two payments side by side | paid once, complete when everybody is paid, figures frozen |
| work sessions | `work_sessions` | start, restart, pause, resume, heartbeat, stop, midnight close | every write is by id after a read; the closer accounts for a session from a row it read; the day ends under a request | the accounts of a session agree with what happened, a restart is marked, no session outlives its day |
| auth, users | refresh tokens, users | login, refresh, revoke, deactivate | two refreshes of one token | a rotated token is dead |
| campaigns, drips, scheduled sends, workflows, outbound webhooks | due rows, deliveries | claim, send, retry | two runners claim one row, crash after the send | sent at least once, bounded retries |
| everything else | see `components` in `PROJECT.json` | one statement per request, queries, or I/O | | |

## Modules

| Module | Models | Checked by |
|---|---|---|
| `PaymentLedger` | what receipts promise, abstractly | refinement property of `receipts` |
| `AdmissionReceipts` | admissions approval and receipts | `MCAdmissionReceipts`, `AdmissionReceipts_proofs` |
| `PublicAdmission` | fee offer and its rollback, link, submission, decision | `MCPublicAdmission`, `PublicAdmission_proofs` |
| `LeadConversion` | stage, converted stamp, discount | `MCLeadConversion`, `Leads_proofs` |
| `StaleLeads` | the SLA scanner: flag, hand over, resolve | `MCStaleLeads`, `StaleLeads_proofs` |
| `LeadAssignment` | the owner on the lead against the assignment ledger | `MCLeadAssignment`, `LeadAssignment_proofs` |
| `FollowUps` | follow-ups, reminder ticks, the missed scanner | `MCFollowUps`, `FollowUps_proofs` |
| `BulkImport` | the two spreadsheet importers | `MCBulkImport`, `Leads_proofs` |
| `WorkSession` | one person's work sessions and the midnight closer | `MCWorkSession`, `WorkSession_proofs` |
| `StaffLeave` | leave requests, approval chain, balance | `MCStaffLeave`, `StaffPay_proofs` |
| `PayrollRun` | one payroll run | `MCStaffPay`, `StaffPay_proofs` |
| `StaffPay` | `PayrollRun` composed with `StaffLeave`, whose unpaid days it docks (extends both) | `MCStaffPay`, `StaffPay_proofs` |

Each `MC*` module gives model values, bounds and symmetry; each `.cfg` is one run.
The operators commented "Mutant" next to a definition are that definition with
one plausible bug in it; the specifications never use them. `PROJECT.json`
pairs each with the property that must catch it.

### AdmissionReceipts

State: `adm` (the row's existence, whether it is pending, the payment and bank
reference the student declared, whether it is verified), `receipts`
(`admission_receipts`, voided rows included), `nextSeq` (`receipt_counters`),
`config` (the tenant's prefix and start), `req`.

A request runs `CheckRegistration` (after `Approve`, the guarded UPDATE whose
RETURNING row feeds the automatic receipt), `ReadConfig`, then one of three
inserts: `InsertConfigured` (counter and row in one transaction, the counter
never lowered), `CountLegacy` + `InsertLegacy` (COUNT(*) and INSERT, two
statements), `InsertTyped` (the number in the body wins). A violation of one of
the four partial unique indexes (`Violates`) rolls back the row and the counter.
`DeleteReceipt` is a soft delete, `SetConfig` the tenant's settings page. The
lookup of the configuration may fail, in which case the code falls back to the
legacy numbering: `ReadConfig` is nondeterministic.

Abstracted: one calendar day (the legacy number's period); the status of an
admission to "pending or not"; amounts to "a payment was declared".

`receipts`: one admission with a declared transfer, two requests, two rows, a prefix
that is set and unset while they run, one typed number that collides with the
counter - the smallest instance where approval and accounts meet on the same
registration, reference and number, and where a draw is rolled back. The start
is one value and there are no installments here: lowering the start, and any number of
rows and admissions, are covered by the theorems, which state every property of the run.
`NumbersUnique`, `CounterAhead` and `CounterForward` are proved and in no run.
Deadlock is not checked: an admission may be deleted with no request under way and
every row used, and then nothing is left to do.

### PublicAdmission

State: `offer` (`lead_fee_offers` as a version number, 0 for no row), `saved` (how many
versions there were), `importing` (a row of the admission importer that found no
offer and is making one), `gone` (leads deleted for good), `token` (system database),
`adm`, `req` and the history `lost`. `MintCheckOpen/MintCheckOffer/MintInsert` and
`SubmitLookup/SubmitCheckOpen/SubmitReadOffer/SubmitInsert/MarkUsed` are the statements
of `generateLink` and `submitFromToken` in order; `Fail` is a statement that
throws, or a process that dies, in one request; `Expire` is the 24 hours. `SaveOffer` is
accounts, `ImportLook/ImportUpsert/ImportRollback/ImportEnds` the importer's part:
`rollbackRow` deletes whatever offer the lead has by then, so that a live link may be
left without one. `Decide`, `Revive`, `SoftDelete` and `StaffCreate` are what accounts
and the importer do to admissions.

`PricedInForce` is therefore not that a live link has an offer, but that a submission
carries a version of its lead's offer that was in force at some moment of the submit:
one replaced or taken back before the submit began never prices it.

The code's duplicate guard is a check followed by an insert, so it cannot
promise one open submission per lead. What it does promise is
`DuplicatesBounded`: no more open submissions than requests can be under way at
once, through failures, expiry, reissue and rejection. `PassedBounded`, the
inductive form of the proof, also counts the requests past the check.

A link is not single-use, as `public-admissions/service.js:3-4` says it is: the lookup, the insert
and the burning are statements on two databases. `public_single_use` (violation)
shows two overlapping submits. What is kept is `LinkUses`: while a link is unburnt
every admission made through it has a request on its way to burn it, or lost one there;
a link makes no more admissions than requests under way and requests so lost.

`public_admission`: two requests, one lead, one link, three rows, two versions of the
offer, failures anywhere - two submits past the check, and a third row for the
resubmission that follows a rejection. A second link or lead is covered by the
theorems. Left out: two rows of importers on one lead at once, the soft delete of a lead.

### LeadConversion

State: `stage`, `converted`, the discount row `disc`, `req` and `mixed`, a
history variable: it becomes TRUE when a request begins beside another, or when
a writer of only one of the two columns runs (`BulkStatus`, `Captured`). One
lead: leads do not interact. `StageRequest` is the middleware's guard and the
hold; `StageRead`/`StageWrite` the SELECT and UPDATE of `repo.changeStage`;
`Upsert` the discount; `DecideRead`/`Decide` the decision, which goes on to
`StageRead` when it completes a held conversion and may fail there
(`MoveFails`). `Put`, `BulkStatus`, `Captured` and `FollowRead`/`FollowWrite`
are the other writers of the two columns. A percentage is "none", "low" or
"high" (its side of the cap).

`conversion_discount`: two requests overlap arbitrarily with all four writers and
with crashes. The discount's properties hold whatever overlaps; the stamp's
(`ConvertedMatchesStage`, `ConvertedIsClosed`) hold until `mixed`, and TLC refutes
both without that condition. Four stages, two of them success stages, are every
kind of crossing: into, out of, between and outside success. Two requests
suffice for the discount, whose row each of them overwrites whole.

### StaleLeads

State: `user` (active, inactive, deleted), `lead` (owner, last activity,
converted, has a follow-up), `alert` (the newest row of `sla_alerts` of each
lead), `scan` (the pass under way) and a coarse clock. `StartPass` is the
SELECT of stale leads, `Flag` one INSERT of its loop; `StartEscalation`, `Stamp`,
`PickOwner`, `RecordHold`, `Move`, `ResolveMoved` are the statements of the
second loop in order, `AutoResolve` the third statement of the pass, `Abort` the
pass that dies in any of them. Around the pass people work on leads, book
follow-ups, change stages, assign, resolve by hand; users are deactivated and
offboarded. The hour arithmetic is a clock of a few ticks; the order of
timestamps inside a tick is the flag `touched`.

One pass at a time: the timer fires every ten minutes and starts a pass whether
or not the last one has ended, but a pass over one tenant is a few statements per
stale lead. What a second, overlapping pass may do is in the plan. Left out:
cold leads, other policies, role changes, changes of the pools, the LIMIT of a pass.

`stale_leads`: one lead, two counsellors and a telecaller, a pool that mixes
both, five ticks, three attempts and one death. One lead is enough because the
statements of a pass name one lead each; the ticks cover flag, escalation and a
second alert; three attempts reach the cap with a death among them. `ClassKept` says that a
handover never returns to the owner who was warned and stays in his class, but for one
case: when that owner has been deleted, the pick reads no role and a pool of the lead may
cross it.
TLC refutes the property without that exception (`NeverCrosses`, see Divergences).
`stale_touched` (violation): the owner touches the lead after the flag and loses
it in the next pass, because alerts of touched leads are resolved after the handovers.

### LeadAssignment

State: `owner` (`leads.assigned_to`), `ledger` (the rows of `lead_assignments` of
that lead, as committed), `req`. Each writer of the owner is a sequence of
statements (`Program`): the single reassignment, `/refer`, `bulkAssign` (and
`distributeLeads`, which runs the same statements), the PUT, automatic routing (`commitAssignment`
behind the guard of `applyAssignment`), the SLA handover (`reassignStaleLead`),
the routing of a new lead to its creator (`assignByCreator`) and the workflow
action. Those in `InTransaction` keep their writes to themselves until `Commit`.

PostgreSQL is modelled where the statements rely on it: the UPDATE that closes
the active row takes its snapshot (`ScanActive`), waits for row locks
(`WaitsFor`) and closes what is still active (`CloseActive`); an INSERT waits for an uncommitted
holder of the key in `one_active_assignment_per_lead` and then fails or goes on; of two
transactions that wait for each other one is rolled back (`Deadlocked`).
Which user is chosen is left out: any user.

Four of the programs commit each statement, and the PUT writes no ledger row, so the
owner and the ledger do part: the history `torn` says that they may have
and `stray` who was made owner without a row of his in time. They are torn by a PUT that
changes the owner, by a writer that commits each statement (`OneByOne`) when it begins
beside another request, or another beside it, or dies after its UPDATE of the lead, and
by one that never closes the active row (`NeverClose`: the routing to the
creator, whose error is swallowed, and the workflow action) when the index refuses its
row. They are mended by the next reassignment, referral or bulk assignment
that commits with no single-statement writer under way. `OwnerMatchesLedger` says that this
list is complete; `FromOwnedIt` that the history names only who had the lead, by
an earlier row or as a stray.

`assignment`: all eight writers, two requests at a time of which routing and the
reassignment may die at any statement, two users; the rows, strays and requests
are four together at most (`MaxRows`). Two requests are enough for every lock cycle and
every conflict on the index: there are two locks per lead and each has one holder; four leave
room for the initial row, two overlapping writers and one after them. The
deaths of the other six and larger ledgers are covered by the theorems.

### FollowUps

State: `row` (`lead_followups` of one lead: status, due time, whether it is a slot
of a stage, the columns `*_sent_at`/`overdue_notified_at` as the set `marked`), `tick`
(the reminder timer's ticks under way: the pass, the rows its SELECT returned,
the row sent but not marked), `scan` (rows the missed scanner has claimed and
not told of), `now`, and `past`, what happened to each row since it was last
planned. `StartPass` is a pass's SELECT, `Remind` and `Mark` the sending and the
UPDATE by id of one row, `TickFails` the catch around a tick or its process's end.
`Claim` is the scanner's one UPDATE ... RETURNING, `Tell` the notice of one row,
`ScanFails` its end. The other actions are the writers of the table in the
follow-up routes, the lead repository and service, and the admission service.

`follow_ups`: one row, two overlapping ticks, one death. One row is enough:
rows meet only in the unique index against double submission (`NoTwins`, which one
row never exercises) and in the fate of a tick that dies with several in hand.
The clock is compared with due times only, so `Horizon` 1 reaches a due time that
is past, now and ahead. Two passes, one before the due time and the overdue one:
T-15 and T-5 are the same code with another interval. Left out: the LIMIT of
500 rows of a pass, recurrence, the hand-over of `created_by`, merging leads,
the identity of a slot's index. The scanner's pass is taken to end before its
next one begins, which its interval of five minutes is for; the ticks, a minute
apart, may overlap.

### BulkImport

State: `lead`, `offer`, `admission`, `receipts` (who made each row, per person),
`job` (the `bulk_imports` row with the worker's place in the file), and four
history variables: `together` (two admission imports were at work at once),
`late` (an offer was entered by hand during the row of that person), `left` (rows
whose rollback failed), `recounted` (jobs that counted a failed row again). A row in which the worker died counts as being written. One
action per statement of `processRow`/`writeRow`
(`MatchAdmission`, `InsertLead`, `PriorOwner`, `FindOffer`, `UpsertOffer`,
`InsertAdmission`, `InsertReceipt`) and of `rollbackRow` (`UndoAdmission`,
`UndoOffer`, `UndoLead`); each may fail. The lead importer shares `InsertLead`.
`Die` and `Redeliver` are the queue's: a job that dies stays `processing`.

Failures and duplicates are buffered for the operator and written two hundred at a
time. `addFailure` and `addDuplicate` are awaited inside the row's `try`, after the count was
raised: a flush that fails there reaches the row's catch, which counts the row
again (`Recounts`); one that fails in the catch ends the job (`JobFails`). In the model a flush
may fail at any row. `RowsAccounted` says what the counts still come to: no row
goes uncounted, a failed row is counted once or twice, and the successes are the admissions
there are. The lost records themselves are not state of the model.

`bulk_import`: two jobs over two people, one known as a lead beforehand with a bank
reference on the payment and one new, one file that names both, each
job either importer. One payment per row: a second receipt repeats the first.
Two rows are what it takes for one job to be ahead of the other; the rollback
and the counters are per row.

### WorkSession

State: `row` (`work_sessions` of one person), `req` (a request between its read and
its write; the worker's pass is one more, `Closer`), `now`, and three histories:
`spent` (the ticks each session spent active and paused), `met` (who of those under
way was not alone all the time), `torn` (sessions written by one that was not).
`Start`, `CheckStopped`, `Refuse` and `Insert` are POST /start and /restart-day, whose
reads and INSERT are statements; `Pause`, `Resume`, `Stop` and `Heartbeat` the reads
of the other routes, with what they compute in Node, and `Update` their UPDATE by id;
`findStaleOpenSessions` and `closeSession` the worker, with the clamping of
`effectiveNow`; `PassFails` its catch. `Fits` is the unique index on open sessions.

No UPDATE repeats the test its read made, so a stop may be written over by a pause that
read before it, which opens the session again. `AccountsAgree` and
`RestartsMarked` are about the sessions nobody met on; `EndsWithDay` is about all of them.
`AccountsAgree` allows one gap: a pause that began after the instant up to which a forgotten
session counts is deducted all the same (see Divergences).

`work_session`: one person - no statement touches two people's sessions -, two
sessions, two requests, days of two ticks, a clock that runs past midnight, a grace of
one tick, one failed pass. Two sessions are what a restart needs. A
pass of the worker ends before the next one begins, which its five minutes are for.
`FollowTorn = FALSE`: no request begins on a session that is torn. A stopped
session left torn and open is still the worker's.

### StaffLeave, PayrollRun, StaffPay

`StaffLeave`: `leave` (with its approval steps), `charged` (the ledger's sum per leave),
`req`, `torn` (leaves on which two requests met or one died between its
transactions), `rushed` (an application ran beside another request). The status
of a leave comes with its length (`span.days`, in half days) and its unpaid days (`lop`). `Apply` is
`applyLeave`'s checks, `InsertLeave` its transaction; `Decide` reads the steps,
`Decline`, `ApproveStep`, `ApproveLeave` write, `Charge` is `commitBalance`;
`Cancel`, `Refund`, `cancelLeave`; `Die` in between. No UPDATE repeats the
test the read made, so every property is about the leaves on which no two requests
met.

The balance is a sum over the ledger, and cancelling hands back all the days of a leave, the
unpaid ones too, which were never charged (`service.js:273`). So the balance can go below
what was taken, and more paid days than the quota be asked for. `BookedWithinQuota` states what
is left, in days and not in the ledger: the paid days of pending and approved leaves (`PaidDays`) exceed
the quota by no more than the unpaid days of cancelled ones (`HandedBack`), and live
leaves do not overlap, unless an application was `rushed` or a leave is torn.

`staff_leave`: two leaves, two dates, lengths of one, two and three half days, a
quota of two, so that two leaves exceed it together, one alone does, and a
refund lets the other exceed it: TLC refutes `PaidDays <= Quota` here. Four users in every role
of the chain, two requests. `FollowTorn = FALSE`:
no request begins on a torn leave, of which nothing is claimed any more.

`PayrollRun`: `run`, `slip`, `due`, `req`; histories `payments`, `completed`, `mixed`
(a computation or an approval ran beside another request) and `cut`.
`Compute`/`replacePayslips`/`Review`; `Approve`/`setApproved`/`Finalise`/`openDisbursements`;
`Pay`/`PaySlip`/`Progress`/`Count`/`Complete`; `Die`. Payments may overlap with one
another without mixing: markPaid is written for that. A payslip is represented by the unpaid
days it docks.

`StaffPay` extends both: `LeaveStep` is a step of `StaffLeave` (`LeaveNext`), `PayStep(q)` one
of `PayrollRun`. The days without pay a computation reads are recomputed from the approved
leaves (`lopDays`, the query in units.js, a sum of `unpaidDays`). Two histories follow the
sum leave by leave: `seen` (what each request read of every leave) and `docked` (what
the payslips in force dock for it). `NotPenalisedTwice` is then about every single leave: what is
docked and what the balance was charged for it are no more than its days. The
names both modules would use carry the prefix `Leave` in `StaffLeave`.

`staff_pay`: two leaves of one person, of two half days each, two staff, one request on
leave and two on payroll: a second last payment needs two staff and two requests. One month.
Two leave requests beside each other are in `staff_leave`, and in the theorems.

## Fairness

`FairSpec` of StaleLeads assumes weak fairness of the scanner (the interval
timer fires again and again) and of the clock. Deaths of a pass are bounded, which is what
"the process is restarted and goes on" comes to.

`FairSpec` of LeadAssignment assumes strong fairness of each request's
statement. Weak fairness would not do: a statement that waits for a row lock is
disabled and enabled again as other transactions take and release it, and
PostgreSQL serves the queue of a lock in order, so that it is not passed over for ever.
`Finishes` is then about the order of the locks and the deadlock detector.

`FairSpec` of FollowUps assumes weak fairness of the scanner's claim and of its
notices: the interval timer fires again and again. Nothing is assumed of the
reminder ticks or of people. Deaths are bounded. `Chased` is then that no follow-up
stays planned past its time.

`FairSpec` of WorkSession assumes weak fairness of the worker's SELECT and of its
UPDATE, for the same reason; nothing is assumed of the person. Failed passes are bounded.

## Proofs

Every safety invariant and action property of the passing runs is a theorem, for every
value of the constants. Every proof follows the same argument: `IInv` (or `TypeOK` with
the named strengthening) holds initially, every action keeps it, and it implies the
property. One step per action of `Next`. The type invariants of AdmissionReceipts,
PublicAdmission, LeadAssignment, LeadConversion, FollowUps, PayrollRun and WorkSession are
proved and are not in the runs (those of StaleLeads, StaffLeave and BulkImport are both);
each inductive invariant was a run's invariant while its proof was being found.

* `AdmissionReceipts_proofs`: `IInv` adds to the properties that keys identify
  rows, that a live row's bank reference is its own, and that an automatic
  receipt - written or still in a request - carries the declared, verified
  reference (`CarriesDeclared`). Without the last, `TransferReceiptedOnce` is
  not inductive: the insert would not know what reference it writes.
  `CounterAhead` is what makes `DrawnOnce` inductive. Refinement of
  `PaymentLedger` is proved step by step from the same invariant.
* `PublicAdmission_proofs`: `PassedBounded` is inductive with `TypeOK`; the step
  that inserts moves a request from `Passed` to a row of `Submitted`, and the
  cardinality lemmas carry it. `PricesInForce` rests on
  `PricedOnTheWay`: the links of submissions are live and keep their lead, an offer is a
  version that was saved, and the version a submit has read, or may still read, is no older
  than the oldest in force since it began, although offers come and go. `LinkUsesBounded` counts:
  the admissions through a link with the requests that may still make one, and, while it is
  unburnt, against the requests about to burn it and those lost there. No theorem has a hypothesis;
  requests and admissions are finite sets.
* `Leads_proofs`, LeadConversion: `IInv` says of every request under way that only
  managers decide, that what it parks is a conversion and that it moves the lead
  to a stage (`Sound`). For the stamp, `StampInv` adds that until requests mix
  there is one of them at most and what it read is still so (`Knows`); the theorems
  assume `OpenEntry`, that the entry and follow-up stages are not success
  stages: a condition on the tenant's pipeline, true of the one checked, since the
  move to the follow-up stage writes no stamp.
* `Leads_proofs`, BulkImport: `ImportInv` says of each job where it is in its file
  (`Placed`), that it has written nothing of the rows ahead (`Ahead`), that while it
  writes a row the set `made` is what there is of it (`Remembers`), that its counts
  are those of the rows behind, a row counted again included (`Tallied`) and that those rows are whole (`Whole`). What
  `made` holds is why a rollback takes back neither more nor less than the row. A step of
  one job leaves the part of every other alone (`Undisturbed`, `OthersKept`), however
  many there are: admissions and receipts belong to their job, and a lead or an offer
  is only ever entered under one's own name or removed. `OneAtATime` carries
  `AdmittedOnce`: until two admission imports are together, whoever removes a lead has
  no admission on it, so nobody has. A hand-made offer can be lost only by a row
  that remembers an offer or a lead, and then its person is among the `late`
  (`HandOfferKept`). Any people, files and jobs; only a file's rows are for different people.
* `StaleLeads_proofs`: `IInv` ties the pass to the alerts it works on: what is in
  hand is the newest, escalated, unresolved alert and was not handed over before
  (`NewestAlert`, `PassInv`). Without it the `Move` of a pass could be the second
  one for its alert. `ClassPreserved` is a step property
  from the same invariant: who is in the pass's hand may replace the owner who was warned
  (`MayReplace`), which no deactivation or deletion undoes.
* `LeadAssignment_proofs`: what a request has written is told by its place in its program
  (`Shaped`), and one transaction at a time holds the key of the unique index
  (`KeyInv`); a commit then closes exactly the active row. A writer that commits each statement
  is alone under way as long as nothing was torn by it (`Undisturbed`, `AloneInv`), which is
  why what it leaves matches; the owner is somebody the ledger or the strays know, or about to be
  (`OwnerKnown`). The lemmas go by statement (`AdvanceKeeps`, `DropKeeps` and
  `AppendKeeps` carry what they share). All eight writers, any number of requests and users,
  deaths anywhere, no hypothesis. `CommitMends` adds that a transaction which gives the lead
  away leaves one active row that names the owner, whatever was torn before and whoever
  else is under way.
* `FollowUps_proofs`: people's actions are many and alike, so one lemma reduces each of
  them, row by row, to one of three things (`Handled`): the row keeps its history and
  marks (`Kept`), starts a new cycle (`Afresh`), or is planned again with its
  marks (`Again`). `FreshCycle` then rests on what a tick has in its hand having been
  sent (`SentFirst`); `MissedTold` on a planned row being unclaimed (`Unclaimed`)
  and on the scanner's hand holding untold claims (`InHand`). Any number of rows,
  ticks and passes; ticks that die with several rows in hand are covered here.
  `RemindersBounded` counts (`RemindersCounted`): what was sent in this cycle and the ticks
  that still list the row are together no more than the ticks and the deaths there were,
  and while the row is unmarked every sending is owed by a tick about to mark it or by a
  death. It takes a finite set of ticks.
* `StaffPay_proofs`, leave: `LeaveInv` says of the leaves on which no two requests met what a
  request under way knows of its leave (`Alone`, `Informed`), that the account follows the
  status (`Account`) and the status the recorded steps (`Honoured`); and of the whole balance
  that what its leaves come to once all that is owed has been charged (`Cost`) fits the
  quota, with the days of an application about to insert (`QuotaKept`); the days themselves are
  told from that sum by what each leave was charged and handed back. The quota is a sum
  over a set of leaves: what is said of such sums is proved by a least counterexample among
  the finite sets of leaves, the library's induction theorems being out of reach.
* `StaffPay_proofs`, payroll: which requests go together (`PhasesAgree`), that payslips and
  disbursements come for everybody at once (`BooksAgree`), and that when everybody
  is paid somebody has found it or will (`CompletionAgrees`), until requests mix;
  `AnnouncedOnce` whatever they do. Any staff and any number of requests, for any change of the unpaid days.
* `StaffPay_proofs`, together: the composition implements each part (`LeaveImplemented`,
  `PayrollImplemented`: every step is a step of it or a stutter), so the theorems of both
  parts hold of it. `NotPenalisedTwice` is about both at once: by `DockedUnpaid` what a
  request has read and what the payslips dock is, leave by leave, no more than the unpaid days of
  that leave, which never fall, and by `LeaveInv` its charge is no more than the rest.
* `WorkSession_proofs`: what a request that nobody met knows. Until another one begins
  it is alone (`Alone`), and what it read of the
  day's sessions is still so (`Informed`); no session begins in the future (`Past`) and none
  is written before it began (`OnBegun`). A start therefore inserts an unmarked session only
  when the day has none that ended, which is `RestartsMarked`. `AccountsAgree` rests on
  two more: that every tick since a session began was spent active or paused and its row
  counts the pauses that have ended (`Ledger`), and that the figures a request has computed
  are still those the row would give (`FiguresExact`).

Assumptions on constants are the `ASSUME`s of the modules; TLC evaluates them on
every run.

Model-checked only: liveness (`Handled`, `Finishes`, `Chased`, `EndsWithDay`),
which needs ENABLED, and the two violations. The theorems with a hypothesis, `OpenEntry`,
have a run that satisfies it, `conversion_discount`.

## Divergences

What a comment or doc of the code says and the model shows the code does not keep.
Two have a run, `stale_touched` and `public_single_use`, and are findings of
`PROJECT.json`; the others were met in the models and have none, the runs being kept for
other questions:

* the fallback receipt number counts rows, so that it repeats a number and fails after a
  receipt was deleted (`LegacyNumberFree`);
* an older form link is accepted while a newer one is live (against
  `public-admissions/service.js:40-42`); a link is minted for a lead that is not converted, or
  no longer;
* an admission import may count a failed row twice, and up to two hundred buffered records of
  failures are lost when their flush fails (they leave the buffer before the INSERT,
  `bulk-admission-import-worker.js:493`), although `bulk-import-worker.js:704-707` says that the
  operator's lists match the counts;
* a stale lead whose warned owner was deleted since goes to a member of its pool of any role
  (`NeverCrosses`, against `lead-routing/service.js:192-196`): the alert still names the
  deleted owner, his role is not found, and the test at line 209 is skipped;
* the routing of a new lead to its creator may leave the owner without a ledger row;
  a PUT of `assigned_to` never writes one (`leads/repo.js:551`);
* two managers may decide one discount in opposite ways (`DecidedOneWay`), and a
  discount may be requested for a converted lead (`PendingNotConverted`);
* a leave that spans two months docks its unpaid days in each of them
  (`payroll/units.js:72-95`: the days of each window are capped by `lop_days`, not
  shared out); cancelling a leave with unpaid days hands back more than was
  charged (`staff-leave/service.js:273`; `ChargedWhileApproved` states the exact sum), so that
  more paid days than the quota can be taken afterwards (`BookedWithinQuota`);
* a payroll recompute that began while the run was in review may replace payslips
  after it is approved, against the comment on `replacePayslips`; hence `mixed`;
* the missed scanner turns an overdue row to missed within five minutes, and the overdue pass
  wants planned rows, so that the escalation to managers may never go out; `PUT
  /follow-ups/:id` changes the due time and keeps the reminder flags; a reschedule while
  a tick holds the row has its new cycle marked by the old one (`crossed` in
  `FreshCycle`);
* a pause taken after midnight, or after the last heartbeat's grace, and resumed before the
  closer runs is deducted from the session's active time (`work-sessions/repo.js:31`, against the
  clamping that lines 9-13 describe); the users' page computes a session as
  end less start less pauses, without the heartbeat's clamp, and so shows more than
  `active_minutes` for one that was closed at midnight (`users/repo.js`).

## Not modelled

Formatting, rendering, uploads, listings and provider calls have no property
here. The modelled components are `partly`, each for the operations its note in
`PROJECT.json` names. The components marked `not_modelled` with "planned" there are
those of the plan; the rest are single statements per request, queries or I/O.

Left out of the modelled parts on purpose: two overlapping passes of the SLA
scanner, two rows of imports on one lead of PublicAdmission, retry of
single import rows and a job record whose update fails, several members of
staff with leave, several months.

## Plan

Done, with the proofs of every safety property: AdmissionReceipts and PaymentLedger,
PublicAdmission, LeadConversion, BulkImport, StaleLeads (one pass at a time),
LeadAssignment, FollowUps, WorkSession, StaffLeave, PayrollRun and
StaffPay.

Left, in this order:

1. StaleLeads composed with LeadAssignment (its `Move` is the SLA program); two
   overlapping passes of the scanner.
2. StudentPortal: the admission's lifecycle, course confirmation, one-time links,
   login; abstract specification: a link opens the portal at most once.
3. EventQueue with its consumers, refining at-least-once delivery; the retry of failed
   leads and the crediting of referrals under redelivery.
4. Refresh-token rotation; the optimistic lock; the activity minutes of a work session.
5. Senders, drips, scheduled sends, outbound webhooks: claim, send, retry.
6. Offboarding and the duplicate merge, which touch several of the above; the class
   completion sweep; provisioning of a tenant.
