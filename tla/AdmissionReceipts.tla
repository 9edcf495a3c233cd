------------------------- MODULE AdmissionReceipts -------------------------
(***************************************************************************)
(* Fee receipts of admissions: approval of a student's submitted payment,  *)
(* receipts entered by hand, numbering, voiding.                           *)
(*                                                                         *)
(* Source: src/src/modules/admissions/{service,repo}.js and the migrations *)
(* that create the unique indexes on admission_receipts.                   *)
(*                                                                         *)
(* An HTTP handler is a request q with a program counter.  Each step of a  *)
(* request is one statement (or one transaction) against the database;     *)
(* between two steps any other request may run.  The whole model happens   *)
(* on one calendar day, the period of the legacy numbers RC-<day>-<n>.     *)
(***************************************************************************)
EXTENDS Integers, FiniteSets

CONSTANTS
    Adm,          \* admissions
    Paying,       \* those a student submits with a declared payment
    Rcpt,         \* primary keys of admission_receipts
    Utr, NoUtr,   \* bank references; none given
    Prefix,       \* configurable receipt_no_prefix values
    Legacy,       \* the prefix "RC-<day>" of the fallback numbering
    NoPrefix,     \* receipt_no_prefix not configured
    Req,          \* concurrent HTTP requests
    Starts,       \* values an admin gives receipt_no_start
    MaxSlot,      \* installments per admission
    HandKinds,    \* the kinds of receipt accounts enter by hand
    Typed         \* receipt numbers users type in by hand

ASSUME ReceiptConstants ==
    /\ Adm # {} /\ Paying \subseteq Adm
    /\ NoUtr \notin Utr
    /\ Legacy \notin Prefix /\ NoPrefix \notin Prefix /\ NoPrefix # Legacy
    /\ Starts \subseteq Nat \ {0} /\ Starts # {}
    /\ MaxSlot \in Nat
    /\ HandKinds \subseteq {"registration", "installment", "misc"}
    /\ Typed \subseteq [pfx : Prefix \cup {Legacy}, seq : Nat]

VARIABLES
    adm,       \* the admissions rows
    receipts,  \* the admission_receipts rows, voided ones included
    nextSeq,   \* receipt_counters.next_seq; 0 while the row does not exist
    config,    \* receipt_no_prefix and receipt_no_start on the tenant row
    req        \* the requests under way

vars == <<adm, receipts, nextSeq, config, req>>

-----------------------------------------------------------------------------
(* Rows *)

Number == [pfx : Prefix \cup {Legacy}, seq : Nat]
Config == [pfx : Prefix \cup {NoPrefix}, start : Nat \ {0}]
Kinds  == {"registration", "installment", "misc"}
Slots  == 0..MaxSlot                     \* 0: not an installment
Sources == {"counter", "legacy", "typed"}

Receipt == [id : Rcpt, adm : Adm, no : Number, by : Sources, kind : Kinds,
            slot : Slots, utr : Utr \cup {NoUtr}, auto : BOOLEAN,
            live : BOOLEAN]

\* status keeps apart only what approve() tells apart; paid says that the
\* student declared a payment_amount > 0 on the public form.
Admission == [row : {"none", "live", "deleted"}, pending : BOOLEAN,
              paid : BOOLEAN, utr : Utr \cup {NoUtr}, verified : BOOLEAN]

Live == {r \in receipts : r.live}
HasRegistration(a) == \E r \in Live : r.adm = a /\ r.kind = "registration"

\* What a receipt is for, as the caller of insertReceipt gives it.
Input == [adm : Adm, kind : Kinds, slot : Slots, utr : Utr \cup {NoUtr},
          auto : BOOLEAN]

\* Mutant: the index on registration receipts was never created.
ViolatesButRegistration(r) ==
    \E l \in Live : l.no = r.no \/ (l.utr = r.utr /\ r.utr # NoUtr)

\* The partial unique indexes of admission_receipts: each covers live rows.
Violates(r) ==
    \E l \in Live :
        \/ l.no = r.no
        \/ l.kind = "registration" /\ r.kind = "registration" /\ l.adm = r.adm
        \/ l.kind = "installment" /\ r.kind = "installment"
              /\ l.adm = r.adm /\ l.slot = r.slot
        \/ l.utr = r.utr /\ r.utr # NoUtr

-----------------------------------------------------------------------------
(* Requests *)

NoConfig == [pfx |-> NoPrefix, start |-> CHOOSE s \in Starts : TRUE]
NoInput == [adm |-> CHOOSE a \in Adm : TRUE, kind |-> "misc", slot |-> 0,
            utr |-> NoUtr, auto |-> FALSE]
Idle == [pc |-> "idle", input |-> NoInput, cfg |-> NoConfig, count |-> 0]

Pcs == {"idle", "check", "config", "number", "counted"}
Request == [pc : Pcs, input : Input, cfg : Config, count : Nat]

Done(q) == req' = [req EXCEPT ![q] = Idle]

Init ==
    /\ adm = [a \in Adm |-> [row |-> "none", pending |-> FALSE,
                             paid |-> FALSE, utr |-> NoUtr, verified |-> FALSE]]
    /\ receipts = {}
    /\ nextSeq = 0
    /\ config \in [pfx : Prefix \cup {NoPrefix}, start : Starts]
    /\ req = [q \in Req |-> Idle]

-----------------------------------------------------------------------------
(* Admission rows *)

\* A row appears: through the student's public form, with a declared payment
\* and perhaps its reference, or typed in by accounts without one.
Insert(a, u) ==
    /\ adm[a].row = "none"
    /\ a \notin Paying => u = NoUtr
    /\ adm' = [adm EXCEPT ![a] = [row |-> "live", pending |-> TRUE,
                                  paid |-> a \in Paying, utr |-> u,
                                  verified |-> FALSE]]
    /\ UNCHANGED <<receipts, nextSeq, config, req>>

\* PUT /admissions/:id may set any API status, pending_approval again too.
UpdateStatus(a, p) ==
    /\ adm[a].row = "live"
    /\ adm' = [adm EXCEPT ![a].pending = p]
    /\ UNCHANGED <<receipts, nextSeq, config, req>>

SoftDelete(a) ==
    /\ adm[a].row = "live"
    /\ adm' = [adm EXCEPT ![a].row = "deleted"]
    /\ UNCHANGED <<receipts, nextSeq, config, req>>

\* Mutant: the reference only lands in transaction_details.
ApproveWithoutReference(q, a) ==
    /\ req[q].pc = "idle"
    /\ adm[a].row = "live" /\ adm[a].pending
    /\ adm' = [adm EXCEPT ![a].pending = FALSE, ![a].verified = adm[a].paid]
    /\ req' = [req EXCEPT ![q].pc = IF adm[a].paid THEN "check" ELSE @,
                          ![q].input = [adm |-> a, kind |-> "registration",
                                        slot |-> 0, utr |-> NoUtr, auto |-> TRUE]]
    /\ UNCHANGED <<receipts, nextSeq, config>>

\* approve(): the guarded UPDATE.  Its RETURNING row, read once, feeds the
\* automatic registration receipt of the steps that follow.
Approve(q, a) ==
    /\ req[q].pc = "idle"
    /\ adm[a].row = "live" /\ adm[a].pending
    /\ adm' = [adm EXCEPT ![a].pending = FALSE,
                          ![a].verified = IF adm[a].paid THEN TRUE ELSE @]
    /\ req' = IF adm[a].paid
              THEN [req EXCEPT ![q] =
                     [Idle EXCEPT !.pc = "check",
                                  !.input = [adm |-> a, kind |-> "registration",
                                             slot |-> 0, utr |-> adm[a].utr,
                                             auto |-> TRUE]]]
              ELSE req
    /\ UNCHANGED <<receipts, nextSeq, config>>

\* approve(): hasRegistrationReceipt, a read that the insert does not repeat.
CheckRegistration(q) ==
    /\ req[q].pc = "check"
    /\ IF HasRegistration(req[q].input.adm)
       THEN Done(q)
       ELSE req' = [req EXCEPT ![q].pc = "config"]
    /\ UNCHANGED <<adm, receipts, nextSeq, config>>

-----------------------------------------------------------------------------
(* Receipts *)

\* createReceipt(): the admission is looked up, the number left to the server.
CreateReceipt(q, a, k, s, u) ==
    /\ req[q].pc = "idle"
    /\ adm[a].row = "live"
    /\ (k = "installment") <=> (s > 0)
    /\ req' = [req EXCEPT ![q] =
                [Idle EXCEPT !.pc = "config",
                             !.input = [adm |-> a, kind |-> k, slot |-> s,
                                        utr |-> u, auto |-> FALSE]]]
    /\ UNCHANGED <<adm, receipts, nextSeq, config>>

\* getReceiptConfig(): the tenant row, or null when the lookup fails.
ReadConfig(q) ==
    /\ req[q].pc = "config"
    /\ \E c \in {config, NoConfig} :
          req' = [req EXCEPT ![q].pc = "number", ![q].cfg = c]
    /\ UNCHANGED <<adm, receipts, nextSeq, config>>

Row(in, id, number, source) ==
    [id |-> id, adm |-> in.adm, no |-> number, by |-> source, kind |-> in.kind,
     slot |-> IF in.kind = "installment" THEN in.slot ELSE 0, utr |-> in.utr,
     auto |-> in.auto, live |-> TRUE]

\* The INSERT of insertReceipt.  A unique violation aborts the transaction:
\* nothing is written, and a counter it advanced goes back.
InsertRow(in, number, source, seqAfter) ==
    \E id \in Rcpt \ {r.id : r \in receipts} :
        LET r == Row(in, id, number, source)
        IN  IF Violates(r)
            THEN UNCHANGED <<receipts, nextSeq>>
            ELSE /\ receipts' = receipts \cup {r}
                 /\ nextSeq' = seqAfter

\* Mutant: the series restarts at whatever the admin configured.
ConfiguredSeqRestarts(start) == start

\* nextConfiguredSeq: seeded on first use, raised to start, never lowered.
ConfiguredSeq(start) == IF nextSeq > start THEN nextSeq ELSE start

InsertConfigured(q) ==
    /\ req[q].pc = "number" /\ req[q].cfg.pfx # NoPrefix
    /\ LET s == ConfiguredSeq(req[q].cfg.start)
       IN  InsertRow(req[q].input, [pfx |-> req[q].cfg.pfx, seq |-> s],
                     "counter", s + 1)
    /\ Done(q)
    /\ UNCHANGED <<adm, config>>

\* legacyReceiptNo: the COUNT(*) is a statement of its own before the INSERT.
CountLegacy(q) ==
    /\ req[q].pc = "number" /\ req[q].cfg.pfx = NoPrefix
    /\ req' = [req EXCEPT ![q].pc = "counted",
                          ![q].count = Cardinality({r \in Live : r.no.pfx = Legacy})]
    /\ UNCHANGED <<adm, receipts, nextSeq, config>>

InsertLegacy(q) ==
    /\ req[q].pc = "counted"
    /\ InsertRow(req[q].input, [pfx |-> Legacy, seq |-> req[q].count + 1],
                 "legacy", nextSeq)
    /\ Done(q)
    /\ UNCHANGED <<adm, config>>

\* createReceipt() with receipt_no in the body: the typed number always wins.
InsertTyped(q, number) ==
    /\ req[q].pc = "number" /\ ~req[q].input.auto
    /\ InsertRow(req[q].input, number, "typed", nextSeq)
    /\ Done(q)
    /\ UNCHANGED <<adm, config>>

\* Mutant: the row is removed, and with it the trace of its number.
DeleteReceiptRow(r) ==
    /\ r \in Live
    /\ receipts' = receipts \ {r}
    /\ UNCHANGED <<adm, nextSeq, config, req>>

DeleteReceipt(r) ==
    /\ r \in Live
    /\ receipts' = (receipts \ {r}) \cup {[r EXCEPT !.live = FALSE]}
    /\ UNCHANGED <<adm, nextSeq, config, req>>

\* PUT /tenant-branding: an admin changes prefix or start at any time.
SetConfig(p, s) ==
    /\ config' = [pfx |-> p, start |-> s]
    /\ config' # config
    /\ UNCHANGED <<adm, receipts, nextSeq, req>>

-----------------------------------------------------------------------------
Next ==
    \/ \E a \in Adm, u \in Utr \cup {NoUtr} : Insert(a, u)
    \/ \E a \in Adm, p \in BOOLEAN : UpdateStatus(a, p)
    \/ \E a \in Adm : SoftDelete(a)
    \/ \E q \in Req, a \in Adm : Approve(q, a)
    \/ \E q \in Req : CheckRegistration(q)
    \/ \E q \in Req, a \in Adm, k \in HandKinds, s \in Slots, u \in Utr \cup {NoUtr} :
          CreateReceipt(q, a, k, s, u)
    \/ \E q \in Req : ReadConfig(q)
    \/ \E q \in Req : InsertConfigured(q)
    \/ \E q \in Req : CountLegacy(q)
    \/ \E q \in Req : InsertLegacy(q)
    \/ \E q \in Req, n \in Typed : InsertTyped(q, n)
    \/ \E r \in receipts : DeleteReceipt(r)
    \/ \E p \in Prefix \cup {NoPrefix}, s \in Starts : SetConfig(p, s)

Spec == Init /\ [][Next]_vars

-----------------------------------------------------------------------------
(* Properties *)

\* Every variable has its type.
TypeOK ==
    /\ adm \in [Adm -> Admission]
    /\ receipts \subseteq Receipt /\ IsFiniteSet(receipts)
    /\ nextSeq \in Nat
    /\ config \in Config
    /\ req \in [Req -> Request]

\* Two receipts a payer can be shown never carry the same number, however the
\* numbers came about and whatever was counted before another request's insert
\* (repo.insertReceipt with its three sources of numbers).
NumbersUnique == \A r, s \in Live : r.no = s.no => r = s

\* A number drawn from the counter is spent: no other receipt, voided ones
\* included, ever drew it, even when an admin lowers receipt_no_start or a
\* transaction that had advanced the counter is rolled back.
DrawnOnce ==
    \A r, s \in receipts :
        r.by = "counter" /\ s.by = "counter" /\ r.no.seq = s.no.seq => r = s

\* The counter is ahead of every number it ever gave out.
CounterAhead == \A r \in receipts : r.by = "counter" => r.no.seq < nextSeq

\* approve() checks for a registration receipt long before it inserts one, and
\* accounts may type one in between: still at most one is live per admission.
OneRegistration ==
    \A r, s \in Live :
        r.kind = "registration" /\ s.kind = "registration" /\ r.adm = s.adm
            => r = s

\* The transfer a student declared is receipted once: the receipt approve()
\* writes for it excludes any other live receipt under the same reference,
\* on this admission or another.
TransferReceiptedOnce ==
    \A r, s \in Live :
        /\ r.auto /\ adm[r.adm].utr # NoUtr
        /\ s.utr = adm[r.adm].utr
        => s = r

\* The counter never moves backward ("would risk collisions").
CounterForward == [][nextSeq' >= nextSeq]_vars

\* service.approve says of a failed automatic receipt that "the accounts user
\* can still add the receipt manually": the number the fallback numbering
\* would take next is not on a live receipt already.
LegacyNumberFree ==
    \A r \in Live :
        r.no # [pfx |-> Legacy,
                seq |-> Cardinality({l \in Live : l.no.pfx = Legacy}) + 1]

\* What an automatic receipt, written or still to be written, owes to its
\* admission: the declared payment, verified, under the declared reference.
CarriesDeclared(x) ==
    x.auto => /\ adm[x.adm].row # "none"
              /\ adm[x.adm].paid /\ adm[x.adm].verified
              /\ x.utr = adm[x.adm].utr

\* The inductive invariant behind the properties above.
IInv ==
    /\ TypeOK
    /\ \A r, s \in receipts : r.id = s.id => r = s
    /\ CounterAhead /\ DrawnOnce /\ NumbersUnique /\ OneRegistration
    /\ \A r, s \in Live : r.utr = s.utr /\ r.utr # NoUtr => r = s
    /\ \A r \in receipts : CarriesDeclared(r)
    /\ \A q \in Req : CarriesDeclared(req[q].input)

\* The receipts implement the ledger: a committed INSERT records an entry, a
\* soft delete voids one, every other step leaves the ledger alone.
Abstract(r) == [id |-> r.id, no |-> r.no, ref |-> r.utr,
                drawn |-> r.by = "counter"]
Ledger == INSTANCE PaymentLedger WITH
    Entries <- Rcpt, Numbers <- Number, References <- Utr,
    NoReference <- NoUtr,
    book <- {Abstract(r) : r \in Live},
    spent <- {r.no : r \in {s \in receipts : s.by = "counter"}}
ImplementsLedger == Ledger!LSpec
=============================================================================
