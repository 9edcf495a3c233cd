---------------------- MODULE AdmissionReceipts_proofs ----------------------
(***************************************************************************)
(* Proofs about AdmissionReceipts, for any number of admissions, receipts  *)
(* and requests.                                                           *)
(***************************************************************************)
EXTENDS AdmissionReceipts, FiniteSetTheorems, TLAPS

-----------------------------------------------------------------------------
(* Types *)

\* The idle request is well typed: the constants it is made of exist.
LEMMA IdleTyped == /\ NoConfig \in Config
                   /\ NoInput \in Input
                   /\ Idle \in Request
<1>1. NoConfig \in Config
  BY ReceiptConstants DEF NoConfig, Config
<1>2. NoInput \in Input
  BY ReceiptConstants DEF NoInput, Input, Kinds, Slots
<1> QED BY <1>1, <1>2 DEF Idle, Request, Pcs

\* The row insertReceipt writes is a receipt.
LEMMA RowTyped ==
  ASSUME NEW in \in Input, NEW id \in Rcpt, NEW n \in Number,
         NEW source \in Sources
  PROVE  Row(in, id, n, source) \in Receipt
BY ReceiptConstants DEF Row, Input, Receipt, Slots, Kinds

\* An insert either changes nothing (the unique violation) or adds one
\* well-typed row with a fresh key that no live row conflicts with.
LEMMA InsertCases ==
  ASSUME TypeOK, NEW in \in Input, NEW n \in Number, NEW source \in Sources,
         NEW seqAfter \in Nat, InsertRow(in, n, source, seqAfter)
  PROVE  \/ UNCHANGED <<receipts, nextSeq>>
         \/ \E id \in Rcpt \ {r.id : r \in receipts} :
              LET r == Row(in, id, n, source)
              IN  /\ r \in Receipt /\ ~Violates(r)
                  /\ receipts' = receipts \cup {r} /\ nextSeq' = seqAfter
BY RowTyped DEF InsertRow

LEMMA InsertTypes ==
  ASSUME TypeOK, NEW in \in Input, NEW n \in Number, NEW source \in Sources,
         NEW seqAfter \in Nat, InsertRow(in, n, source, seqAfter)
  PROVE  /\ receipts' \subseteq Receipt /\ IsFiniteSet(receipts')
         /\ nextSeq' \in Nat
BY InsertCases, FS_AddElement DEF TypeOK

\* The number the counter gives is a number, at least next_seq and at least
\* the start asked for.
LEMMA ConfiguredSeqTyped ==
  ASSUME TypeOK, NEW start \in Nat
  PROVE  /\ ConfiguredSeq(start) \in Nat
         /\ ConfiguredSeq(start) >= nextSeq
         /\ ConfiguredSeq(start) >= start
BY DEF TypeOK, ConfiguredSeq

\* TypeOK is inductive: every handler step writes well-typed rows.
LEMMA TypeStep == TypeOK /\ [Next]_vars => TypeOK'
<1> SUFFICES ASSUME TypeOK, [Next]_vars PROVE TypeOK'
  OBVIOUS
<1> USE ReceiptConstants
<1>1. ASSUME NEW a \in Adm, NEW u \in Utr \cup {NoUtr}, Insert(a, u)
      PROVE  TypeOK'
  BY <1>1 DEF Insert, TypeOK, Admission
<1>2. ASSUME NEW a \in Adm, NEW p \in BOOLEAN, UpdateStatus(a, p)
      PROVE  TypeOK'
  BY <1>2 DEF UpdateStatus, TypeOK, Admission
<1>3. ASSUME NEW a \in Adm, SoftDelete(a) PROVE TypeOK'
  BY <1>3 DEF SoftDelete, TypeOK, Admission
<1>4. ASSUME NEW q \in Req, NEW a \in Adm, Approve(q, a) PROVE TypeOK'
  <2>1. adm' \in [Adm -> Admission]
    <3> DEFINE v == IF adm[a].paid THEN TRUE ELSE adm[a].verified
               new == [[adm[a] EXCEPT !.pending = FALSE] EXCEPT !.verified = v]
    <3>1. adm[a] \in Admission
      BY DEF TypeOK
    <3>2. v \in BOOLEAN
      BY <3>1 DEF Admission
    <3>3. new \in Admission
      BY <3>1, <3>2 DEF Admission
    <3>4. adm' = [adm EXCEPT ![a] = new]
      BY <1>4 DEF Approve
    <3> QED BY <3>3, <3>4 DEF TypeOK
  <2>2. req' \in [Req -> Request]
    <3>1. adm[a].utr \in Utr \cup {NoUtr}
      BY DEF TypeOK, Admission
    <3> DEFINE in == [adm |-> a, kind |-> "registration", slot |-> 0,
                      utr |-> adm[a].utr, auto |-> TRUE]
               new == [Idle EXCEPT !.pc = "check", !.input = in]
    <3>2. in \in Input
      BY <3>1 DEF Input, Kinds, Slots
    <3>3. new \in Request
      BY <3>2, IdleTyped DEF Request, Pcs
    <3>4. req' = [req EXCEPT ![q] = new] \/ req' = req
      BY <1>4 DEF Approve
    <3> HIDE DEF new
    <3> QED BY <3>3, <3>4 DEF TypeOK
  <2> QED BY <1>4, <2>1, <2>2 DEF Approve, TypeOK
<1>5. ASSUME NEW q \in Req, CheckRegistration(q) PROVE TypeOK'
  BY <1>5, IdleTyped DEF CheckRegistration, Done, TypeOK, Request, Pcs
<1>6. ASSUME NEW q \in Req, NEW a \in Adm, NEW k \in HandKinds, NEW s \in Slots,
             NEW u \in Utr \cup {NoUtr}, CreateReceipt(q, a, k, s, u)
      PROVE  TypeOK'
  <2> DEFINE in == [adm |-> a, kind |-> k, slot |-> s, utr |-> u,
                    auto |-> FALSE]
             new == [Idle EXCEPT !.pc = "config", !.input = in]
  <2>1. in \in Input
    BY DEF Input, Kinds
  <2>2. new \in Request
    BY <2>1, IdleTyped DEF Request, Pcs
  <2>3. req' = [req EXCEPT ![q] = new]
    BY <1>6 DEF CreateReceipt
  <2> HIDE DEF new
  <2> QED BY <1>6, <2>2, <2>3 DEF CreateReceipt, TypeOK
<1>7. ASSUME NEW q \in Req, ReadConfig(q) PROVE TypeOK'
  <2>1. PICK c \in {config, NoConfig} :
              req' = [req EXCEPT ![q].pc = "number", ![q].cfg = c]
    BY <1>7 DEF ReadConfig
  <2> DEFINE new == [[req[q] EXCEPT !.pc = "number"] EXCEPT !.cfg = c]
  <2>2. c \in Config
    BY IdleTyped DEF TypeOK
  <2>3. new \in Request
    BY <2>2 DEF TypeOK, Request, Pcs
  <2>4. req' = [req EXCEPT ![q] = new]
    BY <2>1
  <2> HIDE DEF new
  <2> QED BY <1>7, <2>3, <2>4 DEF ReadConfig, TypeOK
<1>8. ASSUME NEW q \in Req, InsertConfigured(q) PROVE TypeOK'
  <2> DEFINE s == ConfiguredSeq(req[q].cfg.start)
             n == [pfx |-> req[q].cfg.pfx, seq |-> s]
  <2>1. /\ req[q].input \in Input /\ s \in Nat /\ s + 1 \in Nat
        /\ n \in Number /\ "counter" \in Sources
    BY <1>8, ConfiguredSeqTyped
       DEF InsertConfigured, TypeOK, Request, Config, Number, Sources
  <2>2. InsertRow(req[q].input, n, "counter", s + 1)
    BY <1>8 DEF InsertConfigured
  <2>3. receipts' \subseteq Receipt /\ IsFiniteSet(receipts') /\ nextSeq' \in Nat
    BY <2>1, <2>2, InsertTypes
  <2> QED BY <1>8, <2>3, IdleTyped DEF InsertConfigured, Done, TypeOK
<1>9. ASSUME NEW q \in Req, CountLegacy(q) PROVE TypeOK'
  <2>1. Cardinality({r \in Live : r.no.pfx = Legacy}) \in Nat
    BY FS_Subset, FS_CardinalityType DEF TypeOK, Live
  <2> QED BY <1>9, <2>1 DEF CountLegacy, TypeOK, Request, Pcs
<1>10. ASSUME NEW q \in Req, InsertLegacy(q) PROVE TypeOK'
  <2> DEFINE n == [pfx |-> Legacy, seq |-> req[q].count + 1]
  <2>1. /\ req[q].input \in Input /\ nextSeq \in Nat
        /\ n \in Number /\ "legacy" \in Sources
    BY DEF TypeOK, Request, Number, Sources
  <2>2. InsertRow(req[q].input, n, "legacy", nextSeq)
    BY <1>10 DEF InsertLegacy
  <2>3. receipts' \subseteq Receipt /\ IsFiniteSet(receipts') /\ nextSeq' \in Nat
    BY <2>1, <2>2, InsertTypes
  <2> QED BY <1>10, <2>3, IdleTyped DEF InsertLegacy, Done, TypeOK
<1>11. ASSUME NEW q \in Req, NEW n \in Typed, InsertTyped(q, n) PROVE TypeOK'
  <2>1. /\ req[q].input \in Input /\ nextSeq \in Nat
        /\ n \in Number /\ "typed" \in Sources
    BY DEF TypeOK, Request, Number, Sources
  <2>2. InsertRow(req[q].input, n, "typed", nextSeq)
    BY <1>11 DEF InsertTyped
  <2>3. receipts' \subseteq Receipt /\ IsFiniteSet(receipts') /\ nextSeq' \in Nat
    BY <2>1, <2>2, InsertTypes
  <2> QED BY <1>11, <2>3, IdleTyped DEF InsertTyped, Done, TypeOK
<1>12. ASSUME NEW r \in receipts, DeleteReceipt(r) PROVE TypeOK'
  <2>1. [r EXCEPT !.live = FALSE] \in Receipt
    BY DEF TypeOK, Receipt
  <2>2. IsFiniteSet(receipts \ {r})
    BY FS_RemoveElement DEF TypeOK
  <2>3. IsFiniteSet(receipts')
    BY <1>12, <2>2, FS_AddElement DEF DeleteReceipt
  <2> QED BY <1>12, <2>1, <2>3 DEF DeleteReceipt, TypeOK
<1>13. ASSUME NEW p \in Prefix \cup {NoPrefix}, NEW s \in Starts, SetConfig(p, s)
       PROVE  TypeOK'
  BY <1>13 DEF SetConfig, TypeOK, Config
<1>14. CASE UNCHANGED vars
  BY <1>14 DEF vars, TypeOK
<1> QED BY <1>1, <1>2, <1>3, <1>4, <1>5, <1>6, <1>7, <1>8, <1>9, <1>10, <1>11,
           <1>12, <1>13, <1>14 DEF Next

LEMMA TypeInit == Init => TypeOK
<1> SUFFICES ASSUME Init PROVE TypeOK
  OBVIOUS
<1>1. receipts \subseteq Receipt /\ IsFiniteSet(receipts)
  BY FS_EmptySet DEF Init
<1> QED BY <1>1, IdleTyped, ReceiptConstants
        DEF Init, TypeOK, Admission, Config

\* The rows, the counter and every request keep their types in every state.
THEOREM TypeCorrect == Spec => []TypeOK
BY TypeInit, TypeStep, PTL DEF Spec

-----------------------------------------------------------------------------
(* What a step does to the receipts table *)

Untouched == UNCHANGED <<receipts, nextSeq>>

\* A row is added by a transaction: its key is new, no index objects, a counter
\* number is at or above next_seq, which ends one beyond it, and an automatic
\* row is the one some request was carrying.
Adds(r) ==
    /\ r \in Receipt /\ r.live /\ ~Violates(r)
    /\ \A s \in receipts : s.id # r.id
    /\ receipts' = receipts \cup {r}
    /\ r.by = "counter" => r.no.seq >= nextSeq /\ nextSeq' = r.no.seq + 1
    /\ r.by # "counter" => nextSeq' = nextSeq
    /\ r.auto => \E q \in Req : /\ req[q].input.auto
                                /\ r.adm = req[q].input.adm
                                /\ r.utr = req[q].input.utr

\* Every row insertReceipt writes is added in that sense.
LEMMA InsertAdds ==
  ASSUME TypeOK, NEW in \in Input, NEW n \in Number, NEW source \in Sources,
         NEW seqAfter \in Nat, InsertRow(in, n, source, seqAfter),
         source = "counter" => n.seq >= nextSeq /\ seqAfter = n.seq + 1,
         source # "counter" => seqAfter = nextSeq,
         in.auto => \E q \in Req : req[q].input = in
  PROVE  Untouched \/ \E r \in Receipt : Adds(r)
<1>1. CASE UNCHANGED <<receipts, nextSeq>>
  BY <1>1 DEF Untouched
<1>2. ASSUME NEW id \in Rcpt \ {r.id : r \in receipts},
             LET r == Row(in, id, n, source)
             IN  /\ r \in Receipt /\ ~Violates(r)
                 /\ receipts' = receipts \cup {r} /\ nextSeq' = seqAfter
      PROVE  \E r \in Receipt : Adds(r)
  <2> DEFINE r == Row(in, id, n, source)
  <2>1. /\ r.live /\ r.id = id /\ r.by = source /\ r.no = n
        /\ r.auto = in.auto /\ r.adm = in.adm /\ r.utr = in.utr
    BY DEF Row
  <2>2. /\ r \in Receipt /\ ~Violates(r)
        /\ receipts' = receipts \cup {r} /\ nextSeq' = seqAfter
    BY <1>2
  <2>3. \A s \in receipts : s.id # r.id
    BY <2>1
  <2> HIDE DEF r
  <2>4. Adds(r)
    BY <2>1, <2>2, <2>3 DEF Adds
  <2> QED BY <2>2, <2>4
<1> QED BY <1>1, <1>2, InsertCases

\* Every step leaves the table alone, adds one row or voids one.
LEMMA TableStep ==
  ASSUME TypeOK, [Next]_vars
  PROVE  \/ Untouched
         \/ \E r \in Receipt : Adds(r)
         \/ \E r \in receipts : DeleteReceipt(r)
<1>1. ASSUME NEW q \in Req, InsertConfigured(q)
      PROVE  Untouched \/ \E r \in Receipt : Adds(r)
  <2> DEFINE s == ConfiguredSeq(req[q].cfg.start)
             n == [pfx |-> req[q].cfg.pfx, seq |-> s]
  <2>1. /\ req[q].input \in Input /\ s \in Nat /\ s + 1 \in Nat
        /\ s >= nextSeq /\ n \in Number /\ "counter" \in Sources
    BY <1>1, ConfiguredSeqTyped, ReceiptConstants
       DEF InsertConfigured, TypeOK, Request, Config, Number, Sources
  <2>2. InsertRow(req[q].input, n, "counter", s + 1)
    BY <1>1 DEF InsertConfigured
  <2>3. n.seq = s
    OBVIOUS
  <2> HIDE DEF s, n
  <2> QED BY <2>1, <2>2, <2>3, InsertAdds
<1>2. ASSUME NEW q \in Req, InsertLegacy(q)
      PROVE  Untouched \/ \E r \in Receipt : Adds(r)
  <2> DEFINE n == [pfx |-> Legacy, seq |-> req[q].count + 1]
  <2>1. /\ req[q].input \in Input /\ nextSeq \in Nat
        /\ n \in Number /\ "legacy" \in Sources
    BY DEF TypeOK, Request, Number, Sources
  <2>2. InsertRow(req[q].input, n, "legacy", nextSeq)
    BY <1>2 DEF InsertLegacy
  <2> HIDE DEF n
  <2> QED BY <2>1, <2>2, InsertAdds
<1>3. ASSUME NEW q \in Req, NEW n \in Typed, InsertTyped(q, n)
      PROVE  Untouched \/ \E r \in Receipt : Adds(r)
  <2>1. /\ req[q].input \in Input /\ nextSeq \in Nat
        /\ n \in Number /\ "typed" \in Sources
    BY ReceiptConstants DEF TypeOK, Request, Number, Sources
  <2>2. InsertRow(req[q].input, n, "typed", nextSeq)
    BY <1>3 DEF InsertTyped
  <2> QED BY <2>1, <2>2, InsertAdds
<1> QED
  BY <1>1, <1>2, <1>3
     DEF Next, vars, Untouched, Insert, UpdateStatus, SoftDelete, Approve,
         CheckRegistration, CreateReceipt, ReadConfig, CountLegacy, SetConfig

-----------------------------------------------------------------------------
(* The inductive invariant *)

\* What was declared at submission is never rewritten, and a verification is
\* never taken back.
LEMMA AdmissionStep ==
  ASSUME TypeOK, [Next]_vars, NEW a \in Adm, adm[a].row # "none"
  PROVE  /\ adm'[a].row # "none"
         /\ adm'[a].utr = adm[a].utr
         /\ adm[a].paid => adm'[a].paid
         /\ adm[a].verified => adm'[a].verified
<1>1. ASSUME NEW b \in Adm, NEW u \in Utr \cup {NoUtr}, Insert(b, u)
      PROVE  adm'[a] = adm[a]
  BY <1>1 DEF Insert, TypeOK
<1>2. ASSUME NEW b \in Adm, NEW p \in BOOLEAN, UpdateStatus(b, p)
      PROVE  /\ adm'[a].row = adm[a].row /\ adm'[a].utr = adm[a].utr
             /\ adm'[a].paid = adm[a].paid /\ adm'[a].verified = adm[a].verified
  BY <1>2 DEF UpdateStatus, TypeOK, Admission
<1>3. ASSUME NEW b \in Adm, SoftDelete(b)
      PROVE  /\ adm'[a].row # "none" /\ adm'[a].utr = adm[a].utr
             /\ adm'[a].paid = adm[a].paid /\ adm'[a].verified = adm[a].verified
  BY <1>3 DEF SoftDelete, TypeOK, Admission
<1>4. ASSUME NEW q \in Req, NEW b \in Adm, Approve(q, b)
      PROVE  /\ adm'[a].row = adm[a].row /\ adm'[a].utr = adm[a].utr
             /\ adm'[a].paid = adm[a].paid
             /\ adm[a].verified => adm'[a].verified
  BY <1>4 DEF Approve, TypeOK, Admission
<1>5. CASE UNCHANGED adm
  BY <1>5
<1>6. \/ \E b \in Adm, u \in Utr \cup {NoUtr} : Insert(b, u)
      \/ \E b \in Adm, p \in BOOLEAN : UpdateStatus(b, p)
      \/ \E b \in Adm : SoftDelete(b)
      \/ \E q \in Req, b \in Adm : Approve(q, b)
      \/ UNCHANGED adm
  BY DEF Next, vars, CheckRegistration, CreateReceipt, ReadConfig, CountLegacy,
         SetConfig, InsertConfigured, InsertLegacy, InsertTyped, DeleteReceipt
<1> QED BY <1>1, <1>2, <1>3, <1>4, <1>5, <1>6

\* What a record carries keeps agreeing with its admission.
LEMMA DeclaredStable ==
  ASSUME TypeOK, [Next]_vars, NEW x, x.adm \in Adm, CarriesDeclared(x)
  PROVE  CarriesDeclared(x)'
BY AdmissionStep DEF CarriesDeclared

\* Only approve() gives a request an automatic receipt to write.
LEMMA InputSources ==
  ASSUME TypeOK, [Next]_vars, NEW q \in Req
  PROVE  \/ \E p \in Req, a \in Adm : Approve(p, a)
         \/ req'[q].input = req[q].input
         \/ ~req'[q].input.auto
<1> DEFINE Kept == req'[q].input = req[q].input \/ ~req'[q].input.auto
<1>1. ASSUME NEW p \in Req, Done(p) PROVE Kept
  BY <1>1 DEF Done, Idle, NoInput, TypeOK
<1>2. ASSUME NEW p \in Req, CheckRegistration(p) PROVE Kept
  BY <1>2, <1>1 DEF CheckRegistration, TypeOK, Request
<1>3. ASSUME NEW p \in Req, NEW a \in Adm, NEW k \in HandKinds,
             NEW s \in Slots, NEW u \in Utr \cup {NoUtr},
             CreateReceipt(p, a, k, s, u)
      PROVE  Kept
  BY <1>3 DEF CreateReceipt, Idle, TypeOK
<1>4. ASSUME NEW p \in Req, ReadConfig(p) PROVE Kept
  BY <1>4 DEF ReadConfig, TypeOK, Request
<1>5. ASSUME NEW p \in Req, CountLegacy(p) PROVE Kept
  BY <1>5 DEF CountLegacy, TypeOK, Request
<1>6. ASSUME NEW p \in Req, InsertConfigured(p) \/ InsertLegacy(p)
                             \/ \E n \in Typed : InsertTyped(p, n)
      PROVE  Kept
  BY <1>6, <1>1 DEF InsertConfigured, InsertLegacy, InsertTyped
<1>7. CASE UNCHANGED req
  BY <1>7
<1>8. \/ \E p \in Req, a \in Adm : Approve(p, a)
      \/ \E p \in Req : CheckRegistration(p) \/ ReadConfig(p) \/ CountLegacy(p)
                        \/ InsertConfigured(p) \/ InsertLegacy(p)
                        \/ \E n \in Typed : InsertTyped(p, n)
      \/ \E p \in Req, a \in Adm, k \in HandKinds, s \in Slots,
            u \in Utr \cup {NoUtr} : CreateReceipt(p, a, k, s, u)
      \/ UNCHANGED req
  BY DEF Next, vars, Insert, UpdateStatus, SoftDelete, DeleteReceipt, SetConfig
<1> QED BY <1>2, <1>3, <1>4, <1>5, <1>6, <1>7, <1>8

\* The fresh request of approve(), and no other, starts carrying a payment:
\* whatever a request carries after a step it carried before, or it agrees
\* with the row just approved.
LEMMA InputStep ==
  ASSUME TypeOK, [Next]_vars, NEW q \in Req,
         \A p \in Req : CarriesDeclared(req[p].input)
  PROVE  CarriesDeclared(req[q].input)'
<1>1. CarriesDeclared(req[q].input)' \/ req'[q].input # req[q].input
  <2>1. req[q].input.adm \in Adm
    BY DEF TypeOK, Request, Input
  <2>2. CASE req'[q].input = req[q].input
    BY <2>1, <2>2, AdmissionStep DEF CarriesDeclared
  <2> QED BY <2>2
<1>2. ASSUME req'[q].input # req[q].input PROVE CarriesDeclared(req[q].input)'
  <2>1. CASE ~req'[q].input.auto
    BY <2>1 DEF CarriesDeclared
  <2>2. CASE req'[q].input.auto
    <3>1. PICK p \in Req, a \in Adm : Approve(p, a)
      BY <1>2, <2>2, InputSources
    <3>2. /\ p = q /\ adm[a].paid /\ adm[a].row = "live"
          /\ req'[q].input.adm = a /\ req'[q].input.utr = adm[a].utr
      BY <1>2, <3>1 DEF Approve, Idle, TypeOK
    <3>3. adm'[a].row = "live" /\ adm'[a].paid /\ adm'[a].verified
          /\ adm'[a].utr = adm[a].utr
      BY <3>1, <3>2 DEF Approve, TypeOK, Admission
    <3> QED BY <3>2, <3>3 DEF CarriesDeclared
  <2> QED BY <2>1, <2>2
<1> QED BY <1>1, <1>2

LEMMA InvInit == Init => IInv
BY TypeInit
   DEF Init, IInv, CounterAhead, DrawnOnce, NumbersUnique, OneRegistration,
       Live, CarriesDeclared, Idle, NoInput

\* IInv is inductive.  A row added finds no live row it conflicts with, and a
\* counter number larger than all before it; a row voided keeps its number.
LEMMA InvStep == IInv /\ [Next]_vars => IInv'
<1> SUFFICES ASSUME IInv, [Next]_vars PROVE IInv'
  OBVIOUS
<1>1. TypeOK /\ TypeOK'
  BY TypeStep DEF IInv
<1>2. \A q \in Req : CarriesDeclared(req[q].input)'
  BY <1>1, InputStep DEF IInv
<1>3. CASE Untouched
  <2>1. receipts' = receipts /\ nextSeq' = nextSeq
    BY <1>3 DEF Untouched
  <2>2. \A r \in receipts : CarriesDeclared(r)'
    BY <1>1, DeclaredStable DEF IInv, TypeOK, Receipt
  <2> QED
    BY <1>1, <1>2, <2>1, <2>2
       DEF IInv, CounterAhead, DrawnOnce, NumbersUnique, OneRegistration, Live
<1>4. ASSUME NEW n \in Receipt, Adds(n) PROVE IInv'
  <2>1. receipts' = receipts \cup {n} /\ nextSeq' \in Nat /\ nextSeq \in Nat
    BY <1>1, <1>4 DEF Adds, TypeOK
  <2>2. \A r \in receipts : r \in Receipt /\ r.no.seq \in Nat
    BY <1>1 DEF TypeOK, Receipt, Number
  <2>3. n.no.seq \in Nat
    BY DEF Receipt, Number
  <2>4. nextSeq' >= nextSeq /\ (n.by = "counter" => n.no.seq < nextSeq')
    BY <1>4, <2>1, <2>3 DEF Adds
  <2>5. CounterAhead'
    BY <2>1, <2>2, <2>4 DEF IInv, CounterAhead
  <2>6. DrawnOnce'
    <3>1. \A r \in receipts :
             r.by = "counter" /\ n.by = "counter" => r.no.seq < n.no.seq
      BY <1>4, <2>1, <2>2, <2>3 DEF IInv, CounterAhead, Adds
    <3> QED BY <2>1, <2>2, <2>3, <3>1 DEF IInv, DrawnOnce
  <2>7. NumbersUnique' /\ OneRegistration'
        /\ (\A r, s \in Live : r.utr = s.utr /\ r.utr # NoUtr => r = s)'
    BY <1>4, <2>1 DEF IInv, NumbersUnique, OneRegistration, Live, Adds, Violates
  <2>8. \A r, s \in receipts' : r.id = s.id => r = s
    BY <1>4, <2>1 DEF IInv, Adds
  <2>9. \A r \in receipts : CarriesDeclared(r)'
    BY <1>1, DeclaredStable DEF IInv, TypeOK, Receipt
  <2>10. CarriesDeclared(n)'
    <3>1. CASE n.auto
      <4>1. PICK q \in Req : /\ req[q].input.auto
                             /\ n.adm = req[q].input.adm
                             /\ n.utr = req[q].input.utr
        BY <1>4, <3>1 DEF Adds
      <4>2. CarriesDeclared(n) /\ n.adm \in Adm
        BY <4>1 DEF IInv, CarriesDeclared, Receipt
      <4> QED BY <1>1, <4>2, DeclaredStable
    <3> QED BY <3>1 DEF CarriesDeclared
  <2> QED BY <1>1, <1>2, <2>1, <2>5, <2>6, <2>7, <2>8, <2>9, <2>10 DEF IInv
<1>5. ASSUME NEW d \in receipts, DeleteReceipt(d) PROVE IInv'
  <2> DEFINE v == [d EXCEPT !.live = FALSE]
  <2>1. /\ d \in Receipt
        /\ ~v.live /\ v.id = d.id /\ v.no = d.no /\ v.by = d.by
        /\ v.auto = d.auto /\ v.adm = d.adm /\ v.utr = d.utr
    BY <1>1 DEF TypeOK, Receipt
  <2>2. receipts' = (receipts \ {d}) \cup {v} /\ nextSeq' = nextSeq
    BY <1>5 DEF DeleteReceipt
  <2> HIDE DEF v
  <2>3. Live' \subseteq Live
    BY <2>1, <2>2 DEF Live
  <2>4. CounterAhead' /\ DrawnOnce'
    BY <2>1, <2>2 DEF IInv, CounterAhead, DrawnOnce
  <2>5. NumbersUnique' /\ OneRegistration'
        /\ (\A r, s \in Live : r.utr = s.utr /\ r.utr # NoUtr => r = s)'
    BY <2>3 DEF IInv, NumbersUnique, OneRegistration
  <2>6. \A r, s \in receipts' : r.id = s.id => r = s
    BY <2>1, <2>2 DEF IInv
  <2>7. \A r \in receipts : CarriesDeclared(r)'
    BY <1>1, DeclaredStable DEF IInv, TypeOK, Receipt
  <2>8. CarriesDeclared(v)'
    BY <2>1, <2>7 DEF CarriesDeclared
  <2> QED BY <1>1, <1>2, <2>2, <2>4, <2>5, <2>6, <2>7, <2>8 DEF IInv
<1> QED BY <1>1, <1>3, <1>4, <1>5, TableStep

LEMMA Inductive == Spec => []IInv
BY InvInit, InvStep, PTL DEF Spec

\* No two live receipts share a number, whichever of the three sources the
\* numbers came from and however the requests interleave.
THEOREM NumbersAlwaysUnique == Spec => []NumbersUnique
<1>1. IInv => NumbersUnique
  BY DEF IInv
<1> QED BY <1>1, Inductive, PTL

\* No number drawn from the counter is ever drawn again, voided or not.
THEOREM DrawnOnlyOnce == Spec => []DrawnOnce
<1>1. IInv => DrawnOnce
  BY DEF IInv
<1> QED BY <1>1, Inductive, PTL

\* At most one live registration receipt per admission.
THEOREM OneRegistrationAlways == Spec => []OneRegistration
<1>1. IInv => OneRegistration
  BY DEF IInv
<1> QED BY <1>1, Inductive, PTL

\* A declared transfer receipted by approve() has no second live receipt.
THEOREM TransferOnce == Spec => []TransferReceiptedOnce
<1>1. IInv => TransferReceiptedOnce
  BY DEF IInv, TransferReceiptedOnce, CarriesDeclared, Live
<1> QED BY <1>1, Inductive, PTL

\* No step of any handler lowers the counter.
THEOREM CounterMovesForward == Spec => CounterForward
<1>1. IInv /\ [Next]_vars => [nextSeq' >= nextSeq]_vars
  <2> SUFFICES ASSUME IInv, [Next]_vars PROVE nextSeq' >= nextSeq
    OBVIOUS
  <2>1. TypeOK
    BY DEF IInv
  <2> QED BY <2>1, TableStep
          DEF Untouched, Adds, DeleteReceipt, TypeOK, Receipt, Number
<1> QED BY <1>1, Inductive, PTL DEF Spec, CounterForward

-----------------------------------------------------------------------------
(* Refinement *)

Book == {Abstract(r) : r \in Live}
Spent == {r.no : r \in {s \in receipts : s.by = "counter"}}

\* A row added by a transaction is an entry recorded in the ledger: its number
\* and reference are free among the live rows, and a counter number is beyond
\* all the counter ever gave.
LEMMA AddsRecords ==
  ASSUME IInv, NEW n \in Receipt, Adds(n)
  PROVE  Ledger!LNext
<1> DEFINE e == Abstract(n)
<1>1. /\ e.id = n.id /\ e.no = n.no /\ e.ref = n.utr
      /\ e.drawn = (n.by = "counter")
  BY DEF Abstract
<1>2. e \in Ledger!Entry
  BY DEF Abstract, Ledger!Entry, Receipt
<1>3. Live' = Live \cup {n}
  BY DEF Adds, Live
<1>4. Book' = Book \cup {e}
  BY <1>3 DEF Book
<1>5. Spent' = IF e.drawn THEN Spent \cup {e.no} ELSE Spent
  <2>1. receipts' = receipts \cup {n}
    BY DEF Adds
  <2>2. CASE n.by = "counter"
    <3>1. Spent' = Spent \cup {n.no}
      BY <2>1, <2>2 DEF Spent
    <3> QED BY <1>1, <2>2, <3>1
  <2>3. CASE n.by # "counter"
    <3>1. Spent' = Spent
      BY <2>1, <2>3 DEF Spent
    <3> QED BY <1>1, <2>3, <3>1
  <2> QED BY <2>2, <2>3
<1>6. \A b \in Book : /\ b.id # e.id /\ b.no # e.no
                      /\ e.ref # NoUtr => b.ref # e.ref
  <2> SUFFICES ASSUME NEW l \in Live
               PROVE  /\ l.id # n.id /\ l.no # n.no
                      /\ n.utr # NoUtr => l.utr # n.utr
    BY <1>1 DEF Book, Abstract
  <2> QED BY DEF Adds, Violates, Live
<1>7. e.drawn => e.no \notin Spent
  <2> SUFFICES ASSUME n.by = "counter", NEW r \in receipts, r.by = "counter"
               PROVE  r.no # n.no
    BY <1>1 DEF Spent
  <2>1. r.no.seq \in Nat /\ n.no.seq \in Nat /\ nextSeq \in Nat
    BY DEF IInv, TypeOK, Receipt, Number
  <2>2. r.no.seq < nextSeq /\ n.no.seq >= nextSeq
    BY DEF IInv, CounterAhead, Adds
  <2> QED BY <2>1, <2>2
<1>8. e \in Book' \ Book
  BY <1>4, <1>6
<1> HIDE DEF e
<1>9. Ledger!Record(e)
  BY <1>4, <1>5, <1>6, <1>7 DEF Ledger!Record, Ledger!Fresh, Book, Spent
<1> QED BY <1>2, <1>8, <1>9 DEF Ledger!LNext, Book

\* Voiding a row removes its entry and gives no number back.
LEMMA DeleteVoids ==
  ASSUME IInv, NEW d \in receipts, DeleteReceipt(d)
  PROVE  Ledger!LNext
<1> DEFINE e == Abstract(d)
           v == [d EXCEPT !.live = FALSE]
<1>1. d \in Live /\ d \in Receipt
  BY DEF DeleteReceipt, IInv, TypeOK
<1>2. ~v.live /\ v.no = d.no /\ v.by = d.by
  BY <1>1 DEF Receipt
<1>3. receipts' = (receipts \ {d}) \cup {v}
  BY DEF DeleteReceipt
<1> HIDE DEF v
<1>4. Live' = Live \ {d}
  BY <1>1, <1>2, <1>3 DEF Live
<1>5. \A l \in Live : Abstract(l) = e => l = d
  BY <1>1 DEF Abstract, IInv, Live
<1>6. Book' = Book \ {e} /\ e \in Book
  BY <1>1, <1>4, <1>5 DEF Book
<1>7. Spent' = Spent
  BY <1>2, <1>3 DEF Spent
<1> HIDE DEF e
<1>8. Ledger!Void(e)
  BY <1>6, <1>7 DEF Ledger!Void, Book, Spent
<1> QED BY <1>6, <1>8 DEF Ledger!LNext, Book

\* The receipts module implements the payment ledger.
THEOREM ReceiptsImplementLedger == Spec => ImplementsLedger
<1>1. Init => Ledger!LInit
  BY DEF Init, Ledger!LInit, Live
<1>2. IInv /\ [Next]_vars => [Ledger!LNext]_(Ledger!lvars)
  <2> SUFFICES ASSUME IInv, [Next]_vars
               PROVE  Ledger!LNext \/ UNCHANGED Ledger!lvars
    OBVIOUS
  <2>1. CASE Untouched
    BY <2>1 DEF Untouched, Ledger!lvars, Live
  <2>2. TypeOK
    BY DEF IInv
  <2> QED BY <2>1, <2>2, TableStep, AddsRecords, DeleteVoids
<1> QED BY <1>1, <1>2, Inductive, PTL DEF Spec, ImplementsLedger, Ledger!LSpec
=============================================================================
