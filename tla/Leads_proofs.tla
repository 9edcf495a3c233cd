---------------------------- MODULE Leads_proofs ----------------------------
(***************************************************************************)
(* Proofs about what becomes of leads: first about LeadConversion, for any *)
(* pipeline and any number of requests, then about BulkImport, for any     *)
(* people, files and number of jobs.                                       *)
(***************************************************************************)
EXTENDS LeadConversion, BulkImport, FiniteSetTheorems, TLAPS

-----------------------------------------------------------------------------
(* The conversion of a lead *)

\* The idle request and the missing discount are well typed.
LEMMA EmptyTyped == Idle \in Request /\ NoDiscount \in Discount
BY ConversionConstants
DEF Idle, Request, NoDiscount, Discount, Roles, Percent, Decisions

\* What a request asks applyDiscount to write is a discount, signed off if it
\* is above the cap and approved, and holding only a conversion.
LEMMA RequestedSound ==
  ASSUME IInv, NEW q \in Req
  PROVE  /\ Requested(q) \in Discount
         /\ Requested(q).status = "approved" /\ Requested(q).pct = "high"
               => Requested(q).approver \in Managers
         /\ Requested(q).held # NoStage =>
               /\ Requested(q).status = "pending_approval"
               /\ Requested(q).held \in Success
<1> DEFINE auto == ~NeedsApproval(req[q].role, req[q].pct)
<1>1. /\ req[q].role \in Roles /\ req[q].pct \in Percent
      /\ req[q].to \in Stage \cup {NoStage} /\ req[q].hold \in BOOLEAN
  BY DEF IInv, TypeOK, Request
<1>2. CASE auto
  BY <1>1, <1>2
     DEF Requested, Discount, NeedsApproval, Decisions, Roles, Managers
<1>3. CASE ~auto
  <2>1. Requested(q).status = "pending_approval"
    BY <1>3 DEF Requested
  <2>2. req[q].hold => req[q].to \in Success
    BY DEF IInv, Sound
  <2> QED BY <1>1, <1>3, <2>1, <2>2
       DEF Requested, Discount, Decisions, Roles
<1> QED BY <1>2, <1>3

\* A request that begins as r is sound if r is.
LEMMA BeginKeeps ==
  ASSUME IInv, NEW q \in Req, NEW r \in Request, Begin(q, r), Sound(r),
         UNCHANGED <<stage, converted, disc>>
  PROVE  IInv'
<1>1. mixed' \in BOOLEAN
  BY DEF Begin
<1>2. req' = [req EXCEPT ![q] = r]
  BY DEF Begin
<1> QED BY <1>1, <1>2 DEF IInv, TypeOK, SignedOff

\* A request that ends leaves nothing unsound behind.
LEMMA DoneSound ==
  ASSUME IInv, NEW q \in Req, Done(q)
  PROVE  /\ req' \in [Req -> Request]
         /\ \A p \in Req : Sound(req'[p])
BY EmptyTyped DEF IInv, TypeOK, Done, Idle, Sound

\* The stamp is set or not.
LEMMA StampBoolean ==
  ASSUME converted \in BOOLEAN, NEW old, NEW new
  PROVE  ConvertedAfter(old, new) \in BOOLEAN
<1>1. CASE old \notin Success /\ new \in Success
  BY <1>1, Zenon DEF ConvertedAfter
<1>2. CASE old \in Success /\ new \notin Success
  BY <1>2, Zenon DEF ConvertedAfter
<1>3. CASE ~(old \notin Success /\ new \in Success)
           /\ ~(old \in Success /\ new \notin Success)
  BY <1>3, Zenon DEF ConvertedAfter
<1> QED BY <1>1, <1>2, <1>3, Zenon

\* A decision that goes on to move the lead keeps what it knows.
LEMMA MovesOn ==
  ASSUME IInv, NEW q \in Req, req[q].to \in Stage,
         req' = [req EXCEPT ![q] = [@ EXCEPT !.pc = "read"]]
  PROVE  /\ req' \in [Req -> Request]
         /\ \A p \in Req : Sound(req'[p])
<1> DEFINE new == [req[q] EXCEPT !.pc = "read"]
<1>1. req[q] \in Request /\ Sound(req[q])
  BY DEF IInv, TypeOK
<1>2. new \in Request /\ Sound(new)
  BY <1>1 DEF Request, Sound
<1>3. req' = [req EXCEPT ![q] = new]
  BY DEF new
<1> HIDE DEF new
<1> QED BY <1>2, <1>3 DEF IInv, TypeOK

\* Every step keeps IInv.
LEMMA InvStep == IInv /\ [Next]_vars => IInv'
<1> SUFFICES ASSUME IInv, [Next]_vars PROVE IInv'
  OBVIOUS
<1> USE ConversionConstants
<1>1. ASSUME NEW q \in Req, NEW role \in Roles, NEW s \in Stage, NEW p \in Percent,
             StageRequest(q, role, s, p)
      PROVE  IInv'
  <2> DEFINE hold == s \in Success /\ NeedsApproval(role, p)
             r == [Idle EXCEPT !.pc = IF hold THEN "upsert" ELSE "read",
                               !.role = role, !.to = s, !.pct = p, !.hold = hold]
  <2>1. Begin(q, r) /\ UNCHANGED <<stage, converted, disc>>
    BY <1>1 DEF StageRequest
  <2>2. hold \in BOOLEAN /\ (hold => s \in Success)
    OBVIOUS
  <2> HIDE DEF hold
  <2>3. r \in Request /\ Sound(r)
    BY <2>2, EmptyTyped DEF Request, Idle, Sound
  <2> HIDE DEF r
  <2> QED BY <2>1, <2>3, BeginKeeps
<1>2. ASSUME NEW q \in Req, StageRead(q) PROVE IInv'
  <2> DEFINE new == [req[q] EXCEPT !.pc = "write", !.old = stage]
  <2>1. new \in Request /\ Sound(new)
    <3>1. /\ req[q] \in Request /\ stage \in Stage
          /\ Sound(req[q]) /\ req[q].pc = "read"
      BY <1>2 DEF StageRead, IInv, TypeOK
    <3> QED BY <3>1 DEF Request, Sound
  <2>2. req' = [req EXCEPT ![q] = new] /\ UNCHANGED <<stage, converted, disc, mixed>>
    BY <1>2 DEF StageRead
  <2> HIDE DEF new
  <2> QED BY <2>1, <2>2 DEF IInv, TypeOK, SignedOff
<1>3. ASSUME NEW q \in Req, StageWrite(q) PROVE IInv'
  <2>1. stage' \in Stage
    BY <1>3 DEF StageWrite, IInv, TypeOK, Sound
  <2>2. converted' \in BOOLEAN
    <3>1. converted \in BOOLEAN
      BY DEF IInv, TypeOK
    <3>2. ConvertedAfter(req[q].old, req[q].to) \in BOOLEAN
      BY <3>1, StampBoolean
    <3>3. \/ converted' = ConvertedAfter(req[q].old, req[q].to)
          \/ converted' = converted
      BY <1>3, Zenon DEF StageWrite
    <3>4. CASE converted' = ConvertedAfter(req[q].old, req[q].to)
      BY <3>2, <3>4, Zenon
    <3>5. CASE converted' = converted
      BY <3>1, <3>5, Zenon
    <3> QED BY <3>3, <3>4, <3>5, Zenon
  <2>3. req' \in [Req -> Request] /\ \A p \in Req : Sound(req'[p])
    <3>1. CASE Done(q)
      BY <3>1, DoneSound
    <3>2. CASE req' = [req EXCEPT ![q] = [Idle EXCEPT !.pc = "upsert", !.role = req[q].role,
                                                      !.pct = req[q].pct]]
      <4> DEFINE new == [Idle EXCEPT !.pc = "upsert", !.role = req[q].role,
                                     !.pct = req[q].pct]
      <4>1. req[q].role \in Roles /\ req[q].pct \in Percent
        BY DEF IInv, TypeOK, Request
      <4>2. new \in Request /\ Sound(new)
        BY <4>1, EmptyTyped DEF Request, Idle, Sound
      <4> HIDE DEF new
      <4> QED BY <3>2, <4>2 DEF IInv, TypeOK, new
    <3> QED BY <1>3, <3>1, <3>2 DEF StageWrite
  <2> QED BY <1>3, <2>1, <2>2, <2>3 DEF StageWrite, IInv, TypeOK, SignedOff
<1>4. ASSUME NEW q \in Req, NEW role \in Roles, NEW p \in Percent \ {"none"},
             DiscountRequest(q, role, p)
      PROVE  IInv'
  <2> DEFINE r == [Idle EXCEPT !.pc = "upsert", !.role = role, !.pct = p]
  <2>1. r \in Request /\ Sound(r)
    BY EmptyTyped DEF Request, Idle, Sound
  <2> HIDE DEF r
  <2>2. Begin(q, r) /\ UNCHANGED <<stage, converted, disc>>
    BY <1>4 DEF DiscountRequest, r
  <2> QED BY <2>1, <2>2, BeginKeeps
<1>5. ASSUME NEW q \in Req, Upsert(q) PROVE IInv'
  BY <1>5, RequestedSound, DoneSound DEF Upsert, IInv, TypeOK, SignedOff
<1>6. ASSUME NEW q \in Req, NEW role \in Managers, DecideRead(q, role)
      PROVE  IInv'
  <2> DEFINE r == [Idle EXCEPT !.pc = "decide", !.role = role, !.to = disc.held]
  <2>1. disc.held \in Stage \cup {NoStage} /\ role \in Roles
        /\ disc.held \in Success \cup {NoStage}
    BY DEF IInv, TypeOK, Discount, Managers, Roles
  <2>2. r \in Request /\ Sound(r)
    BY <2>1, EmptyTyped DEF Request, Idle, Sound
  <2> HIDE DEF r
  <2>3. Begin(q, r) /\ UNCHANGED <<stage, converted, disc>>
    BY <1>6 DEF DecideRead, r
  <2> QED BY <2>2, <2>3, BeginKeeps
<1>7. ASSUME NEW q \in Req, NEW v \in Decisions, NEW p \in Percent, Decide(q, v, p)
      PROVE  IInv'
  <2>1. req[q].role \in Managers /\ req[q].role \in Roles
    BY <1>7 DEF Decide, IInv, TypeOK, Request, Sound
  <2>2. disc' \in Discount /\ disc'.held = NoStage /\ disc'.approver \in Managers
    BY <1>7, <2>1 DEF Decide, IInv, TypeOK, Discount
  <2>3. req' \in [Req -> Request] /\ \A k \in Req : Sound(req'[k])
    <3>1. CASE Done(q)
      BY <3>1, DoneSound
    <3>2. CASE ~Done(q)
      <4>1. req[q].to \in Stage
        BY <1>7, <3>2 DEF Decide, IInv, TypeOK, Request
      <4>2. req' = [req EXCEPT ![q] = [@ EXCEPT !.pc = "read"]]
        BY <1>7, <3>2 DEF Decide
      <4> QED BY <4>1, <4>2, MovesOn
    <3> QED BY <3>1, <3>2
  <2> QED BY <1>7, <2>2, <2>3 DEF Decide, IInv, TypeOK, SignedOff
<1>8. ASSUME NEW q \in Req, MoveFails(q) PROVE IInv'
  BY <1>8, DoneSound DEF MoveFails, IInv, TypeOK, SignedOff
<1>9. ASSUME NEW q \in Req, NEW role \in Roles, NEW s \in Stage,
             PutRequest(q, role, s)
      PROVE  IInv'
  <2> DEFINE r == [Idle EXCEPT !.pc = "put", !.role = role, !.to = s]
  <2>1. r \in Request /\ Sound(r)
    BY EmptyTyped DEF Request, Idle, Sound
  <2> HIDE DEF r
  <2>2. Begin(q, r) /\ UNCHANGED <<stage, converted, disc>>
    BY <1>9 DEF PutRequest, r
  <2> QED BY <2>1, <2>2, BeginKeeps
<1>10. ASSUME NEW q \in Req, Put(q) PROVE IInv'
  <2>1. req[q].to \in Stage
    BY <1>10 DEF Put, IInv, Sound
  <2> QED BY <1>10, <2>1, DoneSound DEF Put, IInv, TypeOK, SignedOff
<1>11. ASSUME NEW s \in Stage, BulkStatus(s) PROVE IInv'
  BY <1>11 DEF BulkStatus, IInv, TypeOK, SignedOff
<1>12. CASE Captured
  BY <1>12 DEF Captured, IInv, TypeOK, SignedOff
<1>13. ASSUME NEW q \in Req, FollowRead(q) PROVE IInv'
  <2> DEFINE r == [Idle EXCEPT !.pc = "followup"]
  <2>1. r \in Request /\ Sound(r)
    BY EmptyTyped DEF Request, Idle, Sound
  <2> HIDE DEF r
  <2>2. Begin(q, r) /\ UNCHANGED <<stage, converted, disc>>
    BY <1>13 DEF FollowRead, r
  <2> QED BY <2>1, <2>2, BeginKeeps
<1>14. ASSUME NEW q \in Req, FollowWrite(q) PROVE IInv'
  BY <1>14, DoneSound DEF FollowWrite, IInv, TypeOK, SignedOff
<1>15. CASE Crash
  BY <1>15, EmptyTyped DEF Crash, IInv, TypeOK, SignedOff, Idle, Sound
<1>16. CASE UNCHANGED vars
  BY <1>16 DEF vars, IInv, TypeOK, SignedOff
<1> QED BY <1>1, <1>2, <1>3, <1>4, <1>5, <1>6, <1>7, <1>8, <1>9, <1>10, <1>11,
           <1>12, <1>13, <1>14, <1>15, <1>16 DEF Next

LEMMA InvInit == Init => IInv
<1> SUFFICES ASSUME Init PROVE IInv
  OBVIOUS
<1>1. converted = (Entry \in Success)
  BY DEF Init
<1>2. converted \in BOOLEAN
  <2>1. CASE Entry \in Success
    BY <1>1, <2>1
  <2>2. CASE Entry \notin Success
    BY <1>1, <2>2
  <2> QED BY <2>1, <2>2
<1>3. mixed \in BOOLEAN
  BY DEF Init
<1> QED BY <1>2, <1>3, EmptyTyped, ConversionConstants
     DEF Init, IInv, TypeOK, SignedOff, NoDiscount, Idle, Sound

LEMMA Inductive == Spec => []IInv
BY InvInit, InvStep, PTL DEF Spec

\* Type correctness of the pipeline, for every value of the constants.
THEOREM TypeCorrect == Spec => []TypeOK
<1>1. IInv => TypeOK
  BY DEF IInv
<1> QED BY <1>1, Inductive, PTL

\* No interleaving of requests, re-requests and decisions approves a discount
\* above the counsellor's cap without a manager.
THEOREM AlwaysSignedOff == Spec => []SignedOff
<1>1. IInv => SignedOff
  BY DEF IInv
<1> QED BY <1>1, Inductive, PTL

\* Only a pending discount holds a conversion, and what it holds is one.
THEOREM AlwaysHoldsConversion == Spec => []HoldsConversion
<1>1. IInv => HoldsConversion
  BY DEF IInv, HoldsConversion
<1> QED BY <1>1, Inductive, PTL

-----------------------------------------------------------------------------
(* The stamp *)

\* The pipeline starts, and follow-ups move a lead, outside success.
OpenEntry == Entry \notin Success /\ Follow \notin Success

LEMMA StampInit == Init => StampInv
<1> SUFFICES ASSUME Init PROVE StampInv
  OBVIOUS
<1>1. converted <=> stage \in Success
  BY DEF Init
<1>2. \A q \in Req : req[q].pc = "idle"
  BY DEF Init, Idle
<1> QED BY <1>1, <1>2 DEF StampInv, Knows, Busy

\* A request that begins while no other is at work.
LEMMA StampBegin ==
  ASSUME IInv, StampInv, NEW q \in Req, NEW r \in Request, Begin(q, r),
         UNCHANGED <<stage, converted, disc>>,
         ~mixed => Knows(r)
  PROVE  StampInv'
<1> SUFFICES ASSUME ~mixed' PROVE StampInv'
  BY DEF StampInv
<1>1. ~mixed /\ \A p \in Req : ~Busy(p)
  BY DEF Begin
<1>2. req'[q] = r /\ \A p \in Req \ {q} : req'[p] = req[p]
  BY DEF Begin, IInv, TypeOK
<1>3. (converted <=> stage \in Success)'
  BY <1>1 DEF StampInv
<1>4. \A p \in Req \ {q} : req'[p].pc = "idle"
  BY <1>1, <1>2 DEF Busy
<1>5. Knows(req[q])'
  BY <1>1, <1>2 DEF Knows
<1>6. \A p \in Req \ {q} : Knows(req[p])'
  BY <1>4 DEF Knows
<1>7. (\A p, k \in Req : Busy(p) /\ Busy(k) => p = k)'
  BY <1>4 DEF Busy
<1> QED BY <1>3, <1>5, <1>6, <1>7 DEF StampInv

\* A request at work goes on as r, the others being at rest.
LEMMA StampGoesOn ==
  ASSUME IInv, StampInv, NEW q \in Req, Busy(q), NEW r, mixed' = mixed,
         req' = [req EXCEPT ![q] = r],
         ~mixed => Knows(r)' /\ (converted' <=> stage' \in Success)
  PROVE  StampInv'
<1> SUFFICES ASSUME ~mixed PROVE StampInv'
  BY DEF StampInv
<1>1. \A p \in Req \ {q} : ~Busy(p)
  BY DEF StampInv
<1>2. req'[q] = r /\ \A p \in Req \ {q} : req'[p] = req[p]
  BY DEF IInv, TypeOK
<1>3. \A p \in Req \ {q} : req'[p].pc = "idle"
  BY <1>1, <1>2 DEF Busy
<1>4. Knows(req[q])'
  BY <1>2 DEF Knows
<1>5. \A p \in Req \ {q} : Knows(req[p])'
  BY <1>3 DEF Knows
<1>6. (\A p, k \in Req : Busy(p) /\ Busy(k) => p = k)'
  BY <1>3 DEF Busy
<1> QED BY <1>4, <1>5, <1>6 DEF StampInv

LEMMA StampEnds ==
  ASSUME IInv, StampInv, NEW q \in Req, Busy(q), mixed' = mixed, Done(q),
         ~mixed => (converted' <=> stage' \in Success)
  PROVE  StampInv'
<1>1. PICK r : r = Idle
  OBVIOUS
<1>2. Knows(r)'
  BY <1>1 DEF Knows, Idle
<1> QED BY <1>1, <1>2, StampGoesOn DEF Done

LEMMA StampStep ==
  ASSUME OpenEntry, IInv, StampInv, [Next]_vars
  PROVE  StampInv'
<1> USE ConversionConstants
<1>s. ~mixed => (converted <=> stage \in Success) /\ \A q \in Req : Knows(req[q])
  BY DEF StampInv
<1>1. ASSUME NEW q \in Req, NEW role \in Roles, NEW s \in Stage, NEW p \in Percent,
             StageRequest(q, role, s, p)
      PROVE  StampInv'
  <2> DEFINE hold == s \in Success /\ NeedsApproval(role, p)
             r == [Idle EXCEPT !.pc = IF hold THEN "upsert" ELSE "read",
                               !.role = role, !.to = s, !.pct = p, !.hold = hold]
  <2>1. Begin(q, r) /\ UNCHANGED <<stage, converted, disc>>
    BY <1>1 DEF StageRequest
  <2>2. hold \in BOOLEAN /\ (role = "admin" \/ ~converted)
    BY <1>1 DEF StageRequest, MayEdit
  <2> HIDE DEF hold
  <2>3. r \in Request /\ Knows(r)
    BY <2>2, EmptyTyped DEF Request, Idle, Knows
  <2> HIDE DEF r
  <2> QED BY <2>1, <2>3, StampBegin
<1>2. ASSUME NEW q \in Req, StageRead(q) PROVE StampInv'
  <2>1. PICK r : r = [req[q] EXCEPT !.pc = "write", !.old = stage]
    OBVIOUS
  <2>2. /\ req' = [req EXCEPT ![q] = r] /\ UNCHANGED <<stage, converted, mixed>>
        /\ req[q].pc = "read"
    BY <1>2, <2>1 DEF StageRead
  <2>3. r.pc = "write" /\ r.old = stage /\ r.role = req[q].role /\ r.to = req[q].to
    BY <2>1 DEF IInv, TypeOK, Request
  <2>4. ~mixed => Knows(r)' /\ (converted' <=> stage' \in Success)
    BY <1>s, <2>2, <2>3 DEF Knows
  <2> QED BY <2>2, <2>4, StampGoesOn DEF Busy
<1>3. ASSUME NEW q \in Req, StageWrite(q) PROVE StampInv'
  <2>1. req[q].pc = "write" /\ mixed' = mixed
    BY <1>3 DEF StageWrite
  <2>2. ~mixed => (converted' <=> stage' \in Success)
    <3> SUFFICES ASSUME ~mixed PROVE converted' <=> stage' \in Success
      OBVIOUS
    <3>1. req[q].old = stage /\ (converted <=> stage \in Success)
      BY <1>s, <2>1 DEF Knows
    <3>2. CASE stage' = req[q].to /\ converted' = ConvertedAfter(req[q].old, req[q].to)
      <4>1. ConvertedAfter(req[q].old, req[q].to) <=> req[q].to \in Success
        BY <3>1, Zenon DEF ConvertedAfter
      <4> QED BY <3>2, <4>1, Zenon
    <3>3. CASE UNCHANGED <<stage, converted>>
      BY <3>1, <3>3
    <3> QED BY <1>3, <3>2, <3>3 DEF StageWrite
  <2>3. CASE Done(q)
    BY <2>1, <2>2, <2>3, StampEnds DEF Busy
  <2>4. CASE ~Done(q)
    <3>1. PICK r : r = [Idle EXCEPT !.pc = "upsert", !.role = req[q].role,
                                    !.pct = req[q].pct]
      OBVIOUS
    <3>2. req' = [req EXCEPT ![q] = r]
      BY <1>3, <2>4, <3>1 DEF StageWrite
    <3>3. Knows(r)'
      BY <3>1 DEF Knows, Idle
    <3> QED BY <2>1, <2>2, <3>2, <3>3, StampGoesOn DEF Busy
  <2> QED BY <2>3, <2>4
<1>4. ASSUME NEW q \in Req, NEW role \in Roles, NEW p \in Percent \ {"none"},
             DiscountRequest(q, role, p)
      PROVE  StampInv'
  <2> DEFINE r == [Idle EXCEPT !.pc = "upsert", !.role = role, !.pct = p]
  <2>1. r \in Request /\ Knows(r)
    BY EmptyTyped DEF Request, Idle, Knows
  <2> HIDE DEF r
  <2>2. Begin(q, r) /\ UNCHANGED <<stage, converted, disc>>
    BY <1>4 DEF DiscountRequest, r
  <2> QED BY <2>1, <2>2, StampBegin
<1>5. ASSUME NEW q \in Req, Upsert(q) PROVE StampInv'
  BY <1>5, <1>s, StampEnds DEF Upsert, Busy
<1>6. ASSUME NEW q \in Req, NEW role \in Managers, DecideRead(q, role)
      PROVE  StampInv'
  <2> DEFINE r == [Idle EXCEPT !.pc = "decide", !.role = role, !.to = disc.held]
  <2>1. disc.held \in Stage \cup {NoStage} /\ role \in Roles
    BY DEF IInv, TypeOK, Discount, Managers, Roles
  <2>2. r \in Request /\ Knows(r)
    BY <2>1, EmptyTyped DEF Request, Idle, Knows
  <2> HIDE DEF r
  <2>3. Begin(q, r) /\ UNCHANGED <<stage, converted, disc>>
    BY <1>6 DEF DecideRead, r
  <2> QED BY <2>2, <2>3, StampBegin
<1>7. ASSUME NEW q \in Req, NEW v \in Decisions, NEW p \in Percent, Decide(q, v, p)
      PROVE  StampInv'
  <2>1. req[q].pc = "decide" /\ UNCHANGED <<stage, converted, mixed>>
    BY <1>7 DEF Decide
  <2>2. CASE Done(q)
    BY <1>s, <2>1, <2>2, StampEnds DEF Busy
  <2>3. CASE ~Done(q)
    <3>1. PICK r : r = [req[q] EXCEPT !.pc = "read"]
      OBVIOUS
    <3>2. req' = [req EXCEPT ![q] = r] /\ req[q].to # NoStage
      BY <1>7, <2>3, <3>1 DEF Decide
    <3>3. r.pc = "read" /\ r.to = req[q].to
      BY <3>1 DEF IInv, TypeOK, Request
    <3>4. req[q].to \in Success
      <4>1. Sound(req[q])
        BY DEF IInv
      <4> QED BY <2>1, <3>2, <4>1 DEF Sound
    <3>5. Knows(r)'
      BY <3>3, <3>4 DEF Knows
    <3> QED BY <1>s, <2>1, <3>2, <3>5, StampGoesOn DEF Busy
  <2> QED BY <2>2, <2>3
<1>8. ASSUME NEW q \in Req, MoveFails(q) PROVE StampInv'
  BY <1>8, <1>s, StampEnds DEF MoveFails, Busy
<1>9. ASSUME NEW q \in Req, NEW role \in Roles, NEW s \in Stage,
             PutRequest(q, role, s)
      PROVE  StampInv'
  <2> DEFINE r == [Idle EXCEPT !.pc = "put", !.role = role, !.to = s]
  <2>1. role = "admin" \/ ~converted
    BY <1>9 DEF PutRequest, MayEdit
  <2>2. r \in Request /\ Knows(r)
    BY <2>1, EmptyTyped DEF Request, Idle, Knows
  <2> HIDE DEF r
  <2>3. Begin(q, r) /\ UNCHANGED <<stage, converted, disc>>
    BY <1>9 DEF PutRequest, r
  <2> QED BY <2>2, <2>3, StampBegin
<1>10. ASSUME NEW q \in Req, Put(q) PROVE StampInv'
  <2>1. converted' <=> stage' \in Success
    BY <1>10 DEF Put
  <2> QED BY <1>10, <2>1, StampEnds DEF Put, Busy
<1>11. ASSUME NEW s \in Stage, BulkStatus(s) PROVE StampInv'
  BY <1>11 DEF BulkStatus, StampInv
<1>12. CASE Captured
  BY <1>12 DEF Captured, StampInv
<1>13. ASSUME NEW q \in Req, FollowRead(q) PROVE StampInv'
  <2> DEFINE r == [Idle EXCEPT !.pc = "followup"]
  <2>1. r \in Request /\ Knows(r)
    BY <1>13, EmptyTyped DEF Request, Idle, Knows, FollowRead
  <2> HIDE DEF r
  <2>2. Begin(q, r) /\ UNCHANGED <<stage, converted, disc>>
    BY <1>13 DEF FollowRead, r
  <2> QED BY <2>1, <2>2, StampBegin
<1>14. ASSUME NEW q \in Req, FollowWrite(q) PROVE StampInv'
  <2>1. /\ req[q].pc = "followup" /\ stage' = Follow
        /\ UNCHANGED <<converted, mixed>> /\ Done(q)
    BY <1>14 DEF FollowWrite
  <2>2. ~mixed => (converted' <=> stage' \in Success)
    BY <1>s, <2>1 DEF Knows, OpenEntry
  <2> QED BY <2>1, <2>2, StampEnds DEF Busy
<1>15. CASE Crash
  <2>1. \A q \in Req : req'[q].pc = "idle"
    BY <1>15 DEF Crash, Idle
  <2>2. UNCHANGED <<stage, converted, mixed>>
    BY <1>15 DEF Crash
  <2> QED BY <1>s, <2>1, <2>2 DEF StampInv, Knows, Busy
<1>16. CASE UNCHANGED vars
  <2>1. UNCHANGED <<stage, converted, req, mixed>>
    BY <1>16 DEF vars
  <2> QED BY <2>1 DEF StampInv, Knows, Busy
<1> QED BY <1>1, <1>2, <1>3, <1>4, <1>5, <1>6, <1>7, <1>8, <1>9, <1>10, <1>11,
           <1>12, <1>13, <1>14, <1>15, <1>16 DEF Next

\* Unless requests mixed, the stamp says what the stage says, through every writer,
\* crash and failed move, in a pipeline that starts outside success (changeStage).
THEOREM StampFollowsStage == OpenEntry => (Spec => []ConvertedMatchesStage)
<1> SUFFICES ASSUME OpenEntry PROVE Spec => []ConvertedMatchesStage
  OBVIOUS
<1>1. IInv /\ StampInv /\ [Next]_vars => StampInv'
  BY StampStep
<1>2. StampInv => ConvertedMatchesStage
  BY DEF StampInv, ConvertedMatchesStage
<1> QED BY <1>1, <1>2, StampInit, Inductive, PTL DEF Spec

\* Unless requests mixed, only an administrator's request reopens a conversion
\* (blockEditIfConverted).
THEOREM OnlyAdminReopens == OpenEntry => (Spec => ConvertedIsClosed)
<1> SUFFICES ASSUME OpenEntry PROVE Spec => ConvertedIsClosed
  OBVIOUS
<1>1. ASSUME IInv, StampInv, [Next]_vars, converted, ~converted', ~mixed'
      PROVE  \E q \in Req : req[q].role = "admin" /\ Busy(q) /\ req'[q] # req[q]
  <2>1. PICK q \in Req : StageWrite(q) \/ Put(q)
    BY <1>1 DEF Next, vars, StageRequest, StageRead, DiscountRequest, Upsert, DecideRead,
                Decide, MoveFails, PutRequest, BulkStatus, Captured, FollowRead,
                FollowWrite, Crash
  <2>m. mixed' = mixed
    BY <2>1 DEF StageWrite, Put
  <2>2. req[q].pc \in {"write", "put"} /\ ~mixed
    BY <1>1, <2>1, <2>m DEF StageWrite, Put
  <2>3. Knows(req[q]) /\ (converted <=> stage \in Success)
    BY <1>1, <2>2 DEF StampInv
  <2>4. req'[q].pc # req[q].pc
    <3>1. req \in [Req -> Request]
      BY <1>1 DEF IInv, TypeOK
    <3>2. CASE Done(q)
      BY <2>2, <3>1, <3>2 DEF Done, Idle
    <3>3. CASE ~Done(q)
      <4>1. req' = [req EXCEPT ![q] = [Idle EXCEPT !.pc = "upsert", !.role = req[q].role,
                                                   !.pct = req[q].pct]]
        BY <2>1, <3>3 DEF StageWrite, Put
      <4>2. req'[q].pc = "upsert"
        BY <3>1, <4>1 DEF Idle
      <4> QED BY <2>2, <4>2
    <3> QED BY <3>2, <3>3
  <2>5. req[q].to \notin Success
    <3>1. CASE Put(q)
      BY <1>1, <3>1 DEF Put
    <3>2. CASE StageWrite(q)
      <4>1. stage' = req[q].to /\ converted' = ConvertedAfter(req[q].old, req[q].to)
        BY <1>1, <3>2 DEF StageWrite
      <4>2. req[q].old = stage
        BY <2>3, <3>2 DEF Knows, StageWrite
      <4> QED BY <1>1, <2>3, <4>1, <4>2, Zenon DEF ConvertedAfter
    <3> QED BY <2>1, <3>1, <3>2
  <2> QED BY <1>1, <2>2, <2>3, <2>4, <2>5 DEF Knows, Busy
<1>2. IInv /\ StampInv /\ [Next]_vars => StampInv'
  BY StampStep
<1>3. IInv /\ StampInv /\ [Next]_vars =>
        [converted /\ ~converted' /\ ~mixed' =>
           \E q \in Req : req[q].role = "admin" /\ Busy(q) /\ req'[q] # req[q]]_vars
  BY <1>1
<1> QED BY <1>2, <1>3, StampInit, Inductive, PTL DEF Spec, ConvertedIsClosed

-----------------------------------------------------------------------------
(* The importers *)

\* Nobody, the hand and the jobs are told apart.
LEMMA MakersDiffer ==
  /\ Nobody # Hand
  /\ \A j \in Job : j # Nobody /\ j # Hand
BY BulkImportConstants

\* A file has a row at least, each about a person, and each about another one.
LEMMA FileRows ==
  ASSUME NEW f \in Files
  PROVE  /\ Len(f) \in Nat /\ Len(f) >= 1 /\ DOMAIN f = 1..Len(f)
         /\ \A n \in 1..Len(f) : f[n] \in Person
         /\ \A m, n \in 1..Len(f) : f[m] = f[n] => m = n
<1>1. f \in Seq(Person) /\ f # <<>>
  BY BulkImportConstants
<1>2. \A m, n \in DOMAIN f : f[m] = f[n] => m = n
  BY BulkImportConstants
<1>3. Len(f) \in Nat /\ DOMAIN f = 1..Len(f) /\ \A n \in 1..Len(f) : f[n] \in Person
  BY <1>1
<1>4. Len(f) >= 1
  BY <1>1, <1>3
<1> QED BY <1>2, <1>3, <1>4

\* The fields of a job.
LEMMA JobFields ==
  ASSUME job \in [Job -> JobRow], NEW j \in Job
  PROVE  /\ job[j] \in JobRow
         /\ job[j].kind \in {"leads", "admissions"}
         /\ job[j].handling \in {"skip", "use"} /\ job[j].file \in Files
         /\ job[j].status \in {"none", "queued", "processing", "completed", "failed"}
         /\ job[j].phase \in Phases /\ job[j].row \in Nat /\ job[j].success \in Nat
         /\ job[j].failed \in Nat /\ job[j].duplicates \in Nat
         /\ job[j].made \subseteq {"lead", "offer", "admission"}
<1>1. job[j] \in JobRow
  OBVIOUS
<1> QED BY <1>1 DEF JobRow

\* A job that has not been uploaded is typed.
LEMMA NotUploadedTyped ==
  /\ NotUploaded \in JobRow
  /\ NotUploaded.kind = "leads" /\ NotUploaded.status = "none"
  /\ NotUploaded.phase = "idle" /\ NotUploaded.row = 1 /\ NotUploaded.success = 0
  /\ NotUploaded.failed = 0 /\ NotUploaded.duplicates = 0 /\ NotUploaded.made = {}
<1>1. (CHOOSE f \in Files : TRUE) \in Files
  BY BulkImportConstants
<1> QED BY <1>1 DEF NotUploaded, JobRow, Phases

\* A step of a job leaves the other jobs alone.
LEMMA GoesOn ==
  ASSUME job \in [Job -> JobRow], NEW j \in Job, NEW r \in JobRow, Goes(j, r)
  PROVE  /\ job' \in [Job -> JobRow] /\ job'[j] = r
         /\ \A k \in Job \ {j} : job'[k] = job[k]
BY DEF Goes

\* A step to another phase.
LEMMA ToPhase ==
  ASSUME job \in [Job -> JobRow], NEW j \in Job, NEW x \in Phases, To(j, x)
  PROVE  /\ job' \in [Job -> JobRow]
         /\ job'[j].phase = x
         /\ job'[j].kind = job[j].kind /\ job'[j].handling = job[j].handling
         /\ job'[j].file = job[j].file /\ job'[j].status = job[j].status
         /\ job'[j].row = job[j].row /\ job'[j].success = job[j].success
         /\ job'[j].failed = job[j].failed /\ job'[j].duplicates = job[j].duplicates
         /\ job'[j].made = job[j].made
         /\ \A k \in Job \ {j} : job'[k] = job[k]
<1> DEFINE r == [job[j] EXCEPT !.phase = x]
<1>1. job[j] \in JobRow
  OBVIOUS
<1>2. r \in JobRow
  BY <1>1 DEF JobRow
<1>3. /\ r.phase = x /\ r.kind = job[j].kind /\ r.handling = job[j].handling
      /\ r.file = job[j].file /\ r.status = job[j].status /\ r.row = job[j].row
      /\ r.success = job[j].success /\ r.failed = job[j].failed
      /\ r.duplicates = job[j].duplicates /\ r.made = job[j].made
  BY <1>1 DEF JobRow
<1>4. job' = [job EXCEPT ![j] = r]
  BY DEF To, Goes
<1>5. job'[j] = r
  BY <1>4
<1> HIDE DEF r
<1> QED BY <1>2, <1>3, <1>4, <1>5

\* A step to the next row.
LEMMA ToNextRow ==
  ASSUME job \in [Job -> JobRow], NEW j \in Job, NEW s \in Nat, NEW f \in Nat,
         NEW d \in Nat, NextRow(j, s, f, d)
  PROVE  /\ job' \in [Job -> JobRow]
         /\ job'[j].phase = "match" /\ job'[j].made = {}
         /\ job'[j].kind = job[j].kind /\ job'[j].handling = job[j].handling
         /\ job'[j].file = job[j].file /\ job'[j].status = job[j].status
         /\ job'[j].row = job[j].row + 1 /\ job'[j].success = job[j].success + s
         /\ job'[j].failed = job[j].failed + f
         /\ job'[j].duplicates = job[j].duplicates + d
         /\ \A k \in Job \ {j} : job'[k] = job[k]
<1> DEFINE r == [job[j] EXCEPT !.phase = "match", !.row = @ + 1, !.made = {},
                      !.success = @ + s, !.failed = @ + f, !.duplicates = @ + d]
<1>1. job[j] \in JobRow
  OBVIOUS
<1>3. /\ r.phase = "match" /\ r.kind = job[j].kind /\ r.handling = job[j].handling
      /\ r.file = job[j].file /\ r.status = job[j].status /\ r.row = job[j].row + 1
      /\ r.success = job[j].success + s /\ r.failed = job[j].failed + f
      /\ r.duplicates = job[j].duplicates + d /\ r.made = {}
  BY <1>1 DEF JobRow
<1>2. r \in JobRow
  <2>1. \A x \in Phases : [job[j] EXCEPT !.phase = x] \in JobRow
    BY <1>1 DEF JobRow
  <2>3. ASSUME NEW q \in JobRow, NEW n \in Nat
        PROVE  /\ [q EXCEPT !.row = n] \in JobRow /\ [q EXCEPT !.made = {}] \in JobRow
               /\ [q EXCEPT !.success = n] \in JobRow
               /\ [q EXCEPT !.failed = n] \in JobRow
               /\ [q EXCEPT !.duplicates = n] \in JobRow
    BY DEF JobRow
  <2>2. /\ job[j].row + 1 \in Nat /\ job[j].success + s \in Nat
        /\ job[j].failed + f \in Nat /\ job[j].duplicates + d \in Nat
    BY JobFields
  <2>4. [job[j] EXCEPT !.phase = "match"] \in JobRow
    BY <2>1 DEF Phases
  <2>5. [job[j] EXCEPT !.phase = "match", !.row = @ + 1] \in JobRow
    BY <2>2, <2>3, <2>4, <1>1 DEF JobRow
  <2>6. [job[j] EXCEPT !.phase = "match", !.row = @ + 1, !.made = {}] \in JobRow
    BY <2>3, <2>5
  <2>7. [job[j] EXCEPT !.phase = "match", !.row = @ + 1, !.made = {},
                      !.success = @ + s] \in JobRow
    BY <2>2, <2>3, <2>6
  <2>8. [job[j] EXCEPT !.phase = "match", !.row = @ + 1, !.made = {},
                      !.success = @ + s, !.failed = @ + f] \in JobRow
    BY <2>2, <2>3, <2>7
  <2> QED BY <2>2, <2>3, <2>8
<1>6. Goes(j, r)
  BY Zenon DEF NextRow, Over
<1>4. job' = [job EXCEPT ![j] = r]
  BY <1>6 DEF Goes
<1>5. job'[j] = r
  BY <1>4
<1> HIDE DEF r
<1> QED BY <1>2, <1>3, <1>4, <1>5

\* What the other jobs see of a step: their own tables' rows stay, and nobody
\* enters their lead or offer for them.
Undisturbed(k) ==
    /\ job'[k] = job[k]
    /\ \A p \in Person :
           /\ admission'[p][k] = "none" <=> admission[p][k] = "none"
           /\ receipts'[p][k] = receipts[p][k]
           /\ lead'[p] = k => lead[p] = k
           /\ offer'[p] = k => offer[p] = k
           /\ offer'[p] = Hand /\ Writes(k, p) => offer[p] = Hand \/ p \in late'
           /\ <<p, k>> \in left' <=> <<p, k>> \in left
    /\ k \in recounted' <=> k \in recounted
    /\ late \subseteq late'
    /\ together => together'
    /\ ~together' /\ job[k].phase \in Working =>
           Admitted(Subject(k))' = Admitted(Subject(k))

\* A job that is left undisturbed keeps its part of the invariant.
LEMMA OthersKept ==
  ASSUME job \in [Job -> JobRow], NEW k \in Job, JobInv(k), Undisturbed(k)
  PROVE  JobInv(k)'
<1>1. job'[k] = job[k]
  BY DEF Undisturbed
<1>2. \A p \in Person : Untouched(k, p) => Untouched(k, p)'
  BY DEF Undisturbed, Untouched
<1>3. job[k].file \in Files
  BY JobFields
<1>4. Placed(k)'
  BY <1>1 DEF JobInv, Placed
<1>5. Ahead(k)'
  <2>1. job[k].status = "none" => \A p \in Person : Untouched(k, p)'
    BY <1>2 DEF JobInv, Ahead
  <2>2. ASSUME job[k].kind = "admissions", job[k].status \notin {"none", "failed"},
               job[k].phase # "dead", NEW n \in DOMAIN job[k].file,
               n > job[k].row \/ (n = job[k].row /\ job[k].phase \notin Working)
        PROVE  Untouched(k, job[k].file[n])'
    <3>1. Untouched(k, job[k].file[n])
      BY <2>2 DEF JobInv, Ahead, Importing
    <3>2. PICK p \in Person : p = job[k].file[n]
      BY <1>3, FileRows
    <3>3. Untouched(k, p)'
      BY <1>2, <3>1, <3>2
    <3>4. job'[k].file[n] = p
      BY <1>1, <3>2
    <3> QED BY <1>1, <3>2, <3>3, <3>4 DEF Untouched
  <2> QED BY <1>1, <2>1, <2>2 DEF Ahead, Importing
<1>6. Remembers(k)'
  <2> SUFFICES ASSUME job[k].phase \in Working
               PROVE  Remembers(k)'
    BY <1>1 DEF Remembers
  <2>1. job[k].row \in 1..Len(job[k].file)
    BY JobFields, FileRows DEF JobInv, Placed
  <2>2. PICK p \in Person : p = Subject(k)
    BY <2>1, <1>3, FileRows DEF Subject
  <2>3. Subject(k)' = p
    BY <1>1, <2>2 DEF Subject
  <2>4. Writes(k, p)
    BY <2>1, <2>2, JobFields, FileRows DEF Writes, Working
  <2>5. Remembers(k)
    BY DEF JobInv
  <2>6. ~together' => Admitted(p)' = Admitted(p) /\ ~together
    BY <2>2, <2>3 DEF Undisturbed, Admitted
  <2>7. /\ admission'[p][k] = "none" <=> admission[p][k] = "none"
        /\ receipts'[p][k] = receipts[p][k]
        /\ lead'[p] = k => lead[p] = k
        /\ offer'[p] = k => offer[p] = k
        /\ offer'[p] = Hand => offer[p] = Hand \/ p \in late'
        /\ late \subseteq late'
    BY <2>4 DEF Undisturbed
  <2> QED BY <1>1, <2>2, <2>3, <2>5, <2>6, <2>7 DEF Remembers
<1>7. Tallied(k)'
  <2>1. ByJob(k)' = ByJob(k)
    BY DEF Undisturbed, ByJob
  <2>2. InHand(k)' = InHand(k)
    BY <1>1 DEF InHand, Subject
  <2>3. (\A p \in Person : <<p, k>> \notin left') <=> (\A p \in Person : <<p, k>> \notin left)
    BY DEF Undisturbed
  <2>4. k \in recounted' <=> k \in recounted
    BY DEF Undisturbed
  <2> QED BY <1>1, <2>1, <2>2, <2>3, <2>4 DEF JobInv, Tallied, Importing
<1>8. Whole(k)'
  <2>1. \A p \in Person : Writes(k, p)' <=> Writes(k, p)
    BY <1>1 DEF Writes, Subject
  <2> QED BY <1>1, <2>1 DEF JobInv, Whole, Undisturbed
<1> QED BY <1>4, <1>5, <1>6, <1>7, <1>8 DEF JobInv

\* A step keeps the invariant if it keeps its own job's part, disturbs no other
\* job and keeps what is said of all of them.
LEMMA StepKept ==
  ASSUME ImportInv, NEW j \in Job, ImportTypeOK', JobInv(j)',
         \A k \in Job \ {j} : Undisturbed(k), OneAtATime', OfferedToLeads'
  PROVE  ImportInv'
<1>1. ASSUME NEW k \in Job
      PROVE  JobInv(k)'
  <2>1. CASE k = j
    BY <2>1
  <2>2. CASE k # j
    <3>1. Undisturbed(k)
      BY <2>2
    <3>2. job \in [Job -> JobRow] /\ JobInv(k)
      BY DEF ImportInv, ImportTypeOK
    <3> QED BY <3>1, <3>2, OthersKept
  <2> QED BY <2>1, <2>2
<1> QED BY <1>1 DEF ImportInv

\* A job that writes nothing disturbs nobody, unless it begins an admission import.
LEMMA QuietKept ==
  ASSUME ImportInv, NEW j \in Job, job' \in [Job -> JobRow],
         \A k \in Job \ {j} : job'[k] = job[k],
         UNCHANGED <<tables, together, late>>,
         left' = left \/ \E p \in Person : left' = left \cup {<<p, j>>},
         recounted' = recounted \/ recounted' = recounted \cup {j},
         Running(j, "admissions")' => Running(j, "admissions"),
         JobInv(j)'
  PROVE  ImportInv'
<1>1. ImportTypeOK'
  BY DEF ImportInv, ImportTypeOK, tables
<1>2. ASSUME NEW k \in Job \ {j}
      PROVE  Undisturbed(k)
  BY DEF Undisturbed, Admitted, Subject, tables
<1>3. OneAtATime'
  <2>1. \A k \in Job : Running(k, "admissions")' => Running(k, "admissions")
    BY DEF Running
  <2>2. \A p \in Person : Admitted(p)' = Admitted(p)
    BY DEF Admitted, tables
  <2>3. \A p \in Person : AdmittedAlone(p) => AdmittedAlone(p)'
    BY <2>2 DEF AdmittedAlone, tables
  <2> QED BY <2>1, <2>3 DEF ImportInv, OneAtATime
<1>4. OfferedToLeads'
  BY DEF ImportInv, OfferedToLeads, tables
<1> QED BY <1>1, <1>2, <1>3, <1>4, StepKept

\* The parts of the invariant about one job, with the types of its fields.
LEMMA OneJob ==
  ASSUME ImportInv, NEW j \in Job
  PROVE  /\ job \in [Job -> JobRow]
         /\ Placed(j) /\ Ahead(j) /\ Remembers(j) /\ Tallied(j) /\ Whole(j)
         /\ job[j].file \in Files /\ Len(job[j].file) \in Nat /\ Len(job[j].file) >= 1
         /\ DOMAIN job[j].file = 1..Len(job[j].file)
         /\ job[j].row \in Nat /\ job[j].row >= 1 /\ job[j].row <= Len(job[j].file) + 1
         /\ job[j].success \in Nat /\ job[j].failed \in Nat /\ job[j].duplicates \in Nat
         /\ job[j].phase \in Phases
         /\ job[j].status = "none" => job[j].phase = "idle" /\ job[j].kind = "leads"
<1>1. job \in [Job -> JobRow] /\ JobInv(j)
  BY DEF ImportInv, ImportTypeOK
<1>2. Placed(j) /\ Ahead(j) /\ Remembers(j) /\ Tallied(j) /\ Whole(j)
  BY <1>1 DEF JobInv
<1>3. /\ job[j].file \in Files /\ job[j].row \in Nat
      /\ job[j].success \in Nat /\ job[j].failed \in Nat /\ job[j].duplicates \in Nat
      /\ job[j].phase \in Phases
  BY <1>1, JobFields
<1>4. /\ job[j].row >= 1 /\ job[j].row <= Len(job[j].file) + 1
      /\ job[j].status = "none" => job[j].phase = "idle" /\ job[j].kind = "leads"
  BY <1>2, NotUploadedTyped DEF Placed
<1> QED BY <1>1, <1>2, <1>3, <1>4, FileRows

\* The person of the row at hand.
LEMMA SubjectTyped ==
  ASSUME ImportInv, NEW j \in Job, job[j].row <= Len(job[j].file)
  PROVE  /\ Subject(j) \in Person
         /\ \A n \in DOMAIN job[j].file :
                /\ job[j].file[n] \in Person
                /\ job[j].file[n] = Subject(j) => n = job[j].row
<1>1. job[j].row \in 1..Len(job[j].file) /\ job[j].file \in Files
  BY OneJob
<1> QED BY <1>1, OneJob, FileRows DEF Subject

\* The counts of a job grow with its place in the file.
LEMMA CountsAdd ==
  /\ \A a, b, n, s, f \in Nat :
         /\ a + b = n - 1 /\ s + f = 1 => a + s + (b + f) = n
         /\ a + b >= n - 1 /\ s + f >= 1 => a + s + (b + f) >= n
         /\ a + a + b <= (n - 1) + (n - 1) /\ s + s + f <= 2
            => (a + s) + (a + s) + (b + f) <= n + n
  /\ \A a, b, c, n, s, f, d \in Nat :
         (s + f + d >= 1 /\ a + b + c >= n - 1) \/ a + b + c >= n
         => a + s + (b + f) + (c + d) >= n
OBVIOUS

\* One more person makes one more of them.
LEMMA CountedOnce ==
  ASSUME NEW S \in SUBSET Person, NEW p \in Person
  PROVE  /\ IsFiniteSet(S) /\ Cardinality(S) \in Nat
         /\ Cardinality(S) = Cardinality(S \ {p}) + (IF p \in S THEN 1 ELSE 0)
<1>1. IsFiniteSet(Person)
  BY BulkImportConstants
<1>2. IsFiniteSet(S) /\ Cardinality(S) \in Nat
  BY <1>1, FS_Subset, FS_CardinalityType
<1>3. Cardinality(S \ {p}) = IF p \in S THEN Cardinality(S) - 1 ELSE Cardinality(S)
  BY <1>2, FS_RemoveElement
<1> QED BY <1>2, <1>3

\* A row is over when there is nothing of it or all of it.
Settled(j, s) ==
    LET p == Subject(j) IN
    IF admission[p][j] # "none" THEN s = 1 /\ receipts[p][j] = Payments
    ELSE s = 0 /\ lead[p] # j /\ offer[p] # j

RowOver(j, s) ==
    IF job[j].phase \notin Working
    THEN left' = left /\ (job[j].kind = "admissions" => s = 0)
    ELSE \/ left' = left /\ Settled(j, s)
         \/ left' = left \cup {<<Subject(j), j>>}

\* A row of an admission import is a success or a failure, counted once or, as the
\* job then remembers, twice; a row of a lead import is counted, when the lead is
\* inserted if not now.
Counted(j, s, f, d) ==
    /\ job[j].kind = "leads" => s + f + d >= 1 \/ job[j].phase = "prior"
    /\ job[j].kind = "admissions" =>
           /\ s + f >= 1 /\ s + s + f <= 2
           /\ s + f = 1 \/ j \in recounted'

\* Going to the next row with every row counted keeps the job's part.
LEMMA PassesOn ==
  ASSUME ImportInv, NEW j \in Job, NEW s \in Nat, NEW f \in Nat, NEW d \in Nat,
         job[j].phase \in Working \cup {"match", "lead", "prior"},
         job[j].row <= Len(job[j].file),
         NextRow(j, s, f, d), UNCHANGED tables, recounted \subseteq recounted',
         Counted(j, s, f, d), RowOver(j, s)
  PROVE  JobInv(j)'
<1> DEFINE p == Subject(j)
<1>1. /\ job \in [Job -> JobRow] /\ s \in Nat /\ f \in Nat /\ d \in Nat
  BY OneJob
<1>2. /\ job' \in [Job -> JobRow]
      /\ job'[j].phase = "match" /\ job'[j].made = {}
      /\ job'[j].kind = job[j].kind /\ job'[j].handling = job[j].handling
      /\ job'[j].file = job[j].file /\ job'[j].status = job[j].status
      /\ job'[j].row = job[j].row + 1 /\ job'[j].success = job[j].success + s
      /\ job'[j].failed = job[j].failed + f
      /\ job'[j].duplicates = job[j].duplicates + d
  BY <1>1, ToNextRow
<1>3. p \in Person
  BY SubjectTyped
<1>4. /\ job[j].kind \in {"leads", "admissions"}
      /\ job[j].status \notin {"none", "completed", "failed"}
  BY OneJob, JobFields DEF Placed, Working
<1>5. Placed(j)'
  <2>1. job'[j].row >= 1 /\ job'[j].row <= Len(job'[j].file) + 1
    BY <1>2, OneJob
  <2> QED BY <1>2, <1>4, <2>1 DEF Placed, Working
<1>6. Ahead(j)'
  <2>1. ASSUME NEW q \in Person, Untouched(j, q)
        PROVE  Untouched(j, q)'
    BY <2>1 DEF Untouched, tables
  <2>2. ASSUME Importing(j)', job'[j].status # "failed",
               NEW n \in DOMAIN job'[j].file, n >= job'[j].row
        PROVE  Untouched(j, job[j].file[n])'
    <3>1. n \in 1..Len(job[j].file) /\ n > job[j].row
      BY <1>2, <2>2, OneJob
    <3>2. Importing(j) /\ job[j].phase # "dead" /\ job[j].status # "failed"
      BY <1>2, <1>4, <2>2 DEF Importing, Working
    <3>3. Untouched(j, job[j].file[n])
      BY <3>1, <3>2, OneJob DEF Ahead
    <3>4. PICK q \in Person : q = job[j].file[n]
      BY <3>1, OneJob, FileRows
    <3>5. Untouched(j, q)'
      BY <2>1, <3>3, <3>4
    <3> QED BY <1>2, <3>4, <3>5 DEF Untouched
  <2>3. ASSUME NEW n \in DOMAIN job'[j].file,
               n > job'[j].row \/ (n = job'[j].row /\ job'[j].phase \notin Working)
        PROVE  n >= job'[j].row
    <3>1. n \in Nat /\ job'[j].row \in Nat
      <4>1. job'[j].file = job[j].file /\ job'[j].row = job[j].row + 1
        BY <1>2
      <4>2. n \in 1..Len(job[j].file)
        BY <4>1, OneJob
      <4> QED BY <4>1, <4>2, OneJob
    <3> QED BY <2>3, <3>1
  <2>4. job'[j].status # "none"
    BY <1>2, <1>4
  <2>5. \A n \in DOMAIN job'[j].file :
            Importing(j)' /\ job'[j].status # "failed" /\ n >= job'[j].row
            => Untouched(j, job[j].file[n])'
    BY <2>2
  <2>6. job'[j].file = job[j].file
    BY <1>2
  <2>7. ASSUME Importing(j)', job'[j].status # "failed", NEW n \in DOMAIN job'[j].file,
               n > job'[j].row \/ (n = job'[j].row /\ job'[j].phase \notin Working)
        PROVE  Untouched(j, job[j].file[n])'
    BY <2>7, <2>3, <2>5
  <2> QED BY <2>4, <2>7 DEF Ahead
<1>7. Remembers(j)'
  BY <1>2 DEF Remembers, Working
<1>8. Tallied(j)'
  <2>1. CASE job[j].kind = "leads"
    <3>1. job[j].phase \in {"match", "lead", "prior"}
      BY <2>1, OneJob DEF Placed
    <3>2. job'[j].success + job'[j].failed + job'[j].duplicates >= job'[j].row - 1
      <4>1. \/ /\ s + f + d >= 1
               /\ job[j].success + job[j].failed + job[j].duplicates >= job[j].row - 1
            \/ job[j].success + job[j].failed + job[j].duplicates >= job[j].row
        BY <2>1, <3>1, OneJob DEF Tallied, Counted
      <4>2. PICK a \in Nat, b \in Nat, c \in Nat, n \in Nat :
                /\ a = job[j].success /\ b = job[j].failed
                /\ c = job[j].duplicates /\ n = job[j].row
        BY OneJob
      <4>3. a + s + (b + f) + (c + d) >= n
        <5>1. (s + f + d >= 1 /\ a + b + c >= n - 1) \/ a + b + c >= n
          BY <4>1, <4>2
        <5> QED BY Zenon, <1>1, <4>2, <5>1, CountsAdd
      <4>4. /\ job'[j].success = a + s /\ job'[j].failed = b + f
            /\ job'[j].duplicates = c + d /\ job'[j].row - 1 = n
        BY <1>2, <4>2
      <4> QED BY <4>3, <4>4
    <3> QED BY <1>2, <1>4, <2>1, <3>2 DEF Tallied, Importing
  <2>2. CASE job[j].kind = "admissions" /\ job[j].status = "failed"
    BY <1>2, <2>2 DEF Tallied
  <2>3. CASE job[j].kind = "admissions" /\ job[j].status # "failed"
    <3>1. Importing(j) /\ job[j].phase # "dead" /\ job[j].status # "failed"
      BY <1>4, <2>3 DEF Importing, Working
    <3>2. /\ job'[j].success + job'[j].failed >= job'[j].row - 1
          /\ job'[j].success + job'[j].success + job'[j].failed
             <= (job'[j].row - 1) + (job'[j].row - 1)
          /\ j \notin recounted' => job'[j].success + job'[j].failed = job'[j].row - 1
      <4>2. PICK a \in Nat, b \in Nat, n \in Nat :
                a = job[j].success /\ b = job[j].failed /\ n = job[j].row
        BY OneJob
      <4>1. /\ a + b >= n - 1 /\ a + a + b <= (n - 1) + (n - 1)
            /\ j \notin recounted => a + b = n - 1
        BY <3>1, <4>2, OneJob DEF Tallied
      <4>5. s + f >= 1 /\ s + s + f <= 2 /\ (s + f = 1 \/ j \in recounted')
        BY <2>3 DEF Counted
      <4>3. /\ a + s + (b + f) >= n
            /\ (a + s) + (a + s) + (b + f) <= n + n
            /\ j \notin recounted' => a + s + (b + f) = n
        <5>1. j \notin recounted' => a + b = n - 1 /\ s + f = 1
          BY <4>1, <4>5
        <5> QED BY <1>1, <4>1, <4>5, <5>1, CountsAdd
      <4>4. /\ job'[j].success = a + s /\ job'[j].failed = b + f
            /\ job'[j].row - 1 = n
        BY <1>2, <4>2
      <4> QED BY <4>3, <4>4
    <3>3. ByJob(j)' = ByJob(j) /\ InHand(j)' = {}
      BY <1>2 DEF ByJob, InHand, tables, Working
    <3>4. ASSUME \A q \in Person : <<q, j>> \notin left'
          PROVE  job'[j].success = Cardinality(ByJob(j)')
      <4>1. left' = left
        BY <1>3, <3>4 DEF RowOver
      <4>2. job[j].success = Cardinality(ByJob(j) \ InHand(j))
        BY <3>1, <3>4, <4>1, OneJob DEF Tallied
      <4>3. ByJob(j) \in SUBSET Person
        BY DEF ByJob
      <4>4. CASE job[j].phase \notin Working
        <5>1. InHand(j) = {} /\ s = 0
          BY <2>3, <4>4 DEF InHand, RowOver
        <5>2. ByJob(j) \ {} = ByJob(j)
          OBVIOUS
        <5> QED BY <1>2, <3>3, <4>2, <5>1, <5>2, OneJob
      <4>5. CASE job[j].phase \in Working
        <5>1. InHand(j) = {p}
          BY <4>5 DEF InHand
        <5>2. Settled(j, s)
          BY <1>3, <3>4, <4>5 DEF RowOver
        <5>3. s = IF p \in ByJob(j) THEN 1 ELSE 0
          BY <1>3, <5>2 DEF Settled, ByJob
        <5>4. Cardinality(ByJob(j)) = Cardinality(ByJob(j) \ {p}) + s
          <6>1. PICK S \in SUBSET Person, x \in Person : S = ByJob(j) /\ x = p
            BY <4>3, <1>3
          <6>2. Cardinality(S) = Cardinality(S \ {x}) + (IF x \in S THEN 1 ELSE 0)
            BY CountedOnce
          <6>3. s = IF x \in S THEN 1 ELSE 0
            BY <5>3, <6>1
          <6>5. Cardinality(S) = Cardinality(S \ {x}) + s
            BY Zenon, <6>2, <6>3
          <6> QED BY <6>1, <6>5
        <5> QED BY <1>2, <3>3, <4>2, <5>1, <5>4, OneJob
      <4> QED BY <4>4, <4>5
    <3>5. ByJob(j)' \ InHand(j)' = ByJob(j)'
      BY <3>3
    <3> QED BY <1>2, <1>4, <2>3, <3>2, <3>4, <3>5 DEF Tallied
  <2> QED BY <1>4, <2>1, <2>2, <2>3
<1>9. Whole(j)'
  <2> SUFFICES ASSUME job'[j].kind = "admissions", NEW q \in Person, <<q, j>> \notin left'
               PROVE  /\ admission'[q][j] # "none" => receipts'[q][j] = Payments
                      /\ admission'[q][j] = "none" => lead'[q] # j /\ offer'[q] # j
    BY DEF Whole
  <2>1. <<q, j>> \notin left /\ job[j].kind = "admissions"
    BY <1>2 DEF RowOver
  <2>2. CASE ~Writes(j, q)
    BY <2>1, <2>2, OneJob DEF Whole, tables
  <2>3. CASE Writes(j, q)
    <3>1. q = p
      BY <2>3 DEF Writes
    <3>2. job[j].phase \in Working
      BY <2>1, <2>3, OneJob DEF Writes, Working, Placed
    <3>3. Settled(j, s)
      BY <3>1, <3>2 DEF RowOver
    <3> QED BY <3>1, <3>3 DEF Settled, tables
  <2> QED BY <2>2, <2>3
<1> QED BY <1>5, <1>6, <1>7, <1>8, <1>9 DEF JobInv

\* So does going to the next row keep the whole invariant.
LEMMA PassesOnKept ==
  ASSUME ImportInv, NEW j \in Job, NEW s \in Nat, NEW f \in Nat, NEW d \in Nat,
         job[j].phase \in Working \cup {"match", "lead", "prior"},
         job[j].row <= Len(job[j].file),
         NextRow(j, s, f, d), UNCHANGED <<tables, together, late>>,
         recounted' = recounted \/ recounted' = recounted \cup {j},
         Counted(j, s, f, d), RowOver(j, s)
  PROVE  ImportInv'
<1>5. recounted \subseteq recounted'
  OBVIOUS
<1>1. JobInv(j)'
  BY <1>5, PassesOn
<1>2. /\ job' \in [Job -> JobRow]
      /\ \A k \in Job \ {j} : job'[k] = job[k]
      /\ job'[j].kind = job[j].kind
  BY OneJob, ToNextRow
<1>3. left' = left \/ \E p \in Person : left' = left \cup {<<p, j>>}
  BY SubjectTyped DEF RowOver
<1>4. Running(j, "admissions")' => Running(j, "admissions")
  BY <1>2 DEF Running, Working
<1> QED BY <1>1, <1>2, <1>3, <1>4, QuietKept

\* A job that fails says no more of the rows to come, nor of its counts.
LEMMA JobFailsKept ==
  ASSUME ImportInv, NEW j \in Job, JobFails(j),
         job[j].phase \in Working \cup {"match", "lead", "prior"},
         UNCHANGED <<tables, together, late, recounted>>, RowOver(j, 0)
  PROVE  ImportInv'
<1> DEFINE r == [job[j] EXCEPT !.status = "failed", !.phase = "idle", !.row = 1, !.made = {},
                               !.success = 0, !.failed = 0, !.duplicates = 0]
<1>1. /\ r \in JobRow /\ r.kind = job[j].kind /\ r.file = job[j].file
      /\ r.status = "failed" /\ r.phase = "idle" /\ r.row = 1 /\ r.made = {}
  <2>1. job[j] \in JobRow
    BY OneJob
  <2> QED BY <2>1 DEF JobRow, Phases
<1>2. job \in [Job -> JobRow] /\ Goes(j, r)
  BY OneJob DEF JobFails
<1> HIDE DEF r
<1>3. /\ job' \in [Job -> JobRow] /\ job'[j] = r
      /\ \A k \in Job \ {j} : job'[k] = job[k]
  BY <1>1, <1>2, GoesOn
<1>4. Placed(j)'
  BY <1>1, <1>3, OneJob DEF Placed, Working
<1>5. Ahead(j)' /\ Remembers(j)' /\ Tallied(j)'
  BY <1>1, <1>3 DEF Ahead, Remembers, Tallied, Working
<1>6. Whole(j)'
  <2> SUFFICES ASSUME job'[j].kind = "admissions", NEW q \in Person, <<q, j>> \notin left'
               PROVE  /\ admission'[q][j] # "none" => receipts'[q][j] = Payments
                      /\ admission'[q][j] = "none" => lead'[q] # j /\ offer'[q] # j
    BY DEF Whole
  <2>1. <<q, j>> \notin left /\ job[j].kind = "admissions"
    BY <1>1, <1>3 DEF RowOver
  <2>2. CASE ~Writes(j, q)
    BY <2>1, <2>2, OneJob DEF Whole, tables
  <2>3. CASE Writes(j, q)
    <3>1. q = Subject(j)
      BY <2>3 DEF Writes
    <3>2. job[j].phase \in Working
      BY <2>1, <2>3, OneJob DEF Writes, Working, Placed
    <3>3. Settled(j, 0)
      BY <3>1, <3>2 DEF RowOver
    <3> QED BY <3>1, <3>3 DEF Settled, tables
  <2> QED BY <2>2, <2>3
<1>7. JobInv(j)'
  BY <1>4, <1>5, <1>6 DEF JobInv
<1>8. left' = left \/ \E p \in Person : left' = left \cup {<<p, j>>}
  <2>1. CASE job[j].phase \notin Working
    BY <2>1 DEF RowOver
  <2>2. CASE job[j].phase \in Working
    <3>1. job[j].row <= Len(job[j].file)
      BY <2>2, OneJob DEF Placed
    <3> QED BY <2>2, <3>1, SubjectTyped DEF RowOver
  <2> QED BY <2>1, <2>2
<1>9. ~Running(j, "admissions")'
  BY <1>1, <1>3 DEF Running
<1> QED BY <1>3, <1>7, <1>8, <1>9, QuietKept

\* A row that fails is counted, or the job fails with it.
LEMMA RowFailsKept ==
  ASSUME ImportInv, NEW j \in Job, NEW f \in Nat, NEW d \in Nat,
         job[j].phase \in Working \cup {"match", "lead", "prior"},
         job[j].row <= Len(job[j].file), RowFails(j, f, d),
         UNCHANGED <<tables, together, late, recounted>>,
         Counted(j, 0, f, d), RowOver(j, 0)
  PROVE  ImportInv'
<1>1. CASE NextRow(j, 0, f, d)
  BY <1>1, PassesOnKept
<1>2. CASE JobFails(j)
  BY <1>2, JobFailsKept
<1> QED BY <1>1, <1>2 DEF RowFails

\* A step of an admission import that writes its row, or begins to.
Stays(j) ==
    /\ job[j].kind = "admissions" /\ job[j].row <= Len(job[j].file)
    /\ job[j].phase \in Working \cup {"match", "lead"}
    /\ job' \in [Job -> JobRow] /\ \A k \in Job \ {j} : job'[k] = job[k]
    /\ job'[j].phase \in Working
    /\ job'[j].kind = job[j].kind /\ job'[j].file = job[j].file
    /\ job'[j].status = job[j].status /\ job'[j].row = job[j].row
    /\ job'[j].success = job[j].success /\ job'[j].failed = job[j].failed
    /\ UNCHANGED history
    /\ \A q \in Person \ {Subject(j)} :
           /\ admission'[q][j] = "none" <=> admission[q][j] = "none"
           /\ receipts'[q][j] = receipts[q][j]
           /\ lead'[q] = j <=> lead[q] = j
           /\ offer'[q] = j <=> offer[q] = j

\* It keeps the job's part if the job knows what it has made.
LEMMA StaysOnRow ==
  ASSUME ImportInv, NEW j \in Job, Stays(j), Remembers(j)'
  PROVE  JobInv(j)'
<1> DEFINE p == Subject(j)
<1>1. /\ p \in Person
      /\ \A n \in DOMAIN job[j].file :
             job[j].file[n] \in Person /\ (job[j].file[n] = p => n = job[j].row)
  BY SubjectTyped DEF Stays
<1>2. Subject(j)' = p
  BY DEF Stays, Subject
<1>3. job[j].status \notin {"none", "completed", "failed"}
  BY OneJob DEF Stays, Placed, Working
<1>4. Importing(j) /\ job[j].phase # "dead" /\ job[j].status # "failed"
  BY <1>3 DEF Importing, Stays, Working
<1>5. job[j].phase \notin Working => Untouched(j, p)
  <2>1. job[j].row \in DOMAIN job[j].file
    BY OneJob DEF Stays
  <2> QED BY <1>4, <2>1, OneJob DEF Ahead, Subject
<1>6. Placed(j)'
  <2>1. /\ job'[j].row >= 1 /\ job'[j].row <= Len(job'[j].file)
        /\ job'[j].row <= Len(job'[j].file) + 1
    BY OneJob DEF Stays
  <2> QED BY <1>3, <2>1 DEF Placed, Stays, Working
<1>7. Ahead(j)'
  <2>1. ASSUME NEW n \in DOMAIN job[j].file, n > job[j].row
        PROVE  Untouched(j, job[j].file[n])'
    <3>1. Untouched(j, job[j].file[n])
      BY <1>4, <2>1, OneJob DEF Ahead
    <3>2. PICK q \in Person : q = job[j].file[n]
      BY <1>1
    <3>3. q # p
      BY <1>1, <2>1, <3>2, OneJob
    <3>4. Untouched(j, q)'
      BY <3>1, <3>2, <3>3 DEF Untouched, Stays
    <3>5. job'[j].file[n] = q
      BY <3>2 DEF Stays
    <3> QED BY <3>4, <3>5, <3>2 DEF Untouched, Stays
  <2> QED BY <1>3, <2>1 DEF Ahead, Stays
<1>8. Tallied(j)'
  <2>1. ByJob(j)' \ InHand(j)' = ByJob(j) \ InHand(j)
    <3>1. InHand(j)' = {p}
      BY <1>2 DEF InHand, Stays
    <3>2. InHand(j) = {p} \/ (InHand(j) = {} /\ p \notin ByJob(j))
      BY <1>5 DEF InHand, ByJob, Untouched
    <3>3. ByJob(j)' \ {p} = ByJob(j) \ {p}
      BY DEF ByJob, Stays
    <3> QED BY <3>1, <3>2, <3>3
  <2>2. job[j].kind = "admissions" /\ UNCHANGED <<left, recounted>>
    BY DEF Stays, history
  <2> QED BY <1>3, <1>4, <2>1, <2>2, OneJob DEF Tallied, Stays, Importing
<1>9. Whole(j)'
  <2>1. ASSUME NEW q \in Person, ~Writes(j, q)', <<q, j>> \notin left
        PROVE  /\ admission'[q][j] # "none" => receipts'[q][j] = Payments
               /\ admission'[q][j] = "none" => lead'[q] # j /\ offer'[q] # j
    <3>1. Writes(j, p)'
      BY <1>2 DEF Writes, Stays, Working
    <3>2. q # p
      BY <1>2, <2>1, <3>1 DEF Writes
    <3>3. ~Writes(j, q)
      BY <3>2 DEF Writes
    <3> QED BY <2>1, <3>2, <3>3, OneJob DEF Whole, Stays
  <2> QED BY <2>1 DEF Whole, Stays, history
<1> QED BY <1>6, <1>7, <1>8, <1>9 DEF JobInv

\* It keeps the invariant if it disturbs no other job and nobody is admitted twice
\* because of it.
LEMMA StaysKept ==
  ASSUME ImportInv, NEW j \in Job, Stays(j), Remembers(j)', ImportTypeOK',
         \A k \in Job \ {j} : Undisturbed(k), OfferedToLeads',
         ~together => \A p \in Person : AdmittedAlone(p)'
  PROVE  ImportInv'
<1>1. \A k \in Job : Running(k, "admissions")' => Running(k, "admissions")
  BY DEF Running, Stays, Working
<1>2. UNCHANGED together
  BY DEF Stays, history
<1>3. OneAtATime'
  BY <1>1, <1>2 DEF ImportInv, OneAtATime
<1> QED BY <1>3, StaysOnRow, StepKept

\* Admission imports that write at the same time are together.
LEMMA OneWrites ==
  ASSUME ImportInv, ~together, NEW j \in Job, NEW k \in Job,
         job[j].phase \in Working, job[k].phase \in Working
  PROVE  j = k
<1>1. Running(j, "admissions") /\ Running(k, "admissions")
  BY OneJob DEF Placed, Running, Working
<1> QED BY <1>1 DEF ImportInv, OneAtATime

\* Before a job writes a row there is nothing of it.
LEMMA NothingYet ==
  ASSUME ImportInv, NEW j \in Job, job[j].kind = "admissions",
         job[j].phase \in {"match", "lead"}, job[j].row <= Len(job[j].file)
  PROVE  Untouched(j, Subject(j)) /\ job[j].made = {}
<1>1. job[j].row \in DOMAIN job[j].file /\ Importing(j)
  BY OneJob DEF Importing
<1> QED BY <1>1, OneJob DEF Ahead, Subject, Working, Placed

-----------------------------------------------------------------------------
(* The job *)

\* A job begins with nothing of its making in the tables.
LEMMA UploadKeeps ==
  ASSUME ImportInv, NEW j \in Job, NEW kind \in Kinds, NEW handling \in Handling,
         NEW file \in Files, Upload(j, kind, handling, file)
  PROVE  ImportInv'
<1> DEFINE r == [NotUploaded EXCEPT !.kind = kind, !.handling = handling, !.file = file,
                                    !.status = "queued", !.phase = "start"]
<1>1. /\ r \in JobRow /\ r.kind = kind /\ r.status = "queued" /\ r.phase = "start"
      /\ r.row = 1 /\ r.success = 0 /\ r.failed = 0 /\ r.made = {} /\ r.file = file
  <2>1. kind \in {"leads", "admissions"} /\ handling \in {"skip", "use"}
    BY BulkImportConstants
  <2> QED BY <2>1 DEF NotUploaded, JobRow, Phases
<1>2. job \in [Job -> JobRow] /\ Goes(j, r)
  BY OneJob DEF Upload
<1> HIDE DEF r
<1>3. /\ job' \in [Job -> JobRow] /\ job'[j] = r
      /\ \A k \in Job \ {j} : job'[k] = job[k]
  BY <1>1, <1>2, GoesOn
<1>4. \A p \in Person : Untouched(j, p) /\ Untouched(j, p)'
  BY OneJob DEF Upload, Ahead, Untouched, tables
<1>5. Len(file) \in Nat /\ Len(file) >= 1
  BY FileRows
<1>6. Placed(j)'
  BY <1>1, <1>3, <1>5 DEF Placed, Working
<1>7. Ahead(j)'
  <2>1. \A n \in DOMAIN job'[j].file : Untouched(j, file[n])'
    <3>1. \A n \in DOMAIN job'[j].file : file[n] \in Person
      BY <1>1, <1>3, FileRows
    <3> QED BY <1>4, <3>1 DEF Untouched
  <2> QED BY <1>1, <1>3, <2>1 DEF Ahead, Importing, Untouched
<1>8. Remembers(j)'
  BY <1>1, <1>3 DEF Remembers, Working
<1>9. Tallied(j)'
  <2>1. ByJob(j)' = {} /\ InHand(j)' = {}
    BY <1>1, <1>3, <1>4 DEF ByJob, InHand, Untouched, Working
  <2>2. Cardinality(ByJob(j)' \ InHand(j)') = 0
    BY <2>1, FS_EmptySet
  <2> QED BY <1>1, <1>3, <2>2 DEF Tallied, Importing
<1>10. Whole(j)'
  BY <1>4 DEF Whole, Untouched
<1>11. JobInv(j)'
  BY <1>6, <1>7, <1>8, <1>9, <1>10 DEF JobInv
<1>12. UNCHANGED <<tables, together, late, left, recounted>>
  BY DEF Upload, history
<1>13. ~Running(j, "admissions")'
  BY <1>1, <1>3 DEF Running
<1> QED BY <1>3, <1>11, <1>12, <1>13, QuietKept

\* A job that takes up another phase, in which it writes no row.
Rests(j) ==
    /\ job' \in [Job -> JobRow] /\ \A k \in Job \ {j} : job'[k] = job[k]
    /\ job'[j].kind = job[j].kind /\ job'[j].file = job[j].file
    /\ job[j].status \notin {"none", "failed"} /\ job'[j].status \notin {"none", "failed"}
    /\ job'[j].phase \notin Working
    /\ job[j].kind = "admissions" =>
           /\ job'[j].row = job[j].row
           /\ job[j].phase \in Working \cup {"dead"} => job'[j].phase = "dead"
    /\ UNCHANGED <<tables, late, left, recounted>>

\* It keeps its part if its place and its counts are right.
LEMMA RestsKept ==
  ASSUME ImportInv, NEW j \in Job, Rests(j), Placed(j)', Tallied(j)'
  PROVE  JobInv(j)'
<1>1. \A p \in Person : Untouched(j, p) => Untouched(j, p)'
  BY DEF Rests, Untouched, tables
<1>2. Ahead(j)'
  <2>1. ASSUME Importing(j)', job'[j].phase # "dead",
               NEW n \in DOMAIN job[j].file, n > job[j].row \/ n = job[j].row
        PROVE  Untouched(j, job[j].file[n])'
    <3>1. Untouched(j, job[j].file[n])
      BY <2>1, OneJob DEF Ahead, Importing, Rests
    <3>2. PICK q \in Person : q = job[j].file[n]
      BY OneJob, FileRows
    <3>3. Untouched(j, q)'
      BY <1>1, <3>1, <3>2
    <3>4. job'[j].file[n] = q
      BY <3>2 DEF Rests
    <3> QED BY <3>2, <3>3, <3>4 DEF Untouched, Rests
  <2>2. Importing(j)' => job'[j].row = job[j].row
    BY DEF Importing, Rests
  <2> QED BY <2>1, <2>2 DEF Ahead, Rests
<1>3. Remembers(j)'
  BY DEF Remembers, Rests
<1>4. Whole(j)'
  <2>1. ASSUME job[j].kind = "admissions", NEW p \in Person, ~Writes(j, p)'
        PROVE  ~Writes(j, p)
    BY <2>1, OneJob DEF Writes, Subject, Rests, Working, Placed
  <2> QED BY <2>1, OneJob DEF Whole, Rests, tables
<1> QED BY <1>2, <1>3, <1>4 DEF JobInv

\* What an admission import is through with stays the same while it rests.
LEMMA RestsTallied ==
  ASSUME ImportInv, NEW j \in Job, Rests(j), job[j].kind = "admissions",
         job'[j].success = job[j].success, job'[j].failed = job[j].failed,
         job'[j].status = "completed" => job'[j].row = Len(job[j].file) + 1
  PROVE  Tallied(j)'
<1> SUFFICES ASSUME job'[j].phase # "dead"
             PROVE  Tallied(j)'
  BY DEF Tallied, Rests
<1>1. job[j].phase \notin Working \cup {"dead"} /\ Importing(j) /\ job[j].status # "failed"
  BY DEF Rests, Importing
<1>2. InHand(j) = {} /\ InHand(j)' = {}
  BY <1>1 DEF InHand, Rests
<1>3. ByJob(j)' = ByJob(j)
  BY DEF ByJob, Rests, tables
<1> QED BY <1>1, <1>2, <1>3, OneJob DEF Tallied, Rests

\* An admission import that begins has counted nothing; if another one is at work,
\* they are together from now on.
LEMMA StartKeeps ==
  ASSUME ImportInv, NEW j \in Job, Start(j)
  PROVE  ImportInv'
<1> DEFINE r == [job[j] EXCEPT !.status = "processing", !.phase = "match", !.row = 1,
                               !.success = 0, !.failed = 0, !.duplicates = 0]
<1>1. /\ r \in JobRow /\ r.kind = job[j].kind /\ r.file = job[j].file
      /\ r.status = "processing" /\ r.phase = "match" /\ r.row = 1 /\ r.success = 0
      /\ r.failed = 0 /\ r.duplicates = 0 /\ r.made = job[j].made
  <2>1. job[j] \in JobRow
    BY OneJob
  <2> QED BY <2>1 DEF JobRow, Phases
<1>2. job \in [Job -> JobRow] /\ Goes(j, r)
  BY OneJob DEF Start
<1> HIDE DEF r
<1>3. /\ job' \in [Job -> JobRow] /\ job'[j] = r
      /\ \A k \in Job \ {j} : job'[k] = job[k]
  BY <1>1, <1>2, GoesOn
<1>4. /\ job[j].phase = "start" /\ job[j].made = {}
      /\ job[j].status \notin {"none", "failed"}
      /\ job[j].kind = "admissions" =>
             job[j].row = 1 /\ job[j].success = 0 /\ job[j].failed = 0
  BY OneJob DEF Start, At, Placed, Working
<1>5. Rests(j)
  BY <1>1, <1>3, <1>4 DEF Rests, Start, Working
<1>6. Placed(j)'
  BY <1>1, <1>3, <1>4, OneJob DEF Placed, Working
<1>7. Tallied(j)'
  <2>1. CASE job[j].kind = "admissions"
    BY <1>1, <1>3, <1>4, <1>5, <2>1, RestsTallied
  <2>2. CASE job[j].kind = "leads"
    BY <1>1, <1>3, <2>2 DEF Tallied, Importing
  <2> QED BY <2>1, <2>2, OneJob, JobFields
<1>8. JobInv(j)'
  BY <1>5, <1>6, <1>7, RestsKept
<1>9. UNCHANGED <<tables, late, left, recounted>> /\ together \in BOOLEAN
  BY DEF Start, ImportInv, ImportTypeOK
<1>10. /\ together' \in BOOLEAN /\ together => together'
       /\ ~together' => ~together /\ (job[j].kind = "admissions" =>
                                          \A k \in Job : ~Running(k, "admissions"))
  BY <1>9 DEF Start
<1>11. ImportTypeOK'
  <2>1. UNCHANGED <<lead, offer, admission, receipts, late, left, recounted>>
    BY <1>9 DEF tables
  <2>2. ImportTypeOK
    BY DEF ImportInv
  <2>3. /\ lead' \in [Person -> Makers] /\ offer' \in [Person -> Makers]
        /\ admission' \in [Person -> [Job -> {"none", "linked", "orphan"}]]
        /\ receipts' \in [Person -> [Job -> Nat]]
        /\ \A p \in Person, k \in Job : receipts'[p][k] <= Payments
        /\ late' \subseteq Person /\ left' \subseteq Person \X Job
        /\ recounted' \subseteq Job
    BY <2>1, <2>2 DEF ImportTypeOK
  <2>4. together' \in BOOLEAN
    BY <1>9 DEF Start
  <2>5. job' \in [Job -> JobRow]
    BY <1>3
  <2> QED BY Zenon, <2>3, <2>4, <2>5 DEF ImportTypeOK
<1>12. OfferedToLeads'
  BY <1>9 DEF ImportInv, OfferedToLeads, tables
<1>13. OneAtATime'
  <2>1. ASSUME ~together', NEW k \in Job, Running(k, "admissions")', k # j
        PROVE  Running(k, "admissions") /\ job[j].kind # "admissions"
    <3>1. Running(k, "admissions")
      BY <1>3, <2>1 DEF Running
    <3> QED BY <1>10, <2>1, <3>1
  <2>2. Running(j, "admissions")' => job[j].kind = "admissions"
    BY <1>1, <1>3 DEF Running
  <2>3. ~together' => \A k, l \in Job :
            Running(k, "admissions")' /\ Running(l, "admissions")' => k = l
    BY <1>10, <2>1, <2>2 DEF ImportInv, OneAtATime
  <2>4. \A p \in Person : AdmittedAlone(p) => AdmittedAlone(p)'
    BY <1>9 DEF AdmittedAlone, Admitted, tables
  <2> QED BY <1>10, <2>3, <2>4 DEF ImportInv, OneAtATime
<1>14. ASSUME NEW k \in Job \ {j}
       PROVE  Undisturbed(k)
  BY <1>3, <1>9, <1>10 DEF Undisturbed, Admitted, Subject, tables
<1> QED BY <1>8, <1>11, <1>12, <1>13, <1>14, StepKept

\* A job is over when its worker has read the file.
LEMMA FinishKeeps ==
  ASSUME ImportInv, NEW j \in Job, Finish(j)
  PROVE  ImportInv'
<1> DEFINE r == [job[j] EXCEPT !.status = "completed", !.phase = "idle"]
<1>2. /\ r \in JobRow /\ r.kind = job[j].kind /\ r.file = job[j].file
      /\ r.status = "completed" /\ r.phase = "idle" /\ r.row = job[j].row
      /\ r.success = job[j].success /\ r.failed = job[j].failed
      /\ r.duplicates = job[j].duplicates /\ r.made = job[j].made
  <2>1. job[j] \in JobRow
    BY OneJob
  <2> QED BY <2>1 DEF JobRow, Phases
<1>3. job \in [Job -> JobRow] /\ Goes(j, r)
  BY OneJob DEF Finish
<1> HIDE DEF r
<1>4. /\ job' \in [Job -> JobRow] /\ job'[j] = r
      /\ \A k \in Job \ {j} : job'[k] = job[k]
  BY <1>2, <1>3, GoesOn
<1>5. /\ job[j].phase = "match" /\ job[j].made = {} /\ ~HasRow(j)
      /\ job[j].status \notin {"none", "completed", "failed"}
      /\ UNCHANGED <<tables, together, late, left, recounted>>
  BY OneJob DEF Finish, At, Placed, Working, history
<1>6. job[j].row = Len(job[j].file) + 1
  BY <1>5, OneJob DEF HasRow, At
<1>7. Rests(j)
  BY <1>2, <1>4, <1>5 DEF Rests, Working
<1>8. Placed(j)'
  BY <1>2, <1>4, <1>5, OneJob DEF Placed, Working
<1>9. Tallied(j)'
  <2>1. CASE job[j].kind = "admissions"
    BY <1>2, <1>4, <1>6, <1>7, <2>1, RestsTallied
  <2>2. CASE job[j].kind = "leads"
    <3>1. job[j].success + job[j].failed + job[j].duplicates >= job[j].row - 1
      BY <1>5, <2>2, OneJob DEF Tallied
    <3>2. job[j].success + job[j].failed + job[j].duplicates >= Len(job[j].file)
      BY <1>6, <3>1, OneJob
    <3> QED BY <1>2, <1>4, <2>2, <3>2 DEF Tallied, Importing
  <2> QED BY <2>1, <2>2, OneJob, JobFields
<1>10. JobInv(j)'
  BY <1>7, <1>8, <1>9, RestsKept
<1>11. ~Running(j, "admissions")'
  BY <1>2, <1>4 DEF Running
<1> QED BY <1>4, <1>5, <1>10, <1>11, QuietKept

\* A job whose worker could not read its file, or write its last records, has failed.
LEMMA FailJobKeeps ==
  ASSUME ImportInv, NEW j \in Job, FailJob(j)
  PROVE  ImportInv'
<1>1. /\ JobFails(j) /\ job[j].phase = "match"
      /\ UNCHANGED <<tables, together, late, left, recounted>>
  BY DEF FailJob, At, history
<1>2. RowOver(j, 0)
  BY <1>1 DEF RowOver, Working
<1> QED BY <1>1, <1>2, JobFailsKept

\* A job that dies leaves behind whatever it was writing, and nothing else.
LEMMA DieKeeps ==
  ASSUME ImportInv, NEW j \in Job, Die(j)
  PROVE  ImportInv'
<1> DEFINE r == [job[j] EXCEPT !.phase = "dead", !.success = 0, !.failed = 0,
                               !.duplicates = 0]
<1>0. /\ r \in JobRow /\ r.kind = job[j].kind /\ r.file = job[j].file
      /\ r.status = job[j].status /\ r.phase = "dead" /\ r.row = job[j].row
      /\ r.made = job[j].made
  <2>1. job[j] \in JobRow
    BY OneJob
  <2> QED BY <2>1 DEF JobRow, Phases
<1>1. job \in [Job -> JobRow] /\ Goes(j, r)
  BY OneJob DEF Die
<1> HIDE DEF r
<1>2. /\ job' \in [Job -> JobRow] /\ job'[j] = r
      /\ \A k \in Job \ {j} : job'[k] = job[k]
  BY <1>0, <1>1, GoesOn
<1>3. /\ job[j].status \notin {"none", "completed", "failed"}
      /\ UNCHANGED <<tables, together, late, left, recounted>>
  BY OneJob DEF Die, Placed, history
<1>4. Rests(j)
  BY <1>0, <1>2, <1>3 DEF Rests, Working
<1>5. Placed(j)'
  BY <1>0, <1>2, <1>3, OneJob DEF Placed, Working
<1>6. Tallied(j)'
  BY <1>0, <1>2, <1>3 DEF Tallied, Importing
<1>7. JobInv(j)'
  BY <1>4, <1>5, <1>6, RestsKept
<1>8. ~Running(j, "admissions")'
  BY <1>0, <1>2 DEF Running
<1> QED BY <1>2, <1>3, <1>7, <1>8, QuietKept

\* Only a lead import is handed out again.
LEMMA RedeliverKeeps ==
  ASSUME ImportInv, NEW j \in Job, Redeliver(j)
  PROVE  ImportInv'
<1>1. job \in [Job -> JobRow] /\ "start" \in Phases /\ To(j, "start")
  BY OneJob DEF Redeliver, Phases
<1>2. /\ job' \in [Job -> JobRow] /\ job'[j].phase = "start"
      /\ job'[j].kind = job[j].kind /\ job'[j].handling = job[j].handling
      /\ job'[j].file = job[j].file /\ job'[j].status = job[j].status
      /\ job'[j].row = job[j].row /\ job'[j].success = job[j].success
      /\ job'[j].failed = job[j].failed /\ job'[j].duplicates = job[j].duplicates
      /\ job'[j].made = job[j].made
      /\ \A k \in Job \ {j} : job'[k] = job[k]
  BY <1>1, ToPhase
<1>3. /\ job[j].status \notin {"none", "completed", "failed"} /\ job[j].kind = "leads"
      /\ UNCHANGED <<tables, together, late, left, recounted>>
  BY OneJob DEF Redeliver, At, Placed, history
<1>4. Rests(j)
  BY <1>2, <1>3 DEF Rests, Working
<1>5. Placed(j)'
  BY <1>2, <1>3, OneJob DEF Placed, Working
<1>6. Tallied(j)'
  BY <1>2, <1>3 DEF Tallied, Importing
<1>7. JobInv(j)'
  BY <1>4, <1>5, <1>6, RestsKept
<1>8. ~Running(j, "admissions")'
  BY <1>2 DEF Running
<1> QED BY <1>2, <1>3, <1>7, <1>8, QuietKept

-----------------------------------------------------------------------------
(* A row *)

\* A job about to enter a lead has written nothing of the row.
LEMMA NewLeadKeeps ==
  ASSUME ImportInv, NEW j \in Job, NewLead(j)
  PROVE  ImportInv'
<1>1. job \in [Job -> JobRow] /\ "lead" \in Phases /\ To(j, "lead")
  BY OneJob DEF NewLead, Phases
<1>2. /\ job' \in [Job -> JobRow] /\ job'[j].phase = "lead"
      /\ job'[j].kind = job[j].kind /\ job'[j].handling = job[j].handling
      /\ job'[j].file = job[j].file /\ job'[j].status = job[j].status
      /\ job'[j].row = job[j].row /\ job'[j].success = job[j].success
      /\ job'[j].failed = job[j].failed /\ job'[j].duplicates = job[j].duplicates
      /\ job'[j].made = job[j].made
      /\ \A k \in Job \ {j} : job'[k] = job[k]
  BY <1>1, ToPhase
<1>3. /\ job[j].status \notin {"none", "completed", "failed"} /\ job[j].phase = "match"
      /\ job[j].row <= Len(job[j].file)
      /\ UNCHANGED <<tables, together, late, left, recounted>>
  BY OneJob DEF NewLead, HasRow, At, Placed, history
<1>4. Rests(j)
  BY <1>2, <1>3 DEF Rests, Working
<1>5. Placed(j)'
  BY <1>2, <1>3, OneJob DEF Placed, Working
<1>6. Tallied(j)'
  <2>1. CASE job[j].kind = "admissions"
    BY <1>2, <1>3, <1>4, <2>1, RestsTallied
  <2>2. CASE job[j].kind = "leads"
    BY <1>2, <1>3, <2>2, OneJob DEF Tallied, Importing
  <2> QED BY <2>1, <2>2, OneJob, JobFields
<1>7. JobInv(j)'
  BY <1>4, <1>5, <1>6, RestsKept
<1>8. Running(j, "admissions")' => Running(j, "admissions")
  BY <1>2, <1>3 DEF Running
<1> QED BY <1>2, <1>3, <1>7, <1>8, QuietKept

\* Whoever rejects a row, skips or updates a lead, or finds the lead taken, goes on
\* to the next row or fails with it.
Passes(j) ==
    \/ Reject(j) \/ RejectUtr(j) \/ MatchLead(j) \/ LeadFails(j) \/ PriorOwner(j)
    \/ InsertLead(j) /\ lead[Subject(j)] # Nobody

\* The row fails, and is counted once or twice.
LEMMA RefusedKept ==
  ASSUME ImportInv, NEW j \in Job, NEW d \in Nat, HasRow(j),
         UNCHANGED <<tables, together, late, left>>, Refused(j, d)
  PROVE  ImportInv'
<1>1. /\ job[j].phase \in Working \cup {"match", "lead", "prior"}
      /\ job[j].row <= Len(job[j].file) /\ RowOver(j, 0)
  BY DEF HasRow, At, RowOver, Working
<1>2. CASE RowFails(j, 1, d) /\ recounted' = recounted
  <2>1. Counted(j, 0, 1, d)
    BY DEF Counted
  <2> QED BY <1>1, <1>2, <2>1, RowFailsKept
<1>3. CASE Recounts(j, d)
  <2>1. recounted' = recounted \cup {j} /\ NextRow(j, 0, 2, d)
    BY <1>3 DEF Recounts
  <2>2. Counted(j, 0, 2, d)
    BY <2>1 DEF Counted
  <2> QED BY <1>1, <2>1, <2>2, PassesOnKept
<1> QED BY <1>2, <1>3 DEF Refused

\* Of a lead import the row is counted.
LEMMA PassKeeps ==
  ASSUME ImportInv, NEW j \in Job, Passes(j)
  PROVE  ImportInv'
<1>1. CASE Reject(j) \/ RejectUtr(j)
  <2>1. /\ HasRow(j) /\ Refused(j, 0)
        /\ UNCHANGED <<tables, together, late, left>>
    BY <1>1 DEF Reject, RejectUtr
  <2> QED BY <2>1, RefusedKept
<1>2. CASE ~(Reject(j) \/ RejectUtr(j))
  <2>1. /\ job[j].phase \in {"match", "lead", "prior"}
        /\ UNCHANGED <<tables, together, late, left, recounted>>
    BY <1>2 DEF Passes, MatchLead, LeadFails, PriorOwner, InsertLead, HasRow, At, tables,
                history
  <2>2. job[j].row <= Len(job[j].file)
    BY <1>2, OneJob DEF Passes, MatchLead, LeadFails, PriorOwner, InsertLead, HasRow, At,
                        Placed
  <2>3. /\ job[j].phase \in Working \cup {"match", "lead", "prior"}
        /\ RowOver(j, 0)
        /\ job[j].kind # "admissions" => RowOver(j, 1)
    BY <2>1 DEF RowOver, Working
  <2>4. CASE MatchLead(j)
    <3>1. job[j].kind = "leads"
      BY <2>4 DEF MatchLead
    <3>2. ASSUME NEW s \in {0, 1}, NextRow(j, s, 0, 1)
          PROVE  ImportInv'
      <4>1. Counted(j, s, 0, 1) /\ RowOver(j, s)
        BY <2>3, <3>1 DEF Counted
      <4> QED BY <2>1, <2>2, <2>3, <3>2, <4>1, PassesOnKept
    <3>3. CASE RowFails(j, 1, 1)
      <4>1. Counted(j, 0, 1, 1)
        BY <3>1 DEF Counted
      <4> QED BY <2>1, <2>2, <2>3, <3>3, <4>1, RowFailsKept
    <3>4. PICK s \in {0, 1} : s = IF job[j].handling = "use" THEN 1 ELSE 0
      OBVIOUS
    <3>5. NextRow(j, s, 0, 1) \/ RowFails(j, 1, 1)
      BY <2>4, <3>4 DEF MatchLead
    <3> QED BY <3>2, <3>3, <3>5
  <2>5. CASE LeadFails(j)
    <3>1. RowFails(j, 1, 0) /\ Counted(j, 0, 1, 0)
      BY <2>5 DEF LeadFails, Counted
    <3> QED BY <2>1, <2>2, <2>3, <3>1, RowFailsKept
  <2>6. CASE PriorOwner(j)
    <3>1. job[j].phase = "prior" /\ job[j].kind = "leads"
      BY <2>6, OneJob DEF PriorOwner, At, Placed
    <3>2. Counted(j, 0, 0, 0) /\ Counted(j, 0, 1, 0)
      BY <3>1 DEF Counted
    <3>3. NextRow(j, 0, 0, 0) \/ RowFails(j, 1, 0)
      BY <2>6 DEF PriorOwner
    <3> QED BY <2>1, <2>2, <2>3, <3>2, <3>3, PassesOnKept, RowFailsKept
  <2>7. CASE InsertLead(j) /\ lead[Subject(j)] # Nobody
    <3>1. RowFails(j, IF job[j].kind = "admissions" THEN 1 ELSE 0,
                      IF job[j].kind = "admissions" THEN 0 ELSE 1)
      BY <2>7 DEF InsertLead
    <3>2. PICK f \in {0, 1}, d \in {0, 1} :
              /\ f = IF job[j].kind = "admissions" THEN 1 ELSE 0
              /\ d = IF job[j].kind = "admissions" THEN 0 ELSE 1
      OBVIOUS
    <3>3. RowFails(j, f, d)
      BY <3>1, <3>2
    <3>4. Counted(j, 0, f, d)
      BY <3>2 DEF Counted
    <3> QED BY <2>1, <2>2, <2>3, <3>3, <3>4, RowFailsKept
  <2> QED BY <1>2, <2>4, <2>5, <2>6, <2>7 DEF Passes
<1> QED BY <1>1, <1>2

\* The writing of a row ends with all of it, with nothing of it, or in a rollback
\* that failed.
LEMMA EndOfRowKeeps ==
  ASSUME ImportInv, NEW j \in Job, WriteDone(j) \/ UndoDone(j) \/ UndoFails(j)
  PROVE  ImportInv'
<1>1. /\ job[j].phase \in {"receipt", "undo"}
      /\ UNCHANGED <<tables, together, late, recounted>>
  BY DEF WriteDone, UndoDone, UndoFails, At, history
<1>2. /\ job[j].phase \in Working /\ job[j].kind = "admissions"
      /\ job[j].row <= Len(job[j].file)
  BY <1>1, OneJob DEF Placed, Working
<1>3. \/ NextRow(j, 1, 0, 0) /\ RowOver(j, 1)
      \/ RowFails(j, 1, 0) /\ RowOver(j, 0)
  <2>1. CASE WriteDone(j)
    <3>1. Settled(j, 1) /\ left' = left
      <4>1. /\ job[j].phase = "receipt" /\ receipts[Subject(j)][j] = Payments
            /\ left' = left
        BY <2>1 DEF WriteDone, At, history
      <4>2. "admission" \in job[j].made /\ Remembers(j)
        BY <1>2, <4>1, OneJob DEF Remembers
      <4>3. admission[Subject(j)][j] # "none"
        BY <1>2, <4>2 DEF Remembers
      <4> QED BY <4>1, <4>3 DEF Settled
    <3> QED BY <1>2, <2>1, <3>1 DEF WriteDone, RowOver
  <2>2. CASE UndoDone(j)
    <3>1. Settled(j, 0) /\ left' = left
      <4>1. job[j].made = {} /\ left' = left
        BY <2>2 DEF UndoDone, ToUndo, history
      <4> QED BY <1>2, <4>1, OneJob DEF Remembers, Settled
    <3> QED BY <1>2, <2>2, <3>1 DEF UndoDone, RowOver
  <2>3. CASE UndoFails(j)
    BY <1>2, <2>3 DEF UndoFails, RowOver
  <2> QED BY <2>1, <2>2, <2>3
<1>4. Counted(j, 1, 0, 0) /\ Counted(j, 0, 1, 0)
  BY <1>2 DEF Counted
<1> QED BY <1>1, <1>2, <1>3, <1>4, PassesOnKept, RowFailsKept

\* What a writing step of j leaves to the others: their lines of the tables, and
\* the offers entered by hand.  Unless j admits or takes back an admission, nobody
\* else's admission is created or removed.
LEMMA OthersUndisturbed ==
  ASSUME ImportInv, NEW j \in Job, job[j].phase \in Working \/ UNCHANGED admission,
         \A k \in Job \ {j} : job'[k] = job[k],
         UNCHANGED history,
         \A p \in Person : lead'[p] \in {lead[p], j, Nobody},
         \A p \in Person : offer'[p] \in {offer[p], j, Nobody},
         \A p \in Person, k \in Job \ {j} :
             /\ admission'[p][k] = "none" <=> admission[p][k] = "none"
             /\ receipts'[p][k] = receipts[p][k]
  PROVE  \A k \in Job \ {j} : Undisturbed(k)
<1> TAKE k \in Job \ {j}
<1>1. k # Nobody /\ k # j /\ j # Hand /\ Nobody # Hand
  BY MakersDiffer
<1>2. \A p \in Person : /\ lead'[p] = k => lead[p] = k
                        /\ offer'[p] = k => offer[p] = k
                        /\ offer'[p] = Hand => offer[p] = Hand
  BY <1>1
<1>3. UNCHANGED <<together, late, left, recounted>>
  BY DEF history
<1>4. \/ ~together' => job[k].phase \notin Working
      \/ \A p \in Person : Admitted(p)' = Admitted(p)
  BY <1>1, <1>3, OneWrites DEF Admitted
<1>5. job[k].phase \in Working => Subject(k) \in Person /\ Subject(k)' = Subject(k)
  <2>1. job[k].phase \in Working => job[k].row <= Len(job[k].file)
    BY OneJob DEF Placed
  <2> QED BY <2>1, SubjectTyped DEF Subject
<1>6. ~together' /\ job[k].phase \in Working =>
          Admitted(Subject(k))' = Admitted(Subject(k))
  BY <1>4, <1>5 DEF Admitted
<1> QED BY <1>2, <1>3, <1>6 DEF Undisturbed

\* The types a writing step has to keep.
LEMMA TypesKept ==
  ASSUME ImportInv, job' \in [Job -> JobRow], UNCHANGED history,
         lead' \in [Person -> Makers], offer' \in [Person -> Makers],
         admission' \in [Person -> [Job -> {"none", "linked", "orphan"}]],
         receipts' \in [Person -> [Job -> Nat]],
         \A p \in Person, k \in Job : receipts'[p][k] <= Payments
  PROVE  ImportTypeOK'
<1>1. UNCHANGED <<together, late, left, recounted>> /\ ImportTypeOK
  BY DEF history, ImportInv
<1> QED BY Zenon, <1>1 DEF ImportTypeOK

\* The tables' types.
LEMMA TablesTyped ==
  ASSUME ImportInv
  PROVE  /\ lead \in [Person -> Makers] /\ offer \in [Person -> Makers]
         /\ admission \in [Person -> [Job -> {"none", "linked", "orphan"}]]
         /\ receipts \in [Person -> [Job -> Nat]]
         /\ \A p \in Person, k \in Job : receipts[p][k] <= Payments
         /\ Job \subseteq Makers /\ {Nobody, Hand} \subseteq Makers
BY DEF ImportInv, ImportTypeOK, Makers

\* Nobody is admitted, or everybody has the admission and the lead they had.
LEMMA AloneKept ==
  ASSUME ImportInv, ~together, NEW p \in Person,
         UNCHANGED admission, lead[p] # Nobody => lead'[p] # Nobody
  PROVE  AdmittedAlone(p)'
<1>1. AdmittedAlone(p)
  BY DEF ImportInv, OneAtATime
<1>2. Admitted(p)' = Admitted(p)
  BY DEF Admitted
<1> QED BY <1>1, <1>2 DEF AdmittedAlone

\* What an admission import knows while it writes its row.
LEMMA AtWork ==
  ASSUME ImportInv, NEW j \in Job, job[j].phase \in Working
  PROVE  /\ job[j].kind = "admissions" /\ job[j].row <= Len(job[j].file)
         /\ Subject(j) \in Person /\ Remembers(j)
         /\ j # Nobody /\ j # Hand /\ Nobody # Hand
         /\ job[j] \in JobRow /\ job[j].made \subseteq {"lead", "offer", "admission"}
         /\ job \in [Job -> JobRow]
<1>1. /\ job[j].kind = "admissions" /\ job[j].row <= Len(job[j].file)
  BY OneJob DEF Placed
<1> QED BY <1>1, OneJob, SubjectTyped, MakersDiffer, JobFields

\* A job that takes another phase and remembers what it made.
PhaseMade(j, x, m) == [job[j] EXCEPT !.phase = x, !.made = m]

\* The fields of that job.
LEMMA ToPhaseMade ==
  ASSUME job \in [Job -> JobRow], NEW j \in Job, NEW x \in Phases,
         NEW m \in SUBSET {"lead", "offer", "admission"},
         Goes(j, PhaseMade(j, x, m))
  PROVE  /\ job' \in [Job -> JobRow]
         /\ job'[j].phase = x /\ job'[j].made = m
         /\ job'[j].kind = job[j].kind /\ job'[j].handling = job[j].handling
         /\ job'[j].file = job[j].file /\ job'[j].status = job[j].status
         /\ job'[j].row = job[j].row /\ job'[j].success = job[j].success
         /\ job'[j].failed = job[j].failed /\ job'[j].duplicates = job[j].duplicates
         /\ \A k \in Job \ {j} : job'[k] = job[k]
<1> DEFINE r == [job[j] EXCEPT !.phase = x, !.made = m]
<1>1. job[j] \in JobRow
  OBVIOUS
<1>2. r \in JobRow
  BY <1>1 DEF JobRow
<1>3. /\ r.phase = x /\ r.kind = job[j].kind /\ r.handling = job[j].handling
      /\ r.file = job[j].file /\ r.status = job[j].status /\ r.row = job[j].row
      /\ r.success = job[j].success /\ r.failed = job[j].failed
      /\ r.duplicates = job[j].duplicates /\ r.made = m
  BY <1>1 DEF JobRow
<1>4. job' = [job EXCEPT ![j] = r]
  BY DEF Goes, PhaseMade
<1>5. job'[j] = r
  BY <1>4
<1> HIDE DEF r
<1> QED BY <1>2, <1>3, <1>4, <1>5

\* A step that stays on the row and writes nothing.
LEMMA StaysQuiet ==
  ASSUME ImportInv, NEW j \in Job, Stays(j), Remembers(j)', UNCHANGED tables
  PROVE  ImportInv'
<1>1. JobInv(j)'
  BY StaysOnRow
<1>2. UNCHANGED <<tables, together, late, left, recounted>>
  BY DEF Stays, history
<1>3. Running(j, "admissions")' => Running(j, "admissions")
  BY DEF Stays, Running, Working
<1>4. job' \in [Job -> JobRow] /\ \A k \in Job \ {j} : job'[k] = job[k]
  BY DEF Stays
<1> QED BY <1>1, <1>2, <1>3, <1>4, QuietKept

\* An admission import takes up a row: nobody has admitted this person, unless two
\* imports were at work together.
LEMMA TakesUpKeeps ==
  ASSUME ImportInv, NEW j \in Job, HasRow(j), job[j].kind = "admissions",
         lead[Subject(j)] # Nobody, ~Bounces(Subject(j)), UNCHANGED <<tables, history>>,
         Goes(j, [job[j] EXCEPT !.phase = "offer", !.duplicates = @ + 1])
  PROVE  ImportInv'
<1> DEFINE r == [job[j] EXCEPT !.phase = "offer", !.duplicates = @ + 1]
<1>0. PICK p \in Person : p = Subject(j)
  BY SubjectTyped DEF HasRow
<1>1. /\ job[j].kind = "admissions" /\ job[j].phase = "match"
      /\ job[j].row <= Len(job[j].file) /\ lead[p] # Nobody
      /\ Goes(j, r) /\ UNCHANGED <<tables, history>>
  BY <1>0 DEF HasRow, At
<1>2. /\ r \in JobRow /\ r.kind = job[j].kind /\ r.file = job[j].file
      /\ r.status = job[j].status /\ r.phase = "offer" /\ r.row = job[j].row
      /\ r.success = job[j].success /\ r.failed = job[j].failed
      /\ r.made = job[j].made
  <2>1. [job[j] EXCEPT !.phase = "offer"] \in JobRow
    BY OneJob DEF JobRow, Phases
  <2>2. \A q \in JobRow, n \in Nat : [q EXCEPT !.duplicates = n] \in JobRow
    BY DEF JobRow
  <2>3. job[j].duplicates + 1 \in Nat
    BY OneJob
  <2>4. r \in JobRow
    BY <2>1, <2>2, <2>3
  <2>5. job[j] \in JobRow
    BY OneJob
  <2> QED BY <2>4, <2>5 DEF JobRow
<1> HIDE DEF r
<1>3. /\ job' \in [Job -> JobRow] /\ job'[j] = r
      /\ \A k \in Job \ {j} : job'[k] = job[k]
  BY <1>1, <1>2, OneJob, GoesOn
<1>4. Stays(j)
  BY <1>0, <1>1, <1>2, <1>3 DEF Stays, Working, tables
<1>5. Untouched(j, p) /\ job[j].made = {} /\ p \in Person
  BY <1>0, <1>1, NothingYet
<1>6. ~together => Admitted(p) = {}
  <2>1. ~together => AdmittedAlone(p)
    BY <1>5 DEF ImportInv, OneAtATime
  <2> QED BY <1>0, <1>1, <2>1 DEF AdmittedAlone, Bounces, Admitted
<1>7. Remembers(j)'
  <2>1. Subject(j)' = p
    BY <1>0, <1>2, <1>3 DEF Subject
  <2>2. /\ job'[j].phase = "offer" /\ job'[j].made = {}
        /\ UNCHANGED <<lead, offer, admission, receipts, together>>
    BY <1>1, <1>2, <1>3, <1>5 DEF tables, history
  <2>3. ~together => Admitted(p)' = {}
    BY <1>6, <2>2 DEF Admitted
  <2> QED BY <1>5, <2>1, <2>2, <2>3 DEF Remembers, Untouched
<1> QED BY <1>1, <1>4, <1>7, StaysQuiet

\* It passes over a row, or takes it up.
LEMMA MatchKeeps ==
  ASSUME ImportInv, NEW j \in Job, MatchAdmission(j)
  PROVE  ImportInv'
<1>1. /\ HasRow(j) /\ job[j].kind = "admissions" /\ lead[Subject(j)] # Nobody
      /\ UNCHANGED <<tables, together, late, left>>
  BY DEF MatchAdmission
<1>2. CASE RowFails(j, 1, 1) /\ recounted' = recounted
  BY <1>1, <1>2, RefusedKept DEF Refused
<1>3. CASE Recounts(j, 1)
  BY <1>1, <1>3, RefusedKept DEF Refused
<1>4. CASE /\ ~Bounces(Subject(j)) /\ recounted' = recounted
           /\ Goes(j, [job[j] EXCEPT !.phase = "offer", !.duplicates = @ + 1])
  BY <1>1, <1>4, TakesUpKeeps DEF history
<1> QED BY <1>2, <1>3, <1>4 DEF MatchAdmission, Skipped

\* A new lead had no offer entered by hand, and nobody had an admission on it.
LEMMA InsertLeadKeeps ==
  ASSUME ImportInv, NEW j \in Job, InsertLead(j), lead[Subject(j)] = Nobody,
         job[j].kind = "admissions"
  PROVE  ImportInv'
<1>0. PICK p \in Person : p = Subject(j)
  BY SubjectTyped, OneJob DEF InsertLead, At, Placed
<1>1. /\ job[j].phase = "lead" /\ lead' = [lead EXCEPT ![p] = j]
      /\ Goes(j, PhaseMade(j, "offer", {"lead"}))
      /\ UNCHANGED <<offer, admission, receipts, history>>
  BY <1>0 DEF InsertLead, At, PhaseMade
<1>2. /\ job[j].row <= Len(job[j].file) /\ job \in [Job -> JobRow]
      /\ "offer" \in Phases
  BY <1>1, OneJob DEF Placed, Phases
<1>3. /\ job' \in [Job -> JobRow]
      /\ job'[j].phase = "offer" /\ job'[j].made = {"lead"}
      /\ job'[j].kind = job[j].kind /\ job'[j].file = job[j].file
      /\ job'[j].status = job[j].status /\ job'[j].row = job[j].row
      /\ job'[j].success = job[j].success /\ job'[j].failed = job[j].failed
      /\ \A k \in Job \ {j} : job'[k] = job[k]
  <2>1. {"lead"} \in SUBSET {"lead", "offer", "admission"}
    OBVIOUS
  <2> QED BY <1>1, <1>2, <2>1, ToPhaseMade
<1>4. /\ Untouched(j, p) /\ p \in Person
      /\ j # Nobody /\ j # Hand /\ Nobody # Hand
  BY <1>0, <1>1, <1>2, NothingYet, MakersDiffer
<1>5. /\ lead' \in [Person -> Makers] /\ lead'[p] = j
      /\ \A q \in Person : lead'[q] = IF q = p THEN j ELSE lead[q]
  BY <1>1, <1>4, TablesTyped
<1>6. Stays(j)
  BY <1>0, <1>1, <1>2, <1>3, <1>5 DEF Stays, Working
<1>7. UNCHANGED together
  BY <1>1 DEF history
<1>8. ~together => Admitted(p)' = {}
  <2>1. ~together => AdmittedAlone(p)
    BY <1>4 DEF ImportInv, OneAtATime
  <2> QED BY <1>0, <1>1, <2>1 DEF AdmittedAlone, Admitted
<1>9. Remembers(j)'
  <2>1. Subject(j)' = p
    BY <1>0, <1>3 DEF Subject
  <2>2. offer[p] # Hand /\ offer[p] # j
    BY <1>0, <1>4 DEF ImportInv, OfferedToLeads, Untouched
  <2>3. admission[p][j] = "none" /\ receipts[p][j] = 0
    BY <1>4 DEF Untouched
  <2> QED BY <1>1, <1>3, <1>5, <1>7, <1>8, <2>1, <2>2, <2>3 DEF Remembers
<1>10. \A k \in Job \ {j} : Undisturbed(k)
  <2>1. \A q \in Person : lead'[q] \in {lead[q], j, Nobody}
    BY <1>5
  <2> QED BY <1>1, <1>3, <2>1, OthersUndisturbed
<1>11. ImportTypeOK'
  BY <1>1, <1>3, <1>5, TablesTyped, TypesKept
<1>12. OfferedToLeads'
  BY <1>1, <1>4, <1>5 DEF ImportInv, OfferedToLeads
<1>13. ~together => \A q \in Person : AdmittedAlone(q)'
  BY <1>1, <1>4, <1>5, AloneKept
<1> QED BY <1>6, <1>9, <1>10, <1>11, <1>12, <1>13, StaysKept

\* A lead import enters a lead, which is counted now.
LEMMA ImportLeadKeeps ==
  ASSUME ImportInv, NEW j \in Job, InsertLead(j), lead[Subject(j)] = Nobody,
         job[j].kind = "leads"
  PROVE  ImportInv'
<1> DEFINE r == [job[j] EXCEPT !.phase = "prior", !.success = @ + 1]
<1>0. PICK p \in Person : p = Subject(j)
  BY SubjectTyped, OneJob DEF InsertLead, At, Placed
<1>1. /\ job[j].phase = "lead" /\ lead' = [lead EXCEPT ![p] = j]
      /\ Goes(j, r) /\ UNCHANGED <<offer, admission, receipts, history>>
  BY <1>0 DEF InsertLead, At
<1>2. /\ r \in JobRow /\ r.kind = job[j].kind /\ r.file = job[j].file
      /\ r.status = job[j].status /\ r.phase = "prior" /\ r.row = job[j].row
      /\ r.success = job[j].success + 1 /\ r.failed = job[j].failed
      /\ r.duplicates = job[j].duplicates /\ r.made = job[j].made
  <2>1. [job[j] EXCEPT !.phase = "prior"] \in JobRow
    BY OneJob DEF JobRow, Phases
  <2>2. \A q \in JobRow, n \in Nat : [q EXCEPT !.success = n] \in JobRow
    BY DEF JobRow
  <2>3. job[j].success + 1 \in Nat
    BY OneJob
  <2>4. r \in JobRow
    BY <2>1, <2>2, <2>3
  <2>5. job[j] \in JobRow
    BY OneJob
  <2> QED BY <2>4, <2>5 DEF JobRow
<1> HIDE DEF r
<1>3. /\ job' \in [Job -> JobRow] /\ job'[j] = r
      /\ \A k \in Job \ {j} : job'[k] = job[k]
  BY <1>1, <1>2, OneJob, GoesOn
<1>4. /\ j # Nobody /\ j # Hand /\ Nobody # Hand
      /\ job[j].row <= Len(job[j].file) /\ job[j].made = {}
      /\ job[j].status \notin {"none", "completed", "failed"}
  BY <1>1, OneJob, MakersDiffer DEF Placed, Working
<1>5. /\ lead' \in [Person -> Makers] /\ lead'[p] = j
      /\ \A q \in Person : lead'[q] = IF q = p THEN j ELSE lead[q]
  BY <1>1, <1>4, TablesTyped
<1>6. JobInv(j)'
  <2>1. Placed(j)' /\ Remembers(j)' /\ Whole(j)'
    BY <1>2, <1>3, <1>4, OneJob DEF Placed, Remembers, Whole, Working
  <2>2. Ahead(j)'
    BY <1>2, <1>3, <1>4 DEF Ahead, Importing
  <2>3. Tallied(j)'
    <3>1. job[j].success + job[j].failed + job[j].duplicates >= job[j].row - 1
      BY <1>1, OneJob DEF Tallied
    <3>2. job[j].success + 1 + job[j].failed + job[j].duplicates >= job[j].row
      BY <3>1, OneJob
    <3> QED BY <1>2, <1>3, <1>4, <3>2 DEF Tallied, Importing
  <2> QED BY <2>1, <2>2, <2>3 DEF JobInv
<1>7. \A k \in Job \ {j} : Undisturbed(k)
  <2>1. \A q \in Person : lead'[q] \in {lead[q], j, Nobody}
    BY <1>5
  <2> QED BY <1>1, <1>3, <2>1, OthersUndisturbed
<1>8. ImportTypeOK'
  BY <1>1, <1>3, <1>5, TablesTyped, TypesKept
<1>9. OfferedToLeads'
  BY <1>1, <1>4, <1>5 DEF ImportInv, OfferedToLeads
<1>10. ~together => \A q \in Person : AdmittedAlone(q)'
  BY <1>1, <1>4, <1>5, AloneKept
<1>11. OneAtATime'
  <2>1. \A k \in Job : Running(k, "admissions")' => Running(k, "admissions")
    BY <1>2, <1>3 DEF Running
  <2>2. UNCHANGED together
    BY <1>1 DEF history
  <2> QED BY <1>10, <2>1, <2>2 DEF ImportInv, OneAtATime
<1> QED BY <1>6, <1>7, <1>8, <1>9, <1>11, StepKept

\* An offer is only remembered where there was none.
LEMMA FindOfferKeeps ==
  ASSUME ImportInv, NEW j \in Job, FindOffer(j)
  PROVE  ImportInv'
<1>1. job[j].phase = "offer" /\ job[j].phase \in Working /\ UNCHANGED <<tables, history>>
  BY DEF FindOffer, At, Working
<1>2. /\ job[j].kind = "admissions" /\ job[j].row <= Len(job[j].file)
      /\ Remembers(j) /\ job \in [Job -> JobRow] /\ Nobody # Hand /\ Subject(j) \in Person
      /\ job[j].made \subseteq {"lead", "offer", "admission"}
  BY <1>1, AtWork
<1>3. PICK x \in {"admit", "upsert"}, m \in SUBSET {"lead", "offer", "admission"} :
          /\ Goes(j, PhaseMade(j, x, m))
          /\ x = "admit" => m = job[j].made
          /\ x = "upsert" => m = job[j].made \cup {"offer"} /\ ~HasOffer(Subject(j))
  <2>1. job[j] \in JobRow
    BY <1>1, AtWork
  <2>2. CASE To(j, "admit")
    <3>1. PhaseMade(j, "admit", job[j].made) = [job[j] EXCEPT !.phase = "admit"]
      BY <2>1 DEF PhaseMade, JobRow
    <3> QED BY <1>2, <2>2, <3>1 DEF To
  <2>3. CASE /\ Goes(j, [job[j] EXCEPT !.phase = "upsert", !.made = @ \cup {"offer"}])
             /\ ~HasOffer(Subject(j))
    <3>1. Goes(j, PhaseMade(j, "upsert", job[j].made \cup {"offer"}))
      BY <2>3 DEF PhaseMade
    <3> QED BY <1>2, <2>3, <3>1
  <2> QED BY <2>2, <2>3 DEF FindOffer
<1>4. x \in Phases
  BY DEF Phases
<1>5. /\ job' \in [Job -> JobRow]
      /\ job'[j].phase = x /\ job'[j].made = m
      /\ job'[j].kind = job[j].kind /\ job'[j].file = job[j].file
      /\ job'[j].status = job[j].status /\ job'[j].row = job[j].row
      /\ job'[j].success = job[j].success /\ job'[j].failed = job[j].failed
      /\ \A k \in Job \ {j} : job'[k] = job[k]
  BY <1>2, <1>3, <1>4, ToPhaseMade
<1>6. Stays(j)
  BY <1>1, <1>2, <1>5 DEF Stays, Working, tables
<1>7. Remembers(j)'
  <2>1. PICK p \in Person : p = Subject(j)
    BY <1>2
  <2>2. Subject(j)' = p /\ UNCHANGED <<lead, offer, admission, receipts, together, late>>
    BY <1>1, <1>5, <2>1 DEF Subject, tables, history
  <2>3. /\ job[j].made \subseteq {"lead"}
        /\ admission[p][j] = "none" /\ receipts[p][j] = 0
        /\ lead[p] = j => "lead" \in job[j].made
        /\ offer[p] = j => "offer" \in job[j].made
        /\ job[j].made \cap {"lead", "offer"} # {} /\ offer[p] = Hand => p \in late
        /\ ~together => Admitted(p) = {}
    BY <1>1, <1>2, <2>1 DEF Remembers
  <2>4. ~together => Admitted(p)' = {}
    BY <2>2, <2>3 DEF Admitted
  <2>5. x = "upsert" => offer[p] = Nobody
    BY <1>3, <2>1 DEF HasOffer
  <2>6. CASE x = "admit"
    BY <1>3, <1>5, <2>2, <2>3, <2>4, <2>6 DEF Remembers
  <2>7. CASE x = "upsert"
    BY <1>2, <1>3, <1>5, <2>2, <2>3, <2>4, <2>5, <2>7 DEF Remembers
  <2> QED BY <2>6, <2>7
<1> QED BY <1>1, <1>6, <1>7, StaysQuiet

\* The rollback knows what the row's statements have made.
LEMMA WriteFailsKeeps ==
  ASSUME ImportInv, NEW j \in Job, WriteFails(j)
  PROVE  ImportInv'
<1>1. job[j].phase \in Working /\ UNCHANGED <<tables, history>> /\ To(j, "undo")
  BY DEF WriteFails, Working
<1>2. /\ job[j].kind = "admissions" /\ job[j].row <= Len(job[j].file)
      /\ Remembers(j) /\ job \in [Job -> JobRow] /\ Subject(j) \in Person
      /\ "undo" \in Phases
  BY <1>1, AtWork DEF Phases
<1>3. /\ job' \in [Job -> JobRow]
      /\ job'[j].phase = "undo" /\ job'[j].made = job[j].made
      /\ job'[j].kind = job[j].kind /\ job'[j].file = job[j].file
      /\ job'[j].status = job[j].status /\ job'[j].row = job[j].row
      /\ job'[j].success = job[j].success /\ job'[j].failed = job[j].failed
      /\ \A k \in Job \ {j} : job'[k] = job[k]
  BY <1>1, <1>2, ToPhase
<1>4. Stays(j)
  BY <1>1, <1>2, <1>3 DEF Stays, Working, tables
<1>5. Remembers(j)'
  <2>1. PICK p \in Person : p = Subject(j)
    BY <1>2
  <2>2. Subject(j)' = p /\ UNCHANGED <<lead, offer, admission, receipts, together, late>>
    BY <1>1, <1>3, <2>1 DEF Subject, tables, history
  <2>3. Admitted(p)' = Admitted(p)
    BY <2>2 DEF Admitted
  <2> QED BY <1>1, <1>2, <1>3, <2>1, <2>2, <2>3 DEF Remembers
<1> QED BY <1>1, <1>4, <1>5, StaysQuiet

\* The offer written is remembered, whatever was there by then.
LEMMA UpsertOfferKeeps ==
  ASSUME ImportInv, NEW j \in Job, UpsertOffer(j)
  PROVE  ImportInv'
<1>1. job[j].phase = "upsert" /\ job[j].phase \in Working
  BY DEF UpsertOffer, At, Working
<1>2. /\ job[j].kind = "admissions" /\ job[j].row <= Len(job[j].file)
      /\ Remembers(j) /\ job \in [Job -> JobRow] /\ Subject(j) \in Person
      /\ j # Nobody /\ j # Hand /\ Nobody # Hand /\ "admit" \in Phases
  BY <1>1, AtWork DEF Phases
<1>0. PICK p \in Person : p = Subject(j)
  BY <1>2
<1>3. /\ lead[p] # Nobody /\ offer' = [offer EXCEPT ![p] = j] /\ To(j, "admit")
      /\ UNCHANGED <<lead, admission, receipts, history>>
  BY <1>0 DEF UpsertOffer
<1>4. /\ job' \in [Job -> JobRow]
      /\ job'[j].phase = "admit" /\ job'[j].made = job[j].made
      /\ job'[j].kind = job[j].kind /\ job'[j].file = job[j].file
      /\ job'[j].status = job[j].status /\ job'[j].row = job[j].row
      /\ job'[j].success = job[j].success /\ job'[j].failed = job[j].failed
      /\ \A k \in Job \ {j} : job'[k] = job[k]
  BY <1>2, <1>3, ToPhase
<1>5. /\ offer' \in [Person -> Makers] /\ offer'[p] = j
      /\ \A q \in Person : offer'[q] = IF q = p THEN j ELSE offer[q]
  BY <1>3, TablesTyped
<1>6. Stays(j)
  BY <1>0, <1>1, <1>2, <1>3, <1>4, <1>5 DEF Stays, Working
<1>7. Remembers(j)'
  <2>1. Subject(j)' = p /\ UNCHANGED <<lead, admission, receipts, together, late>>
    BY <1>0, <1>3, <1>4 DEF Subject, history
  <2>2. Admitted(p)' = Admitted(p)
    BY <2>1 DEF Admitted
  <2>3. /\ "admission" \notin job[j].made /\ "offer" \in job[j].made
        /\ admission[p][j] = "none" /\ receipts[p][j] = 0
        /\ lead[p] = j => "lead" \in job[j].made
        /\ ~together => Admitted(p) = {}
    BY <1>0, <1>1, <1>2 DEF Remembers
  <2> QED BY <1>2, <1>4, <1>5, <2>1, <2>2, <2>3 DEF Remembers
<1>8. \A k \in Job \ {j} : Undisturbed(k)
  <2>1. \A q \in Person : offer'[q] \in {offer[q], j, Nobody}
    BY <1>5
  <2> QED BY <1>1, <1>3, <1>4, <2>1, OthersUndisturbed
<1>9. ImportTypeOK'
  BY <1>3, <1>4, <1>5, TablesTyped, TypesKept
<1>10. OfferedToLeads'
  BY <1>2, <1>3, <1>5 DEF ImportInv, OfferedToLeads
<1>11. ~together => \A q \in Person : AdmittedAlone(q)'
  BY <1>3, AloneKept
<1> QED BY <1>6, <1>7, <1>8, <1>9, <1>10, <1>11, StaysKept

\* The one import at work admits a person whom nobody has admitted.
LEMMA InsertAdmissionKeeps ==
  ASSUME ImportInv, NEW j \in Job, InsertAdmission(j)
  PROVE  ImportInv'
<1>1. job[j].phase = "admit" /\ job[j].phase \in Working
  BY DEF InsertAdmission, At, Working
<1>2. /\ job[j].kind = "admissions" /\ job[j].row <= Len(job[j].file)
      /\ Remembers(j) /\ job \in [Job -> JobRow] /\ Subject(j) \in Person
      /\ job[j].made \subseteq {"lead", "offer", "admission"}
      /\ job[j].made \cup {"admission"} \in SUBSET {"lead", "offer", "admission"}
      /\ "receipt" \in Phases
  BY <1>1, AtWork DEF Phases
<1>0. PICK p \in Person : p = Subject(j)
  BY <1>2
<1>3. /\ lead[p] # Nobody /\ admission' = [admission EXCEPT ![p][j] = "linked"]
      /\ Goes(j, PhaseMade(j, "receipt", job[j].made \cup {"admission"}))
      /\ UNCHANGED <<lead, offer, receipts, history>>
  BY <1>0 DEF InsertAdmission, PhaseMade
<1>4. /\ job' \in [Job -> JobRow]
      /\ job'[j].phase = "receipt" /\ job'[j].made = job[j].made \cup {"admission"}
      /\ job'[j].kind = job[j].kind /\ job'[j].file = job[j].file
      /\ job'[j].status = job[j].status /\ job'[j].row = job[j].row
      /\ job'[j].success = job[j].success /\ job'[j].failed = job[j].failed
      /\ \A k \in Job \ {j} : job'[k] = job[k]
  BY <1>2, <1>3, ToPhaseMade
<1>5. /\ admission' \in [Person -> [Job -> {"none", "linked", "orphan"}]]
      /\ admission'[p][j] = "linked"
      /\ \A q \in Person, k \in Job : q # p \/ k # j => admission'[q][k] = admission[q][k]
  BY <1>3, TablesTyped
<1>6. Stays(j)
  BY <1>0, <1>1, <1>2, <1>3, <1>4, <1>5 DEF Stays, Working
<1>7. /\ "admission" \notin job[j].made
      /\ admission[p][j] = "none" /\ receipts[p][j] = 0
      /\ lead[p] = j => "lead" \in job[j].made
      /\ offer[p] = j => "offer" \in job[j].made
      /\ job[j].made \cap {"lead", "offer"} # {} /\ offer[p] = Hand => p \in late
      /\ ~together => Admitted(p) = {}
  BY <1>0, <1>1, <1>2 DEF Remembers
<1>8. ~together => Admitted(p)' = {j}
  BY <1>5, <1>7 DEF Admitted
<1>9. Remembers(j)'
  <2>1. Subject(j)' = p /\ UNCHANGED <<lead, offer, receipts, together, late>>
    BY <1>0, <1>3, <1>4 DEF Subject, history
  <2>2. (job[j].made \cup {"admission"}) \cap {"lead", "offer"}
            = job[j].made \cap {"lead", "offer"}
    OBVIOUS
  <2> QED BY <1>4, <1>5, <1>7, <1>8, <2>1, <2>2 DEF Remembers
<1>10. \A k \in Job \ {j} : Undisturbed(k)
  BY <1>1, <1>3, <1>4, <1>5, OthersUndisturbed
<1>11. ImportTypeOK'
  BY <1>3, <1>4, <1>5, TablesTyped, TypesKept
<1>12. OfferedToLeads'
  BY <1>3 DEF ImportInv, OfferedToLeads
<1>13. ASSUME ~together, NEW q \in Person
       PROVE  AdmittedAlone(q)'
  <2>1. CASE q = p
    BY <1>3, <1>5, <1>8, <1>13, <2>1 DEF AdmittedAlone
  <2>2. CASE q # p
    <3>1. Admitted(q)' = Admitted(q) /\ \A k \in Job : admission'[q][k] = admission[q][k]
      BY <1>5, <2>2 DEF Admitted
    <3>2. AdmittedAlone(q)
      BY <1>13 DEF ImportInv, OneAtATime
    <3> QED BY <1>3, <3>1, <3>2 DEF AdmittedAlone, Admitted
  <2> QED BY <2>1, <2>2
<1> QED BY <1>6, <1>9, <1>10, <1>11, <1>12, <1>13, StaysKept

\* A receipt is written on an admission of the job's own.
LEMMA InsertReceiptKeeps ==
  ASSUME ImportInv, NEW j \in Job, InsertReceipt(j)
  PROVE  ImportInv'
<1>1. job[j].phase = "receipt" /\ job[j].phase \in Working
  BY DEF InsertReceipt, At, Working
<1>2. /\ job[j].kind = "admissions" /\ job[j].row <= Len(job[j].file)
      /\ Remembers(j) /\ job \in [Job -> JobRow] /\ Subject(j) \in Person
  BY <1>1, AtWork
<1>0. PICK p \in Person : p = Subject(j)
  BY <1>2
<1>3. /\ receipts[p][j] < Payments
      /\ receipts' = [receipts EXCEPT ![p][j] = @ + 1]
      /\ UNCHANGED <<lead, offer, admission, job, history>>
  BY <1>0 DEF InsertReceipt, Due
<1>4. /\ receipts' \in [Person -> [Job -> Nat]]
      /\ receipts'[p][j] = receipts[p][j] + 1
      /\ \A q \in Person, k \in Job : q # p \/ k # j => receipts'[q][k] = receipts[q][k]
  BY <1>3, TablesTyped
<1>5. \A q \in Person, k \in Job : receipts'[q][k] <= Payments
  <2>1. receipts[p][j] \in Nat /\ Payments \in Nat
    BY TablesTyped, BulkImportConstants
  <2>2. receipts'[p][j] <= Payments
    BY <1>3, <1>4, <2>1
  <2> QED BY <1>4, <2>2, TablesTyped
<1>6. Stays(j)
  BY <1>0, <1>1, <1>2, <1>3, <1>4 DEF Stays, Working
<1>7. Remembers(j)'
  <2>1. Subject(j)' = p /\ UNCHANGED <<lead, offer, admission, together, late>>
    BY <1>0, <1>3 DEF Subject, history
  <2>2. Admitted(p)' = Admitted(p)
    BY <2>1 DEF Admitted
  <2>3. admission[p][j] # "none"
    BY <1>0, <1>1, <1>2 DEF Remembers
  <2> QED BY <1>0, <1>1, <1>2, <1>3, <2>1, <2>2, <2>3 DEF Remembers
<1>8. \A k \in Job \ {j} : Undisturbed(k)
  BY <1>1, <1>3, <1>4, OthersUndisturbed
<1>9. ImportTypeOK'
  BY <1>2, <1>3, <1>4, <1>5, TablesTyped, TypesKept
<1>10. OfferedToLeads'
  BY <1>3 DEF ImportInv, OfferedToLeads
<1>11. ~together => \A q \in Person : AdmittedAlone(q)'
  BY <1>3, AloneKept
<1> QED BY <1>6, <1>7, <1>8, <1>9, <1>10, <1>11, StaysKept

\* The admission goes first, with its receipts.
LEMMA UndoAdmissionKeeps ==
  ASSUME ImportInv, NEW j \in Job, UndoAdmission(j)
  PROVE  ImportInv'
<1>1. /\ job[j].phase = "undo" /\ job[j].phase \in Working
      /\ "admission" \in job[j].made
  BY DEF UndoAdmission, At, Working, ToUndo
<1>2. /\ job[j].kind = "admissions" /\ job[j].row <= Len(job[j].file)
      /\ Remembers(j) /\ job \in [Job -> JobRow] /\ Subject(j) \in Person
      /\ job[j] \in JobRow
      /\ job[j].made \ {"admission"} \in SUBSET {"lead", "offer", "admission"}
      /\ "undo" \in Phases
  BY <1>1, AtWork DEF Phases
<1>0. PICK p \in Person : p = Subject(j)
  BY <1>2
<1>3. /\ admission' = [admission EXCEPT ![p][j] = "none"]
      /\ receipts' = [receipts EXCEPT ![p][j] = 0]
      /\ Goes(j, PhaseMade(j, "undo", job[j].made \ {"admission"}))
      /\ UNCHANGED <<lead, offer, history>>
  <2>1. PhaseMade(j, "undo", job[j].made \ {"admission"})
            = [job[j] EXCEPT !.made = @ \ {"admission"}]
    BY <1>1, <1>2 DEF PhaseMade, JobRow
  <2> QED BY <1>0, <2>1 DEF UndoAdmission
<1>4. /\ job' \in [Job -> JobRow]
      /\ job'[j].phase = "undo" /\ job'[j].made = job[j].made \ {"admission"}
      /\ job'[j].kind = job[j].kind /\ job'[j].file = job[j].file
      /\ job'[j].status = job[j].status /\ job'[j].row = job[j].row
      /\ job'[j].success = job[j].success /\ job'[j].failed = job[j].failed
      /\ \A k \in Job \ {j} : job'[k] = job[k]
  BY <1>2, <1>3, ToPhaseMade
<1>5. /\ admission' \in [Person -> [Job -> {"none", "linked", "orphan"}]]
      /\ admission'[p][j] = "none"
      /\ \A q \in Person, k \in Job : q # p \/ k # j => admission'[q][k] = admission[q][k]
      /\ receipts' \in [Person -> [Job -> Nat]] /\ receipts'[p][j] = 0
      /\ \A q \in Person, k \in Job : q # p \/ k # j => receipts'[q][k] = receipts[q][k]
  BY <1>3, TablesTyped
<1>6. Stays(j)
  BY <1>0, <1>1, <1>2, <1>3, <1>4, <1>5 DEF Stays, Working
<1>7. /\ lead[p] = j => "lead" \in job[j].made
      /\ offer[p] = j => "offer" \in job[j].made
      /\ job[j].made \cap {"lead", "offer"} # {} /\ offer[p] = Hand => p \in late
      /\ ~together => Admitted(p) = {j}
  BY <1>0, <1>1, <1>2 DEF Remembers
<1>8. Admitted(p)' = Admitted(p) \ {j}
  BY <1>5 DEF Admitted
<1>9. Remembers(j)'
  <2>1. Subject(j)' = p /\ UNCHANGED <<lead, offer, together, late>>
    BY <1>0, <1>3, <1>4 DEF Subject, history
  <2>2. (job[j].made \ {"admission"}) \cap {"lead", "offer"}
            = job[j].made \cap {"lead", "offer"}
    OBVIOUS
  <2> QED BY <1>4, <1>5, <1>7, <1>8, <2>1, <2>2 DEF Remembers
<1>10. \A k \in Job \ {j} : Undisturbed(k)
  BY <1>1, <1>3, <1>4, <1>5, OthersUndisturbed
<1>11. ImportTypeOK'
  <2>1. \A q \in Person, k \in Job : receipts'[q][k] <= Payments
    <3>1. receipts'[p][j] <= Payments
      BY <1>5, BulkImportConstants
    <3> QED BY <1>5, <3>1, TablesTyped
  <2> QED BY <1>3, <1>4, <1>5, <2>1, TablesTyped, TypesKept
<1>12. OfferedToLeads'
  BY <1>3 DEF ImportInv, OfferedToLeads
<1>13. ASSUME ~together, NEW q \in Person
       PROVE  AdmittedAlone(q)'
  <2>1. CASE q = p
    BY <1>7, <1>8, <1>13, <2>1 DEF AdmittedAlone
  <2>2. CASE q # p
    <3>1. Admitted(q)' = Admitted(q) /\ \A k \in Job : admission'[q][k] = admission[q][k]
      BY <1>5, <2>2 DEF Admitted
    <3>2. AdmittedAlone(q)
      BY <1>13 DEF ImportInv, OneAtATime
    <3> QED BY <1>3, <3>1, <3>2 DEF AdmittedAlone, Admitted
  <2> QED BY <2>1, <2>2
<1> QED BY <1>6, <1>9, <1>10, <1>11, <1>12, <1>13, StaysKept

\* Then the offer, if the job remembers one.
LEMMA UndoOfferKeeps ==
  ASSUME ImportInv, NEW j \in Job, UndoOffer(j)
  PROVE  ImportInv'
<1>1. /\ job[j].phase = "undo" /\ job[j].phase \in Working
      /\ "admission" \notin job[j].made
  BY DEF UndoOffer, At, Working, ToUndo
<1>2. /\ job[j].kind = "admissions" /\ job[j].row <= Len(job[j].file)
      /\ Remembers(j) /\ job \in [Job -> JobRow] /\ Subject(j) \in Person
      /\ j # Nobody /\ Nobody # Hand /\ job[j] \in JobRow
      /\ job[j].made \ {"offer"} \in SUBSET {"lead", "offer", "admission"}
      /\ "undo" \in Phases
  BY <1>1, AtWork DEF Phases
<1>0. PICK p \in Person : p = Subject(j)
  BY <1>2
<1>3. /\ offer' = [offer EXCEPT ![p] = Nobody]
      /\ Goes(j, PhaseMade(j, "undo", job[j].made \ {"offer"}))
      /\ UNCHANGED <<lead, admission, receipts, history>>
  <2>1. PhaseMade(j, "undo", job[j].made \ {"offer"})
            = [job[j] EXCEPT !.made = @ \ {"offer"}]
    BY <1>1, <1>2 DEF PhaseMade, JobRow
  <2> QED BY <1>0, <2>1 DEF UndoOffer
<1>4. /\ job' \in [Job -> JobRow]
      /\ job'[j].phase = "undo" /\ job'[j].made = job[j].made \ {"offer"}
      /\ job'[j].kind = job[j].kind /\ job'[j].file = job[j].file
      /\ job'[j].status = job[j].status /\ job'[j].row = job[j].row
      /\ job'[j].success = job[j].success /\ job'[j].failed = job[j].failed
      /\ \A k \in Job \ {j} : job'[k] = job[k]
  BY <1>2, <1>3, ToPhaseMade
<1>5. /\ offer' \in [Person -> Makers] /\ offer'[p] = Nobody
      /\ \A q \in Person : offer'[q] = IF q = p THEN Nobody ELSE offer[q]
  BY <1>3, TablesTyped
<1>6. Stays(j)
  BY <1>0, <1>1, <1>2, <1>3, <1>4, <1>5 DEF Stays, Working
<1>7. Remembers(j)'
  <2>1. Subject(j)' = p /\ UNCHANGED <<lead, admission, receipts, together, late>>
    BY <1>0, <1>3, <1>4 DEF Subject, history
  <2>2. Admitted(p)' = Admitted(p)
    BY <2>1 DEF Admitted
  <2>3. /\ admission[p][j] = "none" /\ receipts[p][j] = 0
        /\ lead[p] = j => "lead" \in job[j].made
        /\ ~together => Admitted(p) = {}
    BY <1>0, <1>1, <1>2 DEF Remembers
  <2> QED BY <1>1, <1>2, <1>4, <1>5, <2>1, <2>2, <2>3 DEF Remembers
<1>8. \A k \in Job \ {j} : Undisturbed(k)
  <2>1. \A q \in Person : offer'[q] \in {offer[q], j, Nobody}
    BY <1>5
  <2> QED BY <1>1, <1>3, <1>4, <2>1, OthersUndisturbed
<1>9. ImportTypeOK'
  BY <1>3, <1>4, <1>5, TablesTyped, TypesKept
<1>10. OfferedToLeads'
  BY <1>2, <1>3, <1>5 DEF ImportInv, OfferedToLeads
<1>11. ~together => \A q \in Person : AdmittedAlone(q)'
  BY <1>3, AloneKept
<1> QED BY <1>6, <1>7, <1>8, <1>9, <1>10, <1>11, StaysKept

\* The lead goes last: by then the job has no admission on it, so that nobody has,
\* unless two imports were at work together.
LEMMA UndoLeadKeeps ==
  ASSUME ImportInv, NEW j \in Job, UndoLead(j)
  PROVE  ImportInv'
<1>1. /\ job[j].phase = "undo" /\ job[j].phase \in Working /\ job[j].made = {"lead"}
  BY DEF UndoLead, At, Working, ToUndo
<1>2. /\ job[j].kind = "admissions" /\ job[j].row <= Len(job[j].file)
      /\ Remembers(j) /\ job \in [Job -> JobRow] /\ Subject(j) \in Person
      /\ j # Nobody /\ Nobody # Hand /\ job[j] \in JobRow
      /\ {} \in SUBSET {"lead", "offer", "admission"}
      /\ "undo" \in Phases
  BY <1>1, AtWork DEF Phases
<1>0. PICK p \in Person : p = Subject(j)
  BY <1>2
<1>3. /\ lead' = [lead EXCEPT ![p] = Nobody]
      /\ offer' = [offer EXCEPT ![p] = Nobody]
      /\ admission' = [admission EXCEPT ![p] =
             [k \in Job |-> IF @[k] = "none" THEN "none" ELSE "orphan"]]
      /\ Goes(j, PhaseMade(j, "undo", {}))
      /\ UNCHANGED <<receipts, history>>
  <2>1. PhaseMade(j, "undo", {}) = [job[j] EXCEPT !.made = {}]
    BY <1>1, <1>2 DEF PhaseMade, JobRow
  <2> QED BY <1>0, <2>1 DEF UndoLead
<1>4. /\ job' \in [Job -> JobRow]
      /\ job'[j].phase = "undo" /\ job'[j].made = {}
      /\ job'[j].kind = job[j].kind /\ job'[j].file = job[j].file
      /\ job'[j].status = job[j].status /\ job'[j].row = job[j].row
      /\ job'[j].success = job[j].success /\ job'[j].failed = job[j].failed
      /\ \A k \in Job \ {j} : job'[k] = job[k]
  BY <1>2, <1>3, ToPhaseMade
<1>5. /\ lead' \in [Person -> Makers] /\ offer' \in [Person -> Makers]
      /\ \A q \in Person : /\ lead'[q] = IF q = p THEN Nobody ELSE lead[q]
                           /\ offer'[q] = IF q = p THEN Nobody ELSE offer[q]
  BY <1>3, TablesTyped
<1>6. /\ admission' \in [Person -> [Job -> {"none", "linked", "orphan"}]]
      /\ \A q \in Person, k \in Job :
             /\ admission'[q][k] = "none" <=> admission[q][k] = "none"
             /\ q # p => admission'[q][k] = admission[q][k]
  BY <1>3, TablesTyped
<1>7. Stays(j)
  BY <1>0, <1>1, <1>2, <1>3, <1>4, <1>5, <1>6 DEF Stays, Working
<1>8. /\ admission[p][j] = "none" /\ receipts[p][j] = 0
      /\ ~together => Admitted(p) = {}
  BY <1>0, <1>1, <1>2 DEF Remembers
<1>9. \A q \in Person : Admitted(q)' = Admitted(q)
  BY <1>6 DEF Admitted
<1>10. Remembers(j)'
  <2>1. Subject(j)' = p /\ UNCHANGED <<receipts, together, late>>
    BY <1>0, <1>3, <1>4 DEF Subject, history
  <2> QED BY <1>1, <1>2, <1>4, <1>5, <1>6, <1>8, <1>9, <2>1 DEF Remembers
<1>11. \A k \in Job \ {j} : Undisturbed(k)
  <2>1. \A q \in Person : /\ lead'[q] \in {lead[q], j, Nobody}
                          /\ offer'[q] \in {offer[q], j, Nobody}
    BY <1>5
  <2> QED BY <1>1, <1>3, <1>4, <1>6, <2>1, OthersUndisturbed
<1>12. ImportTypeOK'
  BY <1>3, <1>4, <1>5, <1>6, TablesTyped, TypesKept
<1>13. OfferedToLeads'
  BY <1>2, <1>5 DEF ImportInv, OfferedToLeads
<1>14. ASSUME ~together, NEW q \in Person
       PROVE  AdmittedAlone(q)'
  <2>1. CASE q = p
    BY <1>8, <1>9, <1>14, <2>1 DEF AdmittedAlone
  <2>2. CASE q # p
    <3>1. AdmittedAlone(q)
      BY <1>14 DEF ImportInv, OneAtATime
    <3> QED BY <1>5, <1>6, <1>9, <2>2, <3>1 DEF AdmittedAlone, Admitted
  <2> QED BY <2>1, <2>2
<1> QED BY <1>7, <1>10, <1>11, <1>12, <1>13, <1>14, StaysKept

\* An offer entered by hand while the row is written is known to be late.
LEMMA HandOfferKeeps ==
  ASSUME ImportInv, NEW p \in Person, HandOffer(p)
  PROVE  ImportInv'
<1>1. /\ lead[p] # Nobody /\ offer' = [offer EXCEPT ![p] = Hand]
      /\ late' = IF \E j \in Job : Writes(j, p) THEN late \cup {p} ELSE late
      /\ UNCHANGED <<lead, admission, receipts, job, together, left, recounted>>
  BY DEF HandOffer
<1>2. /\ offer' \in [Person -> Makers]
      /\ \A q \in Person : offer'[q] = IF q = p THEN Hand ELSE offer[q]
  BY <1>1, TablesTyped
<1>3. late \subseteq late' /\ late' \subseteq late \cup {p}
  BY <1>1
<1>4. ASSUME NEW k \in Job
      PROVE  JobInv(k)'
  <2>1. Undisturbed(k)
    <3>1. k # Hand
      BY MakersDiffer
    <3>2. Writes(k, p) => p \in late'
      BY <1>1
    <3>3. \A q \in Person : Admitted(q)' = Admitted(q)
      BY <1>1 DEF Admitted
    <3>4. Admitted(Subject(k))' = Admitted(Subject(k))
      BY <1>1 DEF Admitted, Subject
    <3> QED BY <1>1, <1>2, <1>3, <3>1, <3>2, <3>4 DEF Undisturbed
  <2>2. job \in [Job -> JobRow] /\ JobInv(k)
    BY DEF ImportInv, ImportTypeOK
  <2> QED BY <2>1, <2>2, OthersKept
<1>5. ImportTypeOK'
  <2>1. ImportTypeOK
    BY DEF ImportInv
  <2>2. late' \subseteq Person
    BY <1>3, <2>1 DEF ImportTypeOK
  <2> QED BY Zenon, <1>1, <1>2, <2>1, <2>2 DEF ImportTypeOK
<1>6. OneAtATime'
  BY <1>1 DEF ImportInv, OneAtATime, AdmittedAlone, Admitted, Running
<1>7. OfferedToLeads'
  BY <1>1, <1>2 DEF ImportInv, OfferedToLeads
<1> QED BY <1>4, <1>5, <1>6, <1>7 DEF ImportInv

-----------------------------------------------------------------------------
(* The theorems *)

\* At first nothing is imported.
LEMMA ImportBegins == ImportInit => ImportInv
<1> SUFFICES ASSUME ImportInit
             PROVE  ImportInv
  OBVIOUS
<1>1. Known \subseteq Person /\ Payments \in Nat
  BY BulkImportConstants
<1>2. /\ lead = [p \in Person |-> IF p \in Known THEN Hand ELSE Nobody]
      /\ offer = [p \in Person |-> Nobody]
      /\ admission = [p \in Person |-> [j \in Job |-> "none"]]
      /\ receipts = [p \in Person |-> [j \in Job |-> 0]]
      /\ job = [j \in Job |-> NotUploaded]
      /\ together = FALSE /\ late = {} /\ left = {} /\ recounted = {}
  BY DEF ImportInit
<1>3. ImportTypeOK
  <2>1. /\ lead \in [Person -> Makers] /\ offer \in [Person -> Makers]
        /\ admission \in [Person -> [Job -> {"none", "linked", "orphan"}]]
        /\ receipts \in [Person -> [Job -> Nat]]
        /\ \A p \in Person, j \in Job : receipts[p][j] <= Payments
    BY <1>1, <1>2 DEF Makers
  <2>2. job \in [Job -> JobRow]
    BY <1>2, NotUploadedTyped
  <2> QED BY <1>2, <2>1, <2>2 DEF ImportTypeOK
<1>4. ASSUME NEW j \in Job
      PROVE  JobInv(j)
  <2>1. job[j] = NotUploaded
    BY <1>2
  <2>2. NotUploaded.file \in Files
    BY NotUploadedTyped DEF JobRow
  <2>3. \A p \in Person : Untouched(j, p)
    BY <1>2, MakersDiffer DEF Untouched
  <2>4. Placed(j)
    BY <2>1, <2>2, NotUploadedTyped, FileRows DEF Placed, Working
  <2>5. Ahead(j) /\ Remembers(j) /\ Tallied(j) /\ Whole(j)
    BY <2>1, <2>3, NotUploadedTyped
       DEF Ahead, Importing, Remembers, Tallied, Whole, Working
  <2> QED BY <2>4, <2>5 DEF JobInv
<1>5. OneAtATime
  BY <1>2, NotUploadedTyped DEF OneAtATime, AdmittedAlone, Admitted, Running
<1>6. OfferedToLeads
  BY <1>2, MakersDiffer DEF OfferedToLeads
<1> QED BY <1>3, <1>4, <1>5, <1>6 DEF ImportInv

\* A step that changes nothing keeps the invariant.
LEMMA ImportRests ==
  ASSUME ImportInv, UNCHANGED importVars
  PROVE  ImportInv'
<1>1. UNCHANGED <<lead, offer, admission, receipts, job, together, late, left, recounted>>
  BY DEF importVars, tables, history
<1>2. ASSUME NEW k \in Job
      PROVE  JobInv(k)'
  <2>1. Undisturbed(k)
    BY <1>1 DEF Undisturbed, Admitted, Subject
  <2>2. job \in [Job -> JobRow] /\ JobInv(k)
    BY DEF ImportInv, ImportTypeOK
  <2> QED BY <2>1, <2>2, OthersKept
<1>3. ImportTypeOK'
  <2>1. ImportTypeOK
    BY DEF ImportInv
  <2> QED BY Zenon, <1>1, <2>1 DEF ImportTypeOK
<1>4. OneAtATime'
  BY <1>1 DEF ImportInv, OneAtATime, AdmittedAlone, Admitted, Running
<1>5. OfferedToLeads'
  BY <1>1 DEF ImportInv, OfferedToLeads
<1> QED BY <1>2, <1>3, <1>4, <1>5 DEF ImportInv

\* Every statement of a row keeps the invariant.
LEMMA RowKeeps ==
  ASSUME ImportInv, NEW j \in Job, Row(j)
  PROVE  ImportInv'
<1>1. CASE Reject(j) \/ RejectUtr(j) \/ MatchLead(j) \/ LeadFails(j) \/ PriorOwner(j)
  BY <1>1, PassKeeps DEF Passes
<1>2. CASE NewLead(j)
  BY <1>2, NewLeadKeeps
<1>3. CASE MatchAdmission(j)
  BY <1>3, MatchKeeps
<1>4. CASE InsertLead(j)
  <2>1. job[j].kind \in {"leads", "admissions"}
    BY OneJob, JobFields
  <2> QED BY <1>4, <2>1, PassKeeps, InsertLeadKeeps, ImportLeadKeeps DEF Passes
<1>5. CASE FindOffer(j) \/ UpsertOffer(j) \/ WriteFails(j)
  BY <1>5, FindOfferKeeps, UpsertOfferKeeps, WriteFailsKeeps
<1>6. CASE InsertAdmission(j) \/ InsertReceipt(j)
  BY <1>6, InsertAdmissionKeeps, InsertReceiptKeeps
<1>7. CASE UndoAdmission(j) \/ UndoOffer(j) \/ UndoLead(j)
  BY <1>7, UndoAdmissionKeeps, UndoOfferKeeps, UndoLeadKeeps
<1>8. CASE WriteDone(j) \/ UndoDone(j) \/ UndoFails(j)
  BY <1>8, EndOfRowKeeps
<1> QED BY <1>1, <1>2, <1>3, <1>4, <1>5, <1>6, <1>7, <1>8 DEF Row

\* Every step keeps the invariant.
LEMMA ImportStays == ImportInv /\ [ImportNext]_importVars => ImportInv'
<1> SUFFICES ASSUME ImportInv, [ImportNext]_importVars
             PROVE  ImportInv'
  OBVIOUS
<1>1. CASE UNCHANGED importVars
  BY <1>1, ImportRests
<1>2. ASSUME NEW j \in Job, NEW k \in Kinds, NEW h \in Handling, NEW f \in Files,
             Upload(j, k, h, f)
      PROVE  ImportInv'
  BY <1>2, UploadKeeps
<1>3. ASSUME NEW j \in Job, Start(j) \/ FailJob(j) \/ Finish(j) \/ Die(j) \/ Redeliver(j)
      PROVE  ImportInv'
  BY <1>3, StartKeeps, FinishKeeps, FailJobKeeps, DieKeeps, RedeliverKeeps
<1>4. ASSUME NEW j \in Job, Row(j)
      PROVE  ImportInv'
  BY <1>4, RowKeeps
<1>5. ASSUME NEW p \in Person, HandOffer(p)
      PROVE  ImportInv'
  BY <1>5, HandOfferKeeps
<1> QED BY <1>1, <1>2, <1>3, <1>4, <1>5 DEF ImportNext

\* The inductive invariant of the importers holds, for any people, jobs and files.
THEOREM ImportAlways == ImportSpec => []ImportInv
BY ImportBegins, ImportStays, PTL DEF ImportSpec

\* Whatever a job writes is well typed, and nobody gets more receipts from an
\* import than the file has payments.
THEOREM ImportTyped == ImportSpec => []ImportTypeOK
<1>1. ImportInv => ImportTypeOK
  BY DEF ImportInv
<1> QED BY <1>1, ImportAlways, PTL

\* Importing a file again admits nobody twice, unless two admission imports were at
\* work together, and every admission keeps its lead, whatever was rolled back.
THEOREM NobodyTwice == ImportSpec => []AdmittedOnce
<1>1. ASSUME ImportInv
      PROVE  AdmittedOnce
  <2> SUFFICES ASSUME ~together, NEW p \in Person
               PROVE  /\ Cardinality(Admitted(p)) <= 1
                      /\ \A j \in Admitted(p) :
                             admission[p][j] = "linked" /\ lead[p] # Nobody
    BY DEF AdmittedOnce
  <2>1. AdmittedAlone(p)
    BY <1>1 DEF ImportInv, OneAtATime
  <2>2. Cardinality(Admitted(p)) <= 1
    <3>1. CASE Admitted(p) = {}
      BY <3>1, FS_EmptySet
    <3>2. CASE Admitted(p) # {}
      <4>1. PICK j : j \in Admitted(p)
        BY <3>2
      <4>2. Admitted(p) = {j}
        BY <2>1, <4>1 DEF AdmittedAlone
      <4>3. Cardinality({j}) = 1
        BY FS_Singleton
      <4> QED BY <4>2, <4>3
    <3> QED BY <3>1, <3>2
  <2> QED BY <2>1, <2>2 DEF AdmittedAlone
<1> QED BY <1>1, ImportAlways, PTL

\* A row is written wholly or not at all, whatever other imports do meanwhile, unless
\* the worker died in it or its rollback failed.
THEOREM RowsWhole == ImportSpec => []AllOrNothing
<1>1. ImportInv => AllOrNothing
  BY DEF ImportInv, JobInv, Whole, AllOrNothing
<1> QED BY <1>1, ImportAlways, PTL

\* The report of a completed import adds up.
THEOREM ReportsAddUp == ImportSpec => []RowsAccounted
<1>1. ASSUME ImportInv, NEW j \in Job, job[j].status = "completed"
      PROVE  LET r == job[j] IN
             IF r.kind = "leads" THEN r.success + r.failed + r.duplicates >= Len(r.file)
             ELSE /\ r.success + r.failed >= Len(r.file)
                  /\ r.success + r.success + r.failed <= Len(r.file) + Len(r.file)
                  /\ j \notin recounted => r.success + r.failed = Len(r.file)
                  /\ (\A p \in Person : <<p, j>> \notin left)
                     => r.success = Cardinality({p \in Person : j \in Admitted(p)})
  <2>1. CASE job[j].kind = "leads"
    BY <1>1, <2>1, OneJob DEF Tallied
  <2>2. CASE job[j].kind # "leads"
    <3>1. job[j].kind = "admissions"
      BY <1>1, <2>2, OneJob, JobFields
    <3>2. Importing(j) /\ job[j].phase \notin Working \cup {"dead"}
      BY <1>1, <3>1, OneJob DEF Importing, Placed, Working
    <3>3. /\ job[j].success + job[j].failed >= Len(job[j].file)
          /\ job[j].success + job[j].success + job[j].failed
             <= Len(job[j].file) + Len(job[j].file)
          /\ j \notin recounted => job[j].success + job[j].failed = Len(job[j].file)
      <4>1. PICK n \in Nat : n = Len(job[j].file)
        BY <1>1, OneJob
      <4>2. job[j].row = n + 1
        BY <1>1, <3>2, <4>1, OneJob DEF Tallied
      <4>3. job[j].row - 1 = n
        BY <4>1, <4>2
      <4> QED BY <1>1, <3>2, <4>1, <4>3, OneJob DEF Tallied
    <3>4. ByJob(j) \ InHand(j) = {p \in Person : j \in Admitted(p)}
      BY <3>2 DEF ByJob, InHand, Admitted
    <3>5. (\A p \in Person : <<p, j>> \notin left)
              => job[j].success = Cardinality(ByJob(j) \ InHand(j))
      BY <1>1, <3>2, OneJob DEF Tallied
    <3> QED BY <2>2, <3>3, <3>4, <3>5
  <2> QED BY <2>1, <2>2
<1>2. ImportInv => RowsAccounted
  BY <1>1 DEF RowsAccounted
<1> QED BY <1>2, ImportAlways, PTL

\* A fee offer entered by hand outlives every import and every rollback, unless it
\* was entered while the row of that person was being written.
THEOREM HandOffersStay == ImportSpec => HandOfferKept
<1>1. ASSUME ImportInv, [ImportNext]_importVars, NEW p \in Person,
             offer[p] = Hand, p \notin late
      PROVE  offer'[p] = Hand
  <2>1. CASE UNCHANGED offer
    BY <1>1, <2>1
  <2>2. ASSUME NEW j \in Job, UpsertOffer(j) \/ UndoOffer(j) \/ UndoLead(j)
        PROVE  offer'[p] = Hand
    <3>1. job[j].phase \in {"upsert", "undo"} /\ job[j].phase \in Working
      BY <2>2 DEF UpsertOffer, UndoOffer, UndoLead, At, Working
    <3>2. PICK q \in Person : q = Subject(j)
      BY <1>1, <3>1, AtWork
    <3>3. Remembers(j)
      BY <1>1, <3>1, AtWork
    <3>4. job[j].made \cap {"lead", "offer"} # {}
      BY <2>2, <3>1, <3>3 DEF Remembers, UpsertOffer, UndoOffer, UndoLead, ToUndo, At
    <3>5. q # p
      BY <1>1, <3>1, <3>2, <3>3, <3>4 DEF Remembers
    <3>6. offer'[p] = offer[p]
      BY <1>1, <2>2, <3>2, <3>5, TablesTyped DEF UpsertOffer, UndoOffer, UndoLead
    <3> QED BY <1>1, <3>6
  <2>3. ASSUME NEW q \in Person, HandOffer(q)
        PROVE  offer'[p] = Hand
    BY <1>1, <2>3, TablesTyped DEF HandOffer
  <2>4. ASSUME NEW j \in Job, NEW k \in Kinds, NEW h \in Handling, NEW f \in Files,
               Upload(j, k, h, f)
        PROVE  UNCHANGED offer
    BY <2>4 DEF Upload, tables
  <2>5. ASSUME NEW j \in Job, Start(j) \/ FailJob(j) \/ Finish(j) \/ Die(j) \/ Redeliver(j)
        PROVE  UNCHANGED offer
    BY <2>5 DEF Start, FailJob, Finish, Die, Redeliver, tables
  <2>6. ASSUME NEW j \in Job, Row(j)
        PROVE  UNCHANGED offer \/ UpsertOffer(j) \/ UndoOffer(j) \/ UndoLead(j)
    <3>1. CASE Reject(j) \/ RejectUtr(j) \/ NewLead(j) \/ MatchLead(j)
               \/ MatchAdmission(j) \/ LeadFails(j) \/ PriorOwner(j) \/ FindOffer(j)
               \/ WriteDone(j) \/ WriteFails(j) \/ UndoDone(j) \/ UndoFails(j)
      BY <3>1 DEF Reject, RejectUtr, NewLead, MatchLead, MatchAdmission, LeadFails,
                  PriorOwner, FindOffer, WriteDone, WriteFails, UndoDone, UndoFails,
                  tables
    <3>2. CASE InsertLead(j) \/ InsertAdmission(j) \/ InsertReceipt(j) \/ UndoAdmission(j)
      BY <3>2 DEF InsertLead, InsertAdmission, InsertReceipt, UndoAdmission
    <3> QED BY <2>6, <3>1, <3>2 DEF Row
  <2>7. CASE UNCHANGED importVars
    BY <2>1, <2>7 DEF importVars, tables
  <2> QED BY <1>1, <2>1, <2>2, <2>3, <2>4, <2>5, <2>6, <2>7 DEF ImportNext
<1>2. ImportInv /\ [ImportNext]_importVars
          => [\A p \in Person : offer[p] = Hand /\ p \notin late => offer'[p] = Hand]_importVars
  BY <1>1
<1> QED BY <1>2, ImportAlways, PTL DEF ImportSpec, HandOfferKept
=============================================================================
