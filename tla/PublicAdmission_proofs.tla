----------------------- MODULE PublicAdmission_proofs -----------------------
(***************************************************************************)
(* Proofs about PublicAdmission, for any number of leads, links,           *)
(* admissions and requests under way.                                      *)
(***************************************************************************)
EXTENDS PublicAdmission, FiniteSetTheorems, TLAPS

-----------------------------------------------------------------------------
(* Types *)

\* The empty rows and the idle request are well typed: leads and links exist.
LEMMA EmptyTyped == NoToken \in Token /\ NoAdmission \in Admission /\ Idle \in Request
BY PublicConstants
DEF NoToken, Token, NoAdmission, Admission, Statuses, Idle, Request, Pcs

\* What a lookup, or the reading of a lead, makes of the request: it is typed
\* and has not passed the check.
LEMMA LookupStarts ==
  ASSUME TypeOK, NEW q \in Req, NEW t \in Tok, SubmitLookup(q, t)
  PROVE  \E new : /\ new \in Request /\ new.pc = "submit_open"
                 /\ new.tok = t /\ new.lead = token[t].lead
                 /\ new.asof = InForce(token[t].lead) /\ new.asof \in Nat \ {0}
                 /\ req' = [req EXCEPT ![q] = new]
<1> DEFINE new == [Idle EXCEPT !.pc = "submit_open", !.lead = token[t].lead,
                               !.tok = t, !.asof = InForce(token[t].lead)]
<1>1. token[t].lead \in Lead
  BY DEF TypeOK, Token
<1>2. InForce(token[t].lead) \in 1..MaxOffer + 1
  BY <1>1, PublicConstants DEF TypeOK, InForce
<1>3. req' = [req EXCEPT ![q] = new]
  BY DEF SubmitLookup
<1>4. InForce(token[t].lead) \in 0..MaxOffer + 1 /\ InForce(token[t].lead) \in Nat \ {0}
  BY <1>2, PublicConstants
<1>5. /\ new \in Request /\ new.pc = "submit_open"
      /\ new.tok = t /\ new.lead = token[t].lead
      /\ new.asof = InForce(token[t].lead)
  BY <1>1, <1>4, EmptyTyped DEF Request, Pcs
<1> QED BY <1>3, <1>4, <1>5

\* The reading of the offer ends the request or keeps it past the check.
LEMMA OfferRead ==
  ASSUME TypeOK, NEW q \in Req, SubmitReadOffer(q)
  PROVE  \E new \in Request :
           /\ req' = [req EXCEPT ![q] = new]
           /\ new.pc = "submit_insert" =>
                 /\ new.lead = req[q].lead /\ new.tok = req[q].tok
                 /\ new.asof = req[q].asof
                 /\ new.plan = offer[req[q].lead] /\ new.plan # 0
           /\ new.pc \in {"idle", "submit_insert"}
<1>1. CASE offer[req[q].lead] = 0
  <2>1. Idle.pc = "idle"
    BY DEF Idle
  <2> QED BY <1>1, <2>1, EmptyTyped DEF SubmitReadOffer, Done
<1>2. CASE offer[req[q].lead] # 0
  <2> DEFINE plan == offer[req[q].lead]
             new == [req[q] EXCEPT !.pc = "submit_insert", !.plan = plan]
  <2>1. plan \in 0..MaxOffer /\ plan # 0 /\ req[q] \in Request
    BY <1>2 DEF TypeOK, Request
  <2>2. req' = [req EXCEPT ![q] = new]
    BY <1>2 DEF SubmitReadOffer
  <2>3. plan = offer[req[q].lead]
    OBVIOUS
  <2> HIDE DEF plan
  <2>4. /\ new \in Request /\ new.pc = "submit_insert" /\ new.plan = plan
        /\ new.lead = req[q].lead /\ new.tok = req[q].tok
        /\ new.asof = req[q].asof
    BY <2>1 DEF Request, Pcs
  <2> QED BY <2>1, <2>2, <2>3, <2>4
<1> QED BY <1>1, <1>2

\* A request that has only the link left to burn.
LEMMA BurnStarts ==
  ASSUME TypeOK, NEW q \in Req, NEW pc \in {"mark", "burn"}, Burn(q, pc)
  PROVE  \E new \in Request : /\ new.pc = pc /\ new.tok = req[q].tok
                              /\ req' = [req EXCEPT ![q] = new]
<1> DEFINE new == [Idle EXCEPT !.pc = pc, !.tok = req[q].tok]
<1>1. req[q].tok \in Tok /\ pc \in Pcs
  BY DEF TypeOK, Request, Pcs
<1>2. req' = [req EXCEPT ![q] = new]
  BY DEF Burn
<1>3. new \in Request /\ new.pc = pc /\ new.tok = req[q].tok
  BY <1>1, EmptyTyped DEF Request
<1> QED BY <1>2, <1>3

\* A new version is the next one.
LEMMA Saves ==
  ASSUME TypeOK, NEW l \in Lead, Upsert(l)
  PROVE  /\ saved' \in [Lead -> 0..MaxOffer] /\ offer' \in [Lead -> 0..MaxOffer]
         /\ saved[l] \in Nat
         /\ saved'[l] = saved[l] + 1 /\ offer'[l] = saved[l] + 1
         /\ \A k \in Lead \ {l} : saved'[k] = saved[k] /\ offer'[k] = offer[k]
<1>1. saved[l] \in 0..MaxOffer /\ saved[l] < MaxOffer
  BY DEF TypeOK, Upsert
<1>2. saved[l] \in Nat /\ saved[l] + 1 \in 0..MaxOffer
  BY <1>1, PublicConstants
<1> QED BY <1>2 DEF TypeOK, Upsert

\* Every step of every handler keeps the rows and requests well typed.
LEMMA TypeStep == TypeOK /\ [Next]_vars => TypeOK'
<1> SUFFICES ASSUME TypeOK, [Next]_vars PROVE TypeOK'
  OBVIOUS
<1> USE PublicConstants, EmptyTyped DEF offers
<1>1. ASSUME NEW l \in Lead, DeleteLead(l) PROVE TypeOK'
  BY <1>1 DEF TypeOK, DeleteLead
<1>2. ASSUME NEW l \in Lead, SaveOffer(l) PROVE TypeOK'
  BY <1>2, Saves DEF TypeOK, SaveOffer
<1>3. ASSUME NEW l \in Lead, ImportLook(l) PROVE TypeOK'
  BY <1>3 DEF TypeOK, ImportLook
<1>4. ASSUME NEW l \in Lead, ImportUpsert(l) PROVE TypeOK'
  BY <1>4, Saves DEF TypeOK, ImportUpsert
<1>5. ASSUME NEW l \in Lead, ImportRollback(l) \/ ImportEnds(l) PROVE TypeOK'
  BY <1>5 DEF TypeOK, ImportRollback, ImportEnds
<1>6. ASSUME NEW q \in Req, NEW l \in Lead, MintCheckOpen(q, l) PROVE TypeOK'
  BY <1>6 DEF TypeOK, MintCheckOpen, Request, Pcs
<1>7. ASSUME NEW q \in Req, MintCheckOffer(q) PROVE TypeOK'
  BY <1>7 DEF TypeOK, MintCheckOffer, Goto, Done, Request, Pcs
<1>8. ASSUME NEW q \in Req, NEW t \in Tok, MintInsert(q, t) PROVE TypeOK'
  <2>1. token' \in [Tok -> Token]
    BY <1>8 DEF TypeOK, MintInsert, Token, Request
  <2> QED BY <1>8, <2>1 DEF TypeOK, MintInsert, Done
<1>9. ASSUME NEW t \in Tok, Expire(t) PROVE TypeOK'
  BY <1>9 DEF TypeOK, Expire, Token
<1>10. ASSUME NEW q \in Req, NEW t \in Tok, SubmitLookup(q, t) PROVE TypeOK'
  <2>1. PICK new : new \in Request /\ req' = [req EXCEPT ![q] = new]
    BY <1>10, LookupStarts
  <2> QED BY <1>10, <2>1 DEF TypeOK, SubmitLookup
<1>11. ASSUME NEW q \in Req, SubmitCheckOpen(q) PROVE TypeOK'
  <2>1. CASE Open(req[q].lead) = {}
    BY <1>11, <2>1 DEF TypeOK, SubmitCheckOpen, Goto, Request, Pcs
  <2>2. CASE Open(req[q].lead) # {}
    <3>1. PICK new \in Request : req' = [req EXCEPT ![q] = new]
      BY <1>11, <2>2, BurnStarts DEF SubmitCheckOpen
    <3> QED BY <1>11, <3>1 DEF TypeOK, SubmitCheckOpen
  <2> QED BY <2>1, <2>2
<1>12. ASSUME NEW q \in Req, SubmitReadOffer(q) PROVE TypeOK'
  <2>1. PICK new \in Request : req' = [req EXCEPT ![q] = new]
    BY <1>12, OfferRead
  <2> QED BY <1>12, <2>1 DEF TypeOK, SubmitReadOffer
<1>13. ASSUME NEW q \in Req, NEW a \in Adm, SubmitInsert(q, a) PROVE TypeOK'
  <2>1. Submission(q) \in Admission
    <3>1. (req[q].plan < req[q].asof) \in BOOLEAN
      OBVIOUS
    <3> QED BY <3>1 DEF TypeOK, Submission, Admission, Statuses, Request
  <2>2. PICK new \in Request : req' = [req EXCEPT ![q] = new]
    BY <1>13, BurnStarts DEF SubmitInsert
  <2> QED BY <1>13, <2>1, <2>2 DEF TypeOK, SubmitInsert
<1>14. ASSUME NEW q \in Req, MarkUsed(q) PROVE TypeOK'
  <2>1. token' \in [Tok -> Token]
    BY <1>14 DEF TypeOK, MarkUsed, Token, Request
  <2> QED BY <1>14, <2>1 DEF TypeOK, MarkUsed, Done
<1>15. ASSUME NEW q \in Req, Fail(q) PROVE TypeOK'
  <2>1. lost' \in [Tok -> Nat]
    BY <1>15 DEF TypeOK, Fail, Request
  <2> QED BY <1>15, <2>1 DEF TypeOK, Fail, Done
<1>16. ASSUME NEW a \in Adm, NEW l \in Lead, StaffCreate(a, l) PROVE TypeOK'
  BY <1>16 DEF TypeOK, StaffCreate, Admission
<1>17. ASSUME NEW a \in Adm, NEW s \in {"attending", "rejected"}, Decide(a, s)
       PROVE  TypeOK'
  BY <1>17 DEF TypeOK, Decide, Admission, Statuses
<1>18. ASSUME NEW a \in Adm, NEW s \in Revivals, Revive(a, s) PROVE TypeOK'
  <2>1. s \in Statuses
    BY DEF Statuses
  <2> DEFINE new == [adm[a] EXCEPT !.status = s, !.revived = TRUE]
  <2>2. new \in Admission
    BY <2>1 DEF TypeOK, Admission
  <2>3. adm' = [adm EXCEPT ![a] = new]
    BY <1>18 DEF Revive, TypeOK
  <2> HIDE DEF new
  <2> QED BY <1>18, <2>2, <2>3 DEF TypeOK, Revive
<1>19. ASSUME NEW a \in Adm, SoftDelete(a) PROVE TypeOK'
  <2> DEFINE new == [adm[a] EXCEPT !.row = "deleted", !.revived = FALSE,
                                   !.status = "pending_approval"]
  <2>1. new \in Admission
    BY DEF TypeOK, Admission, Statuses
  <2>2. adm' = [adm EXCEPT ![a] = new]
    BY <1>19 DEF SoftDelete
  <2> HIDE DEF new
  <2> QED BY <1>19, <2>1, <2>2 DEF TypeOK, SoftDelete
<1>20. CASE UNCHANGED vars
  BY <1>20 DEF TypeOK, vars
<1> QED BY <1>1, <1>2, <1>3, <1>4, <1>5, <1>6, <1>7, <1>8, <1>9, <1>10, <1>11,
           <1>12, <1>13, <1>14, <1>15, <1>16, <1>17, <1>18, <1>19, <1>20
        DEF Next

\* Which actions touch admissions, links and requests.
LEMMA AdmChanges ==
  ASSUME [Next]_vars
  PROVE  \/ UNCHANGED <<adm, gone>>
         \/ \E l \in Lead : DeleteLead(l)
         \/ \E q \in Req, a \in Adm : SubmitInsert(q, a)
         \/ \E a \in Adm, l \in Lead : StaffCreate(a, l)
         \/ \E a \in Adm, s \in {"attending", "rejected"} : Decide(a, s)
         \/ \E a \in Adm, s \in Revivals : Revive(a, s)
         \/ \E a \in Adm : SoftDelete(a)
BY DEF Next, vars, offers, SaveOffer, ImportLook, ImportUpsert, ImportRollback,
       ImportEnds, MintCheckOpen, MintCheckOffer, MintInsert, Expire,
       SubmitLookup, SubmitCheckOpen, SubmitReadOffer, MarkUsed, Fail

LEMMA LinkChanges ==
  ASSUME [Next]_vars
  PROVE  \/ token' = token
         \/ \E q \in Req, n \in Tok : MintInsert(q, n)
         \/ \E n \in Tok : Expire(n)
         \/ \E q \in Req : MarkUsed(q)
BY DEF Next, vars, DeleteLead, SaveOffer, ImportLook, ImportUpsert,
       ImportRollback, ImportEnds, MintCheckOpen, MintCheckOffer, SubmitLookup,
       SubmitCheckOpen, SubmitReadOffer, SubmitInsert, Fail, StaffCreate, Decide,
       Revive, SoftDelete

LEMMA RequestChanges ==
  ASSUME [Next]_vars
  PROVE  \/ UNCHANGED <<req, lost>>
         \/ \E q \in Req, l \in Lead : MintCheckOpen(q, l)
         \/ \E q \in Req : MintCheckOffer(q)
         \/ \E q \in Req, t \in Tok : MintInsert(q, t)
         \/ \E q \in Req, t \in Tok : SubmitLookup(q, t)
         \/ \E q \in Req : SubmitCheckOpen(q)
         \/ \E q \in Req : SubmitReadOffer(q)
         \/ \E q \in Req, a \in Adm : SubmitInsert(q, a)
         \/ \E q \in Req : MarkUsed(q)
         \/ \E q \in Req : Fail(q)
BY DEF Next, vars, DeleteLead, SaveOffer, ImportLook, ImportUpsert,
       ImportRollback, ImportEnds, Expire, StaffCreate, Decide, Revive,
       SoftDelete

-----------------------------------------------------------------------------
(* Open submissions *)

\* Neither count can be infinite, and nobody counts who is not a request.
LEMMA Counted ==
  ASSUME NEW l \in Lead
  PROVE  /\ Submitted(l) \subseteq Adm /\ IsFiniteSet(Submitted(l))
         /\ Passed(l) \subseteq Req /\ IsFiniteSet(Passed(l))
         /\ Cardinality(Submitted(l)) \in Nat
         /\ Cardinality(Passed(l)) \in Nat
         /\ Cardinality(Req) \in Nat
         /\ Cardinality(Passed(l)) <= Cardinality(Req)
<1>1. Submitted(l) \in SUBSET Adm /\ Passed(l) \in SUBSET Req
  BY DEF Submitted, Open, Passed
<1>2. IsFiniteSet(Submitted(l)) /\ IsFiniteSet(Passed(l))
  BY <1>1, FS_Subset, PublicConstants
<1>3. Cardinality(Passed(l)) <= Cardinality(Req)
  BY <1>1, FS_Subset, PublicConstants
<1> QED BY <1>1, <1>2, <1>3, FS_CardinalityType, PublicConstants

\* The same facts in the state a step leads to.
LEMMA CountedNext ==
  ASSUME NEW l \in Lead
  PROVE  /\ IsFiniteSet(Submitted(l)') /\ IsFiniteSet(Passed(l)')
         /\ Cardinality(Submitted(l)') \in Nat
         /\ Cardinality(Passed(l)') \in Nat
         /\ Cardinality(Passed(l)') <= Cardinality(Req)
<1>1. Submitted(l)' \in SUBSET Adm /\ Passed(l)' \in SUBSET Req
  BY DEF Submitted, Open, Passed
<1>2. IsFiniteSet(Submitted(l)') /\ IsFiniteSet(Passed(l)')
  BY <1>1, FS_Subset, PublicConstants
<1>3. Cardinality(Passed(l)') <= Cardinality(Req)
  BY <1>1, FS_Subset, PublicConstants
<1> QED BY <1>2, <1>3, FS_CardinalityType, PublicConstants

\* A step that adds to neither set keeps the bound.
LEMMA Shrinks ==
  ASSUME PassedBounded,
         \A l \in Lead : /\ Submitted(l)' \subseteq Submitted(l)
                         /\ Passed(l)' \subseteq Passed(l)
  PROVE  PassedBounded'
<1> SUFFICES ASSUME NEW l \in Lead
             PROVE  Cardinality(Submitted(l)') + Cardinality(Passed(l)')
                      <= Cardinality(Req)
  BY DEF PassedBounded
<1>1. Cardinality(Submitted(l)) + Cardinality(Passed(l)) <= Cardinality(Req)
  BY DEF PassedBounded
<1>2. Cardinality(Submitted(l)') <= Cardinality(Submitted(l))
  BY Counted, FS_Subset
<1>3. Cardinality(Passed(l)') <= Cardinality(Passed(l))
  BY Counted, FS_Subset
<1>4. Cardinality(Submitted(l)') \in Nat /\ Cardinality(Passed(l)') \in Nat
  BY CountedNext
<1>5. /\ Cardinality(Submitted(l)) \in Nat /\ Cardinality(Passed(l)) \in Nat
      /\ Cardinality(Req) \in Nat
  BY Counted
<1> HIDE DEF Submitted, Passed
<1> QED BY <1>1, <1>2, <1>3, <1>4, <1>5

\* A request passes the check only when its lead has no open admission: then
\* all that counts for the lead are requests.
LEMMA CheckKeepsBound ==
  ASSUME TypeOK, PassedBounded, NEW q \in Req, SubmitCheckOpen(q)
  PROVE  PassedBounded'
<1>1. CASE Open(req[q].lead) # {}
  <2>1. \A l \in Lead : Submitted(l)' \subseteq Submitted(l)
    BY DEF SubmitCheckOpen, Submitted, Open, Public
  <2>2. PICK new \in Request : new.pc = "burn" /\ req' = [req EXCEPT ![q] = new]
    BY <1>1, BurnStarts DEF SubmitCheckOpen
  <2>3. \A l \in Lead : Passed(l)' \subseteq Passed(l)
    BY <2>2 DEF Passed, TypeOK
  <2> QED BY <2>1, <2>3, Shrinks
<1>2. CASE Open(req[q].lead) = {}
  <2> SUFFICES ASSUME NEW l \in Lead
               PROVE  Cardinality(Submitted(l)') + Cardinality(Passed(l)')
                        <= Cardinality(Req)
    BY DEF PassedBounded
  <2>1. Submitted(l)' = Submitted(l)
    BY DEF SubmitCheckOpen, Submitted, Open, Public
  <2>2. CASE l = req[q].lead
    <3>1. Submitted(l) = {}
      BY <1>2, <2>2 DEF Submitted
    <3>2. Cardinality(Submitted(l)') = 0
      BY <2>1, <3>1, FS_EmptySet
    <3> QED BY <3>2, CountedNext
  <2>3. CASE l # req[q].lead
    <3>1. Passed(l)' = Passed(l)
      BY <1>2, <2>3 DEF SubmitCheckOpen, Goto, Passed, TypeOK, Request
    <3> QED BY <2>1, <3>1 DEF PassedBounded
  <2> QED BY <2>2, <2>3
<1> QED BY <1>1, <1>2

\* The insert turns one request that counts into one admission that counts.
LEMMA InsertKeepsBound ==
  ASSUME TypeOK, PassedBounded, NEW q \in Req, NEW a \in Adm, SubmitInsert(q, a)
  PROVE  PassedBounded'
<1> SUFFICES ASSUME NEW l \in Lead
             PROVE  Cardinality(Submitted(l)') + Cardinality(Passed(l)')
                      <= Cardinality(Req)
  BY DEF PassedBounded
<1> PICK new \in Request : new.pc = "mark" /\ req' = [req EXCEPT ![q] = new]
  BY BurnStarts DEF SubmitInsert
<1>1. Passed(l)' = Passed(l) \ {q}
  BY DEF Passed, TypeOK
<1>2. Cardinality(Submitted(l)) + Cardinality(Passed(l)) <= Cardinality(Req)
  BY DEF PassedBounded
<1>3. CASE l = req[q].lead
  <2>1. q \in Passed(l)
    BY <1>3 DEF SubmitInsert, Passed
  <2>2. a \notin Submitted(l)
    BY DEF SubmitInsert, Submitted, Open
  <2>3. Submitted(l)' = Submitted(l) \cup {a}
    BY <1>3 DEF SubmitInsert, Submission, Submitted, Open, Public, TypeOK, Admission
  <2>4. Cardinality(Submitted(l)') = Cardinality(Submitted(l)) + 1
    BY <2>2, <2>3, Counted, FS_AddElement
  <2>5. Cardinality(Passed(l)') = Cardinality(Passed(l)) - 1
    BY <1>1, <2>1, Counted, FS_RemoveElement
  <2>6. /\ Cardinality(Submitted(l)) \in Nat /\ Cardinality(Passed(l)) \in Nat
        /\ Cardinality(Req) \in Nat
    BY Counted
  <2> QED BY <1>2, <2>4, <2>5, <2>6
<1>4. CASE l # req[q].lead
  <2>1. Submitted(l)' = Submitted(l)
    BY <1>4 DEF SubmitInsert, Submission, Submitted, Open, Public, TypeOK, Admission
  <2>2. Passed(l)' = Passed(l)
    BY <1>1, <1>4 DEF Passed
  <2> QED BY <1>2, <2>1, <2>2
<1> QED BY <1>3, <1>4

\* No other step opens a submission as the student made it, or lets a request
\* past the check.
LEMMA OthersShrink ==
  ASSUME TypeOK, [Next]_vars,
         ~ \E q \in Req : SubmitCheckOpen(q),
         ~ \E q \in Req, a \in Adm : SubmitInsert(q, a)
  PROVE  \A l \in Lead : /\ Submitted(l)' \subseteq Submitted(l)
                         /\ Passed(l)' \subseteq Passed(l)
<1> SUFFICES ASSUME NEW l \in Lead
             PROVE  /\ Submitted(l)' \subseteq Submitted(l)
                    /\ Passed(l)' \subseteq Passed(l)
  OBVIOUS
<1>1. Submitted(l)' \subseteq Submitted(l)
  <2>1. CASE UNCHANGED <<adm, gone>>
    BY <2>1 DEF Submitted, Open, Public
  <2>7. ASSUME NEW k \in Lead, DeleteLead(k)
        PROVE  Submitted(l)' \subseteq Submitted(l)
    BY <2>7 DEF DeleteLead, Submitted, Open, Public
  <2>2. ASSUME NEW a \in Adm, NEW k \in Lead, StaffCreate(a, k)
        PROVE  Submitted(l)' \subseteq Submitted(l)
    <3>1. ~Public(a)'
      BY <2>2 DEF StaffCreate, Public, NoAdmission, TypeOK
    <3>2. gone' = gone /\ \A b \in Adm \ {a} : adm'[b] = adm[b]
      BY <2>2 DEF StaffCreate, TypeOK
    <3> QED BY <3>1, <3>2 DEF Submitted, Open, Public
  <2>3. ASSUME NEW a \in Adm, NEW s \in {"attending", "rejected"}, Decide(a, s)
        PROVE  Submitted(l)' \subseteq Submitted(l)
    BY <2>3 DEF Decide, Submitted, Open, Public, TypeOK, Admission
  <2>4. ASSUME NEW a \in Adm, NEW s \in Revivals, Revive(a, s)
        PROVE  Submitted(l)' \subseteq Submitted(l)
    BY <2>4 DEF Revive, Submitted, Open, Public, TypeOK, Admission
  <2>5. ASSUME NEW a \in Adm, SoftDelete(a)
        PROVE  Submitted(l)' \subseteq Submitted(l)
    BY <2>5 DEF SoftDelete, Submitted, Open, Public, TypeOK, Admission
  <2> QED BY <2>1, <2>2, <2>3, <2>4, <2>5, <2>7, AdmChanges
<1>2. Passed(l)' \subseteq Passed(l)
  <2>1. CASE UNCHANGED <<req, lost>>
    BY <2>1 DEF Passed
  <2>2. ASSUME NEW q \in Req, NEW new \in Request, req' = [req EXCEPT ![q] = new],
               new.pc \notin {"submit_offer", "submit_insert"}
        PROVE  Passed(l)' \subseteq Passed(l)
    BY <2>2 DEF Passed, TypeOK, Request
  <2>3. ASSUME NEW q \in Req, SubmitReadOffer(q)
        PROVE  Passed(l)' \subseteq Passed(l)
    <3>1. PICK new \in Request :
             /\ req' = [req EXCEPT ![q] = new]
             /\ new.pc = "submit_insert" => new.lead = req[q].lead
             /\ new.pc \in {"idle", "submit_insert"}
      BY <2>3, OfferRead
    <3> QED BY <2>3, <3>1 DEF SubmitReadOffer, Passed, TypeOK
  <2>4. ASSUME NEW q \in Req, MarkUsed(q) \/ Fail(q)
        PROVE  Passed(l)' \subseteq Passed(l)
    BY <2>4 DEF MarkUsed, Fail, Done, Idle, Passed, TypeOK, Request
  <2>5. ASSUME NEW q \in Req, NEW k \in Lead, MintCheckOpen(q, k)
        PROVE  Passed(l)' \subseteq Passed(l)
    BY <2>5 DEF MintCheckOpen, Idle, Passed, TypeOK, Request
  <2>6. ASSUME NEW q \in Req, MintCheckOffer(q)
        PROVE  Passed(l)' \subseteq Passed(l)
    BY <2>6 DEF MintCheckOffer, Goto, Done, Idle, Passed, TypeOK, Request
  <2>7. ASSUME NEW q \in Req, NEW t \in Tok, MintInsert(q, t)
        PROVE  Passed(l)' \subseteq Passed(l)
    BY <2>7 DEF MintInsert, Done, Idle, Passed, TypeOK, Request
  <2>8. ASSUME NEW q \in Req, NEW t \in Tok, SubmitLookup(q, t)
        PROVE  Passed(l)' \subseteq Passed(l)
    BY <2>2, <2>8, LookupStarts
  <2> QED BY <2>1, <2>3, <2>4, <2>5, <2>6, <2>7, <2>8, RequestChanges
<1> QED BY <1>1, <1>2

-----------------------------------------------------------------------------
(* Prices *)

Submitting == {"submit_open", "submit_offer", "submit_insert"}

\* What a step makes of a request: unless it leaves the request alone or outside
\* a submit, what is held from now on is what the step has just read.
Reads(q) ==
    \/ req'[q] = req[q]
    \/ req'[q].pc \notin Submitting
    \/ /\ req'[q].pc = "submit_open" /\ req'[q].tok \in Tok
       /\ LookupOk(req'[q].tok) /\ req'[q].lead = token[req'[q].tok].lead
       /\ req'[q].asof = InForce(req'[q].lead) /\ req'[q].asof # 0
    \/ /\ req'[q].pc = "submit_offer" /\ req[q].pc = "submit_open"
       /\ req'[q].lead = req[q].lead /\ req'[q].tok = req[q].tok
       /\ req'[q].asof = req[q].asof
    \/ /\ req'[q].pc = "submit_insert" /\ req[q].pc = "submit_offer"
       /\ req'[q].lead = req[q].lead /\ req'[q].tok = req[q].tok
       /\ req'[q].asof = req[q].asof
       /\ req'[q].plan = offer[req[q].lead] /\ req'[q].plan # 0

\* Versions are only ever added; the offer of a lead becomes the next one or is
\* taken back.
LEMMA OffersMove ==
  ASSUME TypeOK, [Next]_vars, NEW l \in Lead
  PROVE  \/ saved'[l] = saved[l] /\ offer'[l] = offer[l]
         \/ saved'[l] = saved[l] /\ offer'[l] = 0
         \/ saved'[l] = saved[l] + 1 /\ offer'[l] = saved[l] + 1
<1> DEFINE Moved == \/ saved'[l] = saved[l] /\ offer'[l] = offer[l]
                    \/ saved'[l] = saved[l] /\ offer'[l] = 0
                    \/ saved'[l] = saved[l] + 1 /\ offer'[l] = saved[l] + 1
<1>1. ASSUME NEW k \in Lead, SaveOffer(k) \/ ImportUpsert(k) PROVE Moved
  <2>1. Upsert(k)
    BY <1>1 DEF SaveOffer, ImportUpsert
  <2> QED BY <2>1, Saves
<1>2. ASSUME NEW k \in Lead, DeleteLead(k) \/ ImportRollback(k) PROVE Moved
  BY <1>2 DEF DeleteLead, ImportRollback, TypeOK
<1>3. ASSUME UNCHANGED <<offer, saved>> PROVE Moved
  BY <1>3
<1>4. \/ UNCHANGED <<offer, saved>>
      \/ \E k \in Lead : SaveOffer(k) \/ ImportUpsert(k)
      \/ \E k \in Lead : DeleteLead(k) \/ ImportRollback(k)
  BY DEF Next, vars, offers, ImportLook, ImportEnds, MintCheckOpen,
         MintCheckOffer, MintInsert, Expire, SubmitLookup, SubmitCheckOpen,
         SubmitReadOffer, SubmitInsert, MarkUsed, Fail, StaffCreate, Decide,
         Revive, SoftDelete
<1> HIDE DEF Moved
<1>5. Moved
  BY <1>1, <1>2, <1>3, <1>4
<1> QED BY <1>5 DEF Moved

\* Hence the oldest version in force never gets older.
LEMMA InForceGrows ==
  ASSUME TypeOK, PricedOnTheWay, [Next]_vars, NEW l \in Lead
  PROVE  /\ saved[l] \in Nat /\ saved'[l] \in Nat /\ saved[l] <= saved'[l]
         /\ offer'[l] <= saved'[l]
         /\ InForce(l) \in Nat \ {0} /\ InForce(l)' \in Nat
         /\ InForce(l) <= InForce(l)'
<1>1. PICK s \in Nat, o \in Nat : s = saved[l] /\ o = offer[l]
  BY PublicConstants DEF TypeOK
<1>2. o <= s
  BY <1>1 DEF PricedOnTheWay
<1>3. InForce(l) = IF o = 0 THEN s + 1 ELSE o
  BY <1>1 DEF InForce
<1>4. InForce(l)' = IF offer'[l] = 0 THEN saved'[l] + 1 ELSE offer'[l]
  BY DEF InForce
<1>5. \/ saved'[l] = s /\ offer'[l] = o
      \/ saved'[l] = s /\ offer'[l] = 0
      \/ saved'[l] = s + 1 /\ offer'[l] = s + 1
  BY <1>1, OffersMove
<1> QED BY <1>1, <1>2, <1>3, <1>4, <1>5

\* A link once inserted stays in its table and keeps its lead.
LEMMA LinksStay ==
  TypeOK /\ [Next]_vars =>
    \A t \in Tok : token[t].live => token'[t].live /\ token'[t].lead = token[t].lead
<1> SUFFICES ASSUME TypeOK, [Next]_vars, NEW t \in Tok, token[t].live
             PROVE  token'[t].live /\ token'[t].lead = token[t].lead
  OBVIOUS
<1>1. ASSUME NEW q \in Req, NEW n \in Tok, MintInsert(q, n)
      PROVE  token'[t].live /\ token'[t].lead = token[t].lead
  BY <1>1 DEF MintInsert, TypeOK, Token
<1>2. ASSUME NEW n \in Tok, Expire(n)
      PROVE  token'[t].live /\ token'[t].lead = token[t].lead
  BY <1>2 DEF Expire, TypeOK, Token
<1>3. ASSUME NEW q \in Req, MarkUsed(q)
      PROVE  token'[t].live /\ token'[t].lead = token[t].lead
  BY <1>3 DEF MarkUsed, TypeOK, Token
<1> QED BY <1>1, <1>2, <1>3, LinkChanges

\* What a submission keeps, and what it has from the request that inserts it.
Kept(a) ==
    /\ Public(a) /\ adm'[a].lead = adm[a].lead /\ adm'[a].tok = adm[a].tok
    /\ adm'[a].plan = adm[a].plan /\ adm'[a].stale = adm[a].stale
From(q, a) ==
    /\ req[q].pc = "submit_insert"
    /\ adm'[a].lead = req[q].lead /\ adm'[a].tok = req[q].tok
    /\ adm'[a].plan = req[q].plan /\ adm'[a].stale = (req[q].plan < req[q].asof)

\* A submission is one the table had, or the one a request past the check
\* inserts.
LEMMA SubmissionsCome ==
  TypeOK /\ [Next]_vars =>
    \A a \in Adm : Public(a)' => Kept(a) \/ \E q \in Req : From(q, a)
<1> SUFFICES ASSUME TypeOK, [Next]_vars, NEW a \in Adm, Public(a)'
             PROVE  Kept(a) \/ \E q \in Req : From(q, a)
  OBVIOUS
<1>1. ASSUME NEW q \in Req, NEW b \in Adm, SubmitInsert(q, b)
      PROVE  Kept(a) \/ From(q, a)
  <2>1. adm'[a] = IF a = b THEN Submission(q) ELSE adm[a]
    BY <1>1 DEF SubmitInsert, TypeOK
  <2>2. CASE a = b
    BY <1>1, <2>1, <2>2 DEF SubmitInsert, Submission, From
  <2>3. CASE a # b
    BY <2>1, <2>3 DEF Kept, Public
  <2> QED BY <2>2, <2>3
<1>2. ASSUME NEW b \in Adm, NEW l \in Lead, StaffCreate(b, l) PROVE Kept(a)
  BY <1>2 DEF StaffCreate, NoAdmission, Kept, Public, TypeOK, Admission
<1>3. ASSUME NEW b \in Adm, NEW s \in {"attending", "rejected"}, Decide(b, s)
      PROVE  Kept(a)
  BY <1>3 DEF Decide, Kept, Public, TypeOK, Admission
<1>4. ASSUME NEW b \in Adm, NEW s \in Revivals, Revive(b, s) PROVE Kept(a)
  BY <1>4 DEF Revive, Kept, Public, TypeOK, Admission
<1>5. ASSUME NEW b \in Adm, SoftDelete(b) PROVE Kept(a)
  BY <1>5 DEF SoftDelete, Kept, Public, TypeOK, Admission
<1>6. CASE adm' = adm
  BY <1>6 DEF Kept, Public
<1>7. ASSUME NEW l \in Lead, DeleteLead(l) PROVE Kept(a)
  BY <1>7 DEF DeleteLead, Kept, Public
<1> QED BY <1>1, <1>2, <1>3, <1>4, <1>5, <1>6, <1>7, AdmChanges

\* Every step of every request holds only what it has just read.
LEMMA RequestsRead == TypeOK /\ [Next]_vars => \A q \in Req : Reads(q)
<1> SUFFICES ASSUME TypeOK, [Next]_vars, NEW q \in Req PROVE Reads(q)
  OBVIOUS
<1>1. CASE req' = req
  BY <1>1 DEF Reads
<1>2. ASSUME NEW p \in Req, NEW l \in Lead, MintCheckOpen(p, l) PROVE Reads(q)
  BY <1>2 DEF MintCheckOpen, Idle, Reads, Submitting, TypeOK
<1>3. ASSUME NEW p \in Req, MarkUsed(p) \/ Fail(p) PROVE Reads(q)
  BY <1>3 DEF MarkUsed, Fail, Done, Idle, Reads, Submitting, TypeOK
<1>4. ASSUME NEW p \in Req, MintCheckOffer(p) PROVE Reads(q)
  BY <1>4 DEF MintCheckOffer, Goto, Done, Idle, Reads, Submitting, TypeOK, Request
<1>5. ASSUME NEW p \in Req, NEW t \in Tok, MintInsert(p, t) PROVE Reads(q)
  BY <1>5 DEF MintInsert, Done, Idle, Reads, Submitting, TypeOK
<1>6. ASSUME NEW p \in Req, NEW t \in Tok, SubmitLookup(p, t) PROVE Reads(q)
  <2>1. PICK new : /\ new \in Request /\ new.pc = "submit_open"
                   /\ new.tok = t /\ new.lead = token[t].lead
                   /\ new.asof = InForce(token[t].lead) /\ new.asof # 0
                   /\ req' = [req EXCEPT ![p] = new]
    BY <1>6, LookupStarts
  <2>2. LookupOk(t)
    BY <1>6 DEF SubmitLookup
  <2> QED BY <2>1, <2>2 DEF Reads, TypeOK
<1>7. ASSUME NEW p \in Req, SubmitCheckOpen(p) PROVE Reads(q)
  <2>1. CASE Open(req[p].lead) = {}
    BY <1>7, <2>1 DEF SubmitCheckOpen, Goto, Reads, TypeOK, Request
  <2>2. CASE Open(req[p].lead) # {}
    <3>1. PICK new \in Request : new.pc = "burn" /\ req' = [req EXCEPT ![p] = new]
      BY <1>7, <2>2, BurnStarts DEF SubmitCheckOpen
    <3> QED BY <3>1 DEF Reads, Submitting, TypeOK
  <2> QED BY <2>1, <2>2
<1>8. ASSUME NEW p \in Req, SubmitReadOffer(p) PROVE Reads(q)
  <2>1. PICK new \in Request :
           /\ req' = [req EXCEPT ![p] = new]
           /\ new.pc = "submit_insert" =>
                 /\ new.lead = req[p].lead /\ new.tok = req[p].tok
                 /\ new.asof = req[p].asof
                 /\ new.plan = offer[req[p].lead] /\ new.plan # 0
           /\ new.pc \in {"idle", "submit_insert"}
    BY <1>8, OfferRead
  <2>2. req[p].pc = "submit_offer"
    BY <1>8 DEF SubmitReadOffer
  <2> QED BY <2>1, <2>2 DEF Reads, Submitting, TypeOK
<1>9. ASSUME NEW p \in Req, NEW a \in Adm, SubmitInsert(p, a) PROVE Reads(q)
  <2>1. PICK new \in Request : new.pc = "mark" /\ req' = [req EXCEPT ![p] = new]
    BY <1>9, BurnStarts DEF SubmitInsert
  <2> QED BY <2>1 DEF Reads, Submitting, TypeOK
<1> QED BY <1>1, <1>2, <1>3, <1>4, <1>5, <1>6, <1>7, <1>8, <1>9, RequestChanges

\* What a submit under way has read.
OnTheWay(q) ==
    req[q].pc \in Submitting =>
        /\ token[req[q].tok].live /\ token[req[q].tok].lead = req[q].lead
        /\ req[q].asof \in 1..InForce(req[q].lead)
        /\ req[q].pc = "submit_insert" =>
              req[q].plan \in req[q].asof..saved[req[q].lead]

LEMMA OnTheWayStep ==
  ASSUME TypeOK, PricedOnTheWay, [Next]_vars, NEW q \in Req
  PROVE  OnTheWay(q)'
<1>1. OnTheWay(q)
  BY DEF PricedOnTheWay, OnTheWay, Submitting
<1>2. Reads(q)
  BY RequestsRead
<1>3. TypeOK'
  BY TypeStep
<1>9. req'[q] \in Request
  BY <1>3 DEF TypeOK
<1>10. /\ req'[q].lead \in Lead /\ req'[q].tok \in Tok
       /\ req'[q].asof \in Nat /\ req'[q].plan \in Nat
  BY <1>9, PublicConstants DEF Request
<1> PICK l \in Lead, t \in Tok, from \in Nat, pl \in Nat :
      l = req'[q].lead /\ t = req'[q].tok /\ from = req'[q].asof /\ pl = req'[q].plan
  BY <1>10
<1> SUFFICES ASSUME req'[q].pc \in Submitting
             PROVE  /\ token'[t].live /\ token'[t].lead = l
                    /\ from \in 1..InForce(l)'
                    /\ req'[q].pc = "submit_insert" => pl \in from..saved'[l]
  BY DEF OnTheWay, InForce
<1>4. token[t].live => token'[t].live /\ token'[t].lead = token[t].lead
  BY LinksStay
<1> PICK s \in Nat, s2 \in Nat, f \in Nat \ {0}, f2 \in Nat :
      /\ s = saved[l] /\ s2 = saved'[l] /\ f = InForce(l) /\ f2 = InForce(l)'
      /\ s <= s2 /\ f <= f2
  BY InForceGrows
<1> SUFFICES /\ token[t].live /\ token[t].lead = l
             /\ from \in 1..f
             /\ req'[q].pc = "submit_insert" => pl \in from..s
  BY <1>4
<1>5. CASE req'[q] = req[q]
  BY <1>1, <1>5 DEF OnTheWay
<1>6. CASE /\ req'[q].pc = "submit_open" /\ LookupOk(t)
           /\ l = token[t].lead /\ from = InForce(l) /\ from # 0
  BY <1>6 DEF LookupOk
<1>7. CASE /\ req'[q].pc = "submit_offer" /\ req[q].pc = "submit_open"
           /\ l = req[q].lead /\ t = req[q].tok /\ from = req[q].asof
  BY <1>1, <1>7 DEF OnTheWay, Submitting
<1>8. CASE /\ req'[q].pc = "submit_insert" /\ req[q].pc = "submit_offer"
           /\ l = req[q].lead /\ t = req[q].tok /\ from = req[q].asof
           /\ pl = offer[l] /\ pl # 0
  <2>1. token[t].live /\ token[t].lead = l /\ from \in 1..f
    BY <1>1, <1>8 DEF OnTheWay, Submitting
  <2>2. f = pl
    BY <1>8 DEF InForce
  <2>3. pl <= s
    BY <1>8 DEF PricedOnTheWay
  <2> QED BY <2>1, <2>2, <2>3
<1> QED BY <1>2, <1>5, <1>6, <1>7, <1>8 DEF Reads

\* What lies between two versions.
LEMMA Between ==
  ASSUME NEW f \in Nat, NEW s \in Nat, NEW from \in Nat, NEW pl \in Nat,
         from \in 1..f, pl \in from..s
  PROVE  pl \in 1..s /\ ~(pl < from)
<1>1. 1 <= from /\ from <= pl /\ pl <= s
  OBVIOUS
<1> QED BY <1>1

\* The price of a submission, in this state.
PriceOf(a) ==
    /\ adm[a].lead = token[adm[a].tok].lead
    /\ adm[a].plan \in 1..saved[adm[a].lead] /\ ~adm[a].stale
    /\ token[adm[a].tok].live

LEMMA PriceKept ==
  ASSUME TypeOK, PricedInForce, PricedOnTheWay, [Next]_vars,
         NEW a \in Adm, Public(a)'
  PROVE  PriceOf(a)'
<1>1. TypeOK'
  BY TypeStep
<1> PICK l \in Lead, t \in Tok, pl \in Nat :
      l = adm'[a].lead /\ t = adm'[a].tok /\ pl = adm'[a].plan
  BY <1>1, PublicConstants DEF TypeOK, Admission
<1>2. token[t].live => token'[t].live /\ token'[t].lead = token[t].lead
  BY LinksStay
<1> PICK s \in Nat, s2 \in Nat : s = saved[l] /\ s2 = saved'[l] /\ s <= s2
  BY InForceGrows
<1> SUFFICES token[t].live /\ token[t].lead = l /\ pl \in 1..s /\ ~adm'[a].stale
  BY <1>2 DEF PriceOf
<1>3. CASE Kept(a)
  BY <1>3 DEF Kept, PricedInForce, PricedOnTheWay
<1>4. ASSUME NEW q \in Req, From(q, a)
      PROVE  token[t].live /\ token[t].lead = l /\ pl \in 1..s /\ ~adm'[a].stale
  <2>1. PICK from \in Nat : from = req[q].asof
    BY PublicConstants DEF TypeOK, Request
  <2>2. OnTheWay(q)
    BY DEF PricedOnTheWay, OnTheWay, Submitting
  <2>3. /\ token[t].live /\ token[t].lead = l
    BY <1>4, <2>1, <2>2 DEF From, OnTheWay, Submitting
  <2>7. from \in 1..InForce(l) /\ pl \in from..s
    BY <1>4, <2>1, <2>2 DEF From, OnTheWay, Submitting
  <2>4. adm'[a].stale = (pl < from)
    BY <1>4, <2>1 DEF From
  <2>5. InForce(l) \in Nat
    BY InForceGrows
  <2>6. pl \in 1..s /\ ~(pl < from)
    BY <2>5, <2>7, Between
  <2> QED BY <2>3, <2>4, <2>6
<1> QED BY <1>3, <1>4, SubmissionsCome

\* Submissions stay priced by a version in force.
LEMMA PriceStep ==
  TypeOK /\ PricedInForce /\ PricedOnTheWay /\ [Next]_vars =>
    PricedInForce' /\ PricedOnTheWay'
<1> SUFFICES ASSUME TypeOK, PricedInForce, PricedOnTheWay, [Next]_vars
             PROVE  PricedInForce' /\ PricedOnTheWay'
  OBVIOUS
<1>1. \A a \in Adm : Public(a)' => PriceOf(a)'
  BY PriceKept
<1>2. \A q \in Req : OnTheWay(q)'
  BY OnTheWayStep
<1>3. \A l \in Lead : offer'[l] <= saved'[l]
  BY InForceGrows
<1>4. PricedInForce'
  BY <1>1 DEF PricedInForce, PriceOf
<1>5. PricedOnTheWay'
  BY <1>1, <1>2, <1>3 DEF PricedOnTheWay, PriceOf, OnTheWay, Submitting
<1> QED BY <1>4, <1>5

-----------------------------------------------------------------------------
(* How often a link is used *)

\* The bounds of one link, in this state.
LinkUse(t) ==
    /\ Cardinality(Through(t)) + Cardinality(Inserting(t))
          <= Cardinality(Req) + lost[t]
    /\ ~token[t].used => Cardinality(Through(t)) <= Cardinality(Marking(t)) + lost[t]

\* None of the counts can be infinite.
LEMMA UsesCounted ==
  ASSUME NEW t \in Tok
  PROVE  /\ IsFiniteSet(Through(t)) /\ Cardinality(Through(t)) \in Nat
         /\ IsFiniteSet(Inserting(t)) /\ Cardinality(Inserting(t)) \in Nat
         /\ IsFiniteSet(Marking(t)) /\ Cardinality(Marking(t)) \in Nat
         /\ Cardinality(Inserting(t)) <= Cardinality(Req)
         /\ Cardinality(Req) \in Nat
<1>1. Through(t) \in SUBSET Adm /\ Inserting(t) \in SUBSET Req /\ Marking(t) \in SUBSET Req
  BY DEF Through, Inserting, Marking
<1>2. /\ IsFiniteSet(Through(t)) /\ IsFiniteSet(Inserting(t)) /\ IsFiniteSet(Marking(t))
      /\ Cardinality(Inserting(t)) <= Cardinality(Req)
  BY <1>1, FS_Subset, PublicConstants
<1> QED BY <1>2, FS_CardinalityType, PublicConstants

\* The same facts in the state a step leads to.
LEMMA UsesCountedNext ==
  ASSUME NEW t \in Tok
  PROVE  /\ IsFiniteSet(Through(t)') /\ Cardinality(Through(t)') \in Nat
         /\ IsFiniteSet(Inserting(t)') /\ Cardinality(Inserting(t)') \in Nat
         /\ IsFiniteSet(Marking(t)') /\ Cardinality(Marking(t)') \in Nat
         /\ Cardinality(Inserting(t)') <= Cardinality(Req)
<1>1. /\ Through(t)' \in SUBSET Adm /\ Inserting(t)' \in SUBSET Req
      /\ Marking(t)' \in SUBSET Req
  BY DEF Through, Inserting, Marking
<1>2. /\ IsFiniteSet(Through(t)') /\ IsFiniteSet(Inserting(t)')
      /\ IsFiniteSet(Marking(t)')
      /\ Cardinality(Inserting(t)') <= Cardinality(Req)
  BY <1>1, FS_Subset, PublicConstants
<1> QED BY <1>2, FS_CardinalityType, PublicConstants

\* A step after which no more admissions and insertions count for the link, and
\* which burns it or takes no request off the way to burn it.
LEMMA UseShrinks ==
  ASSUME TypeOK, NEW t \in Tok, LinkUse(t), lost'[t] = lost[t],
         Through(t)' \subseteq Through(t), Inserting(t)' \subseteq Inserting(t),
         ~token'[t].used => ~token[t].used /\ Marking(t) \subseteq Marking(t)'
  PROVE  LinkUse(t)'
<1>1. Cardinality(Through(t)') <= Cardinality(Through(t))
  BY UsesCounted, FS_Subset
<1>2. Cardinality(Inserting(t)') <= Cardinality(Inserting(t))
  BY UsesCounted, FS_Subset
<1>3. Marking(t) \subseteq Marking(t)' =>
        Cardinality(Marking(t)) <= Cardinality(Marking(t)')
  BY UsesCountedNext, FS_Subset
<1>4. /\ Cardinality(Through(t)) + Cardinality(Inserting(t))
            <= Cardinality(Req) + lost[t]
      /\ ~token[t].used =>
            Cardinality(Through(t)) <= Cardinality(Marking(t)) + lost[t]
  BY DEF LinkUse
<1>5. lost[t] \in Nat
  BY DEF TypeOK
<1>6. /\ Cardinality(Through(t)) \in Nat /\ Cardinality(Inserting(t)) \in Nat
      /\ Cardinality(Marking(t)) \in Nat /\ Cardinality(Req) \in Nat
      /\ Cardinality(Through(t)') \in Nat /\ Cardinality(Inserting(t)') \in Nat
      /\ Cardinality(Marking(t)') \in Nat
  BY UsesCounted, UsesCountedNext
<1>7. Cardinality(Through(t)') + Cardinality(Inserting(t)')
        <= Cardinality(Req) + lost[t]
  BY <1>1, <1>2, <1>4, <1>5, <1>6
<1>8. ~token'[t].used =>
        Cardinality(Through(t)') <= Cardinality(Marking(t)') + lost[t]
  BY <1>1, <1>3, <1>4, <1>5, <1>6
<1> QED BY <1>7, <1>8 DEF LinkUse

\* A link is accepted only while it is unburnt: then every admission made
\* through it has its own request on the way to burn it or lost one there, and
\* the one that looks the link up is yet another.
LEMMA LookupKeepsUse ==
  ASSUME TypeOK, NEW t \in Tok, LinkUse(t), NEW q \in Req, NEW n \in Tok,
         SubmitLookup(q, n)
  PROVE  LinkUse(t)'
<1>1. PICK new : /\ new \in Request /\ new.pc = "submit_open" /\ new.tok = n
                 /\ req' = [req EXCEPT ![q] = new]
  BY LookupStarts
<1>2. req[q].pc = "idle" /\ UNCHANGED <<token, adm, lost>> /\ LookupOk(n)
  BY DEF SubmitLookup
<1>3. Through(t)' = Through(t)
  BY <1>2 DEF Through, Public
<1>4. Marking(t)' = Marking(t)
  BY <1>1, <1>2 DEF Marking, TypeOK
<1>5. CASE n # t
  <2>1. Inserting(t)' = Inserting(t)
    BY <1>1, <1>2, <1>5 DEF Inserting, TypeOK
  <2> QED BY <1>2, <1>3, <1>4, <2>1 DEF LinkUse
<1>6. CASE n = t
  <2>1. q \notin Inserting(t) /\ q \notin Marking(t)
    BY <1>2 DEF Inserting, Marking
  <2>2. Inserting(t)' = Inserting(t) \cup {q}
    BY <1>1, <1>2, <1>6 DEF Inserting, TypeOK
  <2>3. ~token[t].used
    BY <1>2, <1>6 DEF LookupOk
  <2>4. Cardinality(Through(t)) <= Cardinality(Marking(t)) + lost[t]
    BY <2>3 DEF LinkUse
  <2>5. Inserting(t)' \cap Marking(t) = {}
    BY <2>1, <2>2 DEF Inserting, Marking
  <2>6. Inserting(t)' \cup Marking(t) \in SUBSET Req
    BY <2>2 DEF Inserting, Marking
  <2>7. Cardinality(Inserting(t)' \cup Marking(t)) <= Cardinality(Req)
    BY <2>6, FS_Subset, PublicConstants
  <2>8. Cardinality(Inserting(t)' \cup Marking(t)) =
          Cardinality(Inserting(t)') + Cardinality(Marking(t))
                                     - Cardinality(Inserting(t)' \cap Marking(t))
    BY UsesCounted, UsesCountedNext, FS_Union
  <2>9. Cardinality(Inserting(t)' \cap Marking(t)) = 0
    BY <2>5, FS_EmptySet
  <2>10. /\ Cardinality(Through(t)) \in Nat /\ Cardinality(Marking(t)) \in Nat
         /\ Cardinality(Inserting(t)') \in Nat /\ Cardinality(Req) \in Nat
         /\ lost[t] \in Nat
    BY UsesCounted, UsesCountedNext DEF TypeOK
  <2>11. Cardinality(Through(t)) + Cardinality(Inserting(t)')
           <= Cardinality(Req) + lost[t]
    BY <2>4, <2>7, <2>8, <2>9, <2>10
  <2> QED BY <1>2, <1>3, <1>4, <2>4, <2>11 DEF LinkUse
<1> QED BY <1>5, <1>6

\* The insert moves one request from inserting to marking and adds one
\* admission.
LEMMA InsertKeepsUse ==
  ASSUME TypeOK, NEW t \in Tok, LinkUse(t), NEW q \in Req, NEW a \in Adm,
         SubmitInsert(q, a)
  PROVE  LinkUse(t)'
<1>1. token' = token /\ lost' = lost
  BY DEF SubmitInsert
<1> PICK new \in Request : /\ new.pc = "mark" /\ new.tok = req[q].tok
                           /\ req' = [req EXCEPT ![q] = new]
  BY BurnStarts DEF SubmitInsert
<1>2. CASE req[q].tok # t
  <2>1. Through(t)' = Through(t)
    BY <1>2 DEF SubmitInsert, Submission, Through, Public, TypeOK, Admission
  <2>2. Inserting(t)' = Inserting(t) /\ Marking(t)' = Marking(t)
    BY <1>2 DEF SubmitInsert, Inserting, Marking, TypeOK
  <2> QED BY <1>1, <2>1, <2>2 DEF LinkUse
<1>3. CASE req[q].tok = t
  <2>1. a \notin Through(t) /\ Through(t)' = Through(t) \cup {a}
    BY <1>3 DEF SubmitInsert, Submission, Through, Public, TypeOK, Admission
  <2>2. /\ q \in Inserting(t) /\ Inserting(t)' = Inserting(t) \ {q}
        /\ q \notin Marking(t) /\ Marking(t)' = Marking(t) \cup {q}
    BY <1>3 DEF SubmitInsert, Inserting, Marking, TypeOK
  <2>3. Cardinality(Through(t)') = Cardinality(Through(t)) + 1
    BY <2>1, UsesCounted, FS_AddElement
  <2>4. Cardinality(Inserting(t)') = Cardinality(Inserting(t)) - 1
    BY <2>2, UsesCounted, FS_RemoveElement
  <2>5. Cardinality(Marking(t)') = Cardinality(Marking(t)) + 1
    BY <2>2, UsesCounted, FS_AddElement
  <2>6. /\ Cardinality(Through(t)) + Cardinality(Inserting(t))
              <= Cardinality(Req) + lost[t]
        /\ ~token[t].used =>
              Cardinality(Through(t)) <= Cardinality(Marking(t)) + lost[t]
    BY DEF LinkUse
  <2>7. /\ Cardinality(Through(t)) \in Nat /\ Cardinality(Marking(t)) \in Nat
        /\ Cardinality(Inserting(t)) \in Nat /\ Cardinality(Req) \in Nat
        /\ lost[t] \in Nat
    BY UsesCounted DEF TypeOK
  <2>8. Cardinality(Through(t)') + Cardinality(Inserting(t)')
          <= Cardinality(Req) + lost[t]
    BY <2>3, <2>4, <2>6, <2>7
  <2>9. ~token'[t].used =>
          Cardinality(Through(t)') <= Cardinality(Marking(t)') + lost[t]
    BY <1>1, <2>3, <2>5, <2>6, <2>7
  <2> QED BY <1>1, <2>8, <2>9 DEF LinkUse
<1> QED BY <1>2, <1>3

\* A link that is being minted has no admission yet.
LEMMA MintKeepsUse ==
  ASSUME TypeOK, PricedOnTheWay, NEW t \in Tok, LinkUse(t), NEW q \in Req,
         NEW n \in Tok, MintInsert(q, n)
  PROVE  LinkUse(t)'
<1>1. Through(t)' = Through(t) /\ lost' = lost
  BY DEF MintInsert, Through, Public
<1>2. Inserting(t)' = Inserting(t) /\ Marking(t)' = Marking(t)
  BY DEF MintInsert, Done, Idle, Inserting, Marking, TypeOK
<1>3. CASE n # t
  <2>1. token'[t] = token[t]
    BY <1>3 DEF MintInsert, TypeOK
  <2> QED BY <1>1, <1>2, <2>1 DEF LinkUse
<1>4. CASE n = t
  <2>1. Through(t) = {}
    BY <1>4 DEF MintInsert, Through, PricedOnTheWay
  <2>2. Cardinality(Through(t)') = 0
    BY <1>1, <2>1, FS_EmptySet
  <2>3. /\ Cardinality(Inserting(t)') \in Nat /\ Cardinality(Marking(t)') \in Nat
        /\ Cardinality(Inserting(t)') <= Cardinality(Req)
        /\ Cardinality(Req) \in Nat /\ lost[t] \in Nat
    BY UsesCounted, UsesCountedNext DEF TypeOK
  <2>4. /\ Cardinality(Through(t)') + Cardinality(Inserting(t)')
              <= Cardinality(Req) + lost[t]
        /\ Cardinality(Through(t)') <= Cardinality(Marking(t)') + lost[t]
    BY <2>2, <2>3
  <2> QED BY <1>1, <2>4 DEF LinkUse
<1> QED BY <1>3, <1>4

\* A request that fails between the insert and the burning is counted as lost.
LEMMA FailKeepsUse ==
  ASSUME TypeOK, NEW t \in Tok, LinkUse(t), NEW q \in Req, Fail(q)
  PROVE  LinkUse(t)'
<1>1. Through(t)' = Through(t) /\ token' = token
  BY DEF Fail, Through, Public
<1>2. Inserting(t)' \subseteq Inserting(t)
  BY DEF Fail, Done, Idle, Inserting, TypeOK
<1>3. CASE q \notin Marking(t)
  <2>1. lost'[t] = lost[t]
    BY <1>3 DEF Fail, Marking, TypeOK
  <2>2. Marking(t) \subseteq Marking(t)'
    BY <1>3 DEF Fail, Done, Marking, TypeOK
  <2> QED BY <1>1, <1>2, <2>1, <2>2, UseShrinks
<1>4. CASE q \in Marking(t)
  <2>1. lost'[t] = lost[t] + 1
    BY <1>4 DEF Fail, Marking, TypeOK
  <2>2. Marking(t)' = Marking(t) \ {q}
    BY DEF Fail, Done, Idle, Marking, TypeOK
  <2>3. Cardinality(Marking(t)') = Cardinality(Marking(t)) - 1
    BY <1>4, <2>2, UsesCounted, FS_RemoveElement
  <2>4. Cardinality(Inserting(t)') <= Cardinality(Inserting(t))
    BY <1>2, UsesCounted, FS_Subset
  <2>5. /\ Cardinality(Through(t)) + Cardinality(Inserting(t))
              <= Cardinality(Req) + lost[t]
        /\ ~token[t].used =>
              Cardinality(Through(t)) <= Cardinality(Marking(t)) + lost[t]
    BY DEF LinkUse
  <2>6. /\ Cardinality(Through(t)) \in Nat /\ Cardinality(Marking(t)) \in Nat
        /\ Cardinality(Inserting(t)) \in Nat /\ Cardinality(Req) \in Nat
        /\ Cardinality(Inserting(t)') \in Nat /\ lost[t] \in Nat
    BY UsesCounted, UsesCountedNext DEF TypeOK
  <2>7. /\ Cardinality(Through(t)) + Cardinality(Inserting(t)')
              <= Cardinality(Req) + lost'[t]
        /\ ~token[t].used =>
              Cardinality(Through(t)) <= Cardinality(Marking(t)') + lost'[t]
    BY <2>1, <2>3, <2>4, <2>5, <2>6
  <2> QED BY <1>1, <2>7 DEF LinkUse
<1> QED BY <1>3, <1>4

\* The burning of a link takes requests off the way to burn it, when the link
\* is burnt.
LEMMA BurningKeepsUse ==
  ASSUME TypeOK, NEW t \in Tok, LinkUse(t), NEW q \in Req, MarkUsed(q)
  PROVE  LinkUse(t)'
<1>1. Through(t)' = Through(t) /\ lost' = lost
  BY DEF MarkUsed, Through, Public
<1>2. Inserting(t)' \subseteq Inserting(t)
  BY DEF MarkUsed, Done, Idle, Inserting, TypeOK
<1>3. CASE req[q].tok = t
  <2>1. token'[t].used
    BY <1>3 DEF MarkUsed, TypeOK, Token
  <2> QED BY <1>1, <1>2, <2>1, UseShrinks
<1>4. CASE req[q].tok # t
  <2>1. token'[t] = token[t] /\ Marking(t) \subseteq Marking(t)'
    BY <1>4 DEF MarkUsed, Done, Marking, TypeOK
  <2> QED BY <1>1, <1>2, <2>1, UseShrinks
<1> QED BY <1>3, <1>4

\* Accounts add no submission, whatever they do to the rows.
LEMMA ThroughKept ==
  ASSUME TypeOK, NEW t \in Tok, [Next]_vars,
         ~ \E q \in Req, a \in Adm : SubmitInsert(q, a)
  PROVE  Through(t)' \subseteq Through(t)
<1>1. ASSUME NEW a \in Adm, NEW l \in Lead, StaffCreate(a, l)
      PROVE  Through(t)' \subseteq Through(t)
  BY <1>1 DEF StaffCreate, NoAdmission, Through, Public, TypeOK, Admission
<1>2. ASSUME NEW a \in Adm, NEW s \in {"attending", "rejected"}, Decide(a, s)
      PROVE  Through(t)' \subseteq Through(t)
  BY <1>2 DEF Decide, Through, Public, TypeOK, Admission
<1>3. ASSUME NEW a \in Adm, NEW s \in Revivals, Revive(a, s)
      PROVE  Through(t)' \subseteq Through(t)
  BY <1>3 DEF Revive, Through, Public, TypeOK, Admission
<1>4. ASSUME NEW a \in Adm, SoftDelete(a) PROVE Through(t)' \subseteq Through(t)
  BY <1>4 DEF SoftDelete, Through, Public, TypeOK, Admission
<1>5. CASE adm' = adm
  BY <1>5 DEF Through, Public
<1>6. ASSUME NEW l \in Lead, DeleteLead(l) PROVE Through(t)' \subseteq Through(t)
  BY <1>5, <1>6 DEF DeleteLead
<1> QED BY <1>1, <1>2, <1>3, <1>4, <1>5, <1>6, AdmChanges

\* The steps that make no admission, accept no link and burn none.
LEMMA OthersKeepUse ==
  ASSUME TypeOK, NEW t \in Tok, LinkUse(t), [Next]_vars,
         ~ \E q \in Req, n \in Tok : SubmitLookup(q, n),
         ~ \E q \in Req, n \in Tok : MintInsert(q, n),
         ~ \E q \in Req, a \in Adm : SubmitInsert(q, a),
         ~ \E q \in Req : MarkUsed(q),
         ~ \E q \in Req : Fail(q)
  PROVE  LinkUse(t)'
<1>1. Through(t)' \subseteq Through(t)
  BY ThroughKept
<1>2. token'[t].used = token[t].used
  <2>1. ASSUME NEW n \in Tok, Expire(n) PROVE token'[t].used = token[t].used
    BY <2>1 DEF Expire, TypeOK, Token
  <2> QED BY <2>1, LinkChanges
<1>3. /\ lost' = lost
      /\ Inserting(t)' \subseteq Inserting(t) /\ Marking(t) \subseteq Marking(t)'
  <2>1. CASE UNCHANGED <<req, lost>>
    BY <2>1 DEF Inserting, Marking
  <2>2. ASSUME NEW q \in Req, NEW l \in Lead, MintCheckOpen(q, l)
        PROVE  /\ lost' = lost
               /\ Inserting(t)' \subseteq Inserting(t) /\ Marking(t) \subseteq Marking(t)'
    BY <2>2 DEF MintCheckOpen, Idle, Inserting, Marking, TypeOK
  <2>3. ASSUME NEW q \in Req, MintCheckOffer(q)
        PROVE  /\ lost' = lost
               /\ Inserting(t)' \subseteq Inserting(t) /\ Marking(t) \subseteq Marking(t)'
    BY <2>3 DEF MintCheckOffer, Goto, Done, Idle, Inserting, Marking, TypeOK, Request
  <2>4. ASSUME NEW q \in Req, SubmitCheckOpen(q)
        PROVE  /\ lost' = lost
               /\ Inserting(t)' \subseteq Inserting(t) /\ Marking(t) \subseteq Marking(t)'
    <3>1. CASE Open(req[q].lead) = {}
      <4> DEFINE new == [req[q] EXCEPT !.pc = "submit_offer"]
      <4>1. req[q].pc = "submit_open" /\ lost' = lost /\ req' = [req EXCEPT ![q] = new]
        BY <2>4, <3>1 DEF SubmitCheckOpen, Goto
      <4>2. new.pc = "submit_offer" /\ new.tok = req[q].tok
        BY DEF TypeOK, Request
      <4> HIDE DEF new
      <4> QED BY <4>1, <4>2 DEF Inserting, Marking, TypeOK
    <3>2. CASE Open(req[q].lead) # {}
      <4>1. PICK new \in Request : new.pc = "burn" /\ req' = [req EXCEPT ![q] = new]
        BY <2>4, <3>2, BurnStarts DEF SubmitCheckOpen
      <4> QED BY <2>4, <4>1 DEF SubmitCheckOpen, Inserting, Marking, TypeOK
    <3> QED BY <3>1, <3>2
  <2>5. ASSUME NEW q \in Req, SubmitReadOffer(q)
        PROVE  /\ lost' = lost
               /\ Inserting(t)' \subseteq Inserting(t) /\ Marking(t) \subseteq Marking(t)'
    <3>1. PICK new \in Request :
             /\ req' = [req EXCEPT ![q] = new]
             /\ new.pc = "submit_insert" => new.tok = req[q].tok
             /\ new.pc \in {"idle", "submit_insert"}
      BY <2>5, OfferRead
    <3> QED BY <2>5, <3>1 DEF SubmitReadOffer, Inserting, Marking, TypeOK
  <2> QED BY <2>1, <2>2, <2>3, <2>4, <2>5, RequestChanges
<1> QED BY <1>1, <1>2, <1>3, UseShrinks

LEMMA UseStep ==
  TypeOK /\ PricedOnTheWay /\ LinkUses /\ [Next]_vars => LinkUses'
<1> SUFFICES ASSUME TypeOK, PricedOnTheWay, LinkUses, [Next]_vars, NEW t \in Tok
             PROVE  LinkUse(t)'
  BY DEF LinkUses, LinkUse
<1>1. LinkUse(t)
  BY DEF LinkUses, LinkUse
<1>2. CASE \E q \in Req, n \in Tok : SubmitLookup(q, n)
  BY <1>1, <1>2, LookupKeepsUse
<1>3. CASE \E q \in Req, n \in Tok : MintInsert(q, n)
  BY <1>1, <1>3, MintKeepsUse
<1>4. CASE \E q \in Req, a \in Adm : SubmitInsert(q, a)
  BY <1>1, <1>4, InsertKeepsUse
<1>5. CASE \E q \in Req : MarkUsed(q)
  BY <1>1, <1>5, BurningKeepsUse
<1>6. CASE \E q \in Req : Fail(q)
  BY <1>1, <1>6, FailKeepsUse
<1> QED BY <1>1, <1>2, <1>3, <1>4, <1>5, <1>6, OthersKeepUse

-----------------------------------------------------------------------------
(* The theorems *)

LEMMA InitHolds == Init => TypeOK /\ PassedBounded
<1> SUFFICES ASSUME Init PROVE TypeOK /\ PassedBounded
  OBVIOUS
<1>1. TypeOK
  BY EmptyTyped, PublicConstants DEF Init, TypeOK
<1>2. ASSUME NEW l \in Lead
      PROVE  Cardinality(Submitted(l)) + Cardinality(Passed(l)) <= Cardinality(Req)
  <2>1. Submitted(l) = {} /\ Passed(l) = {}
    BY DEF Init, Submitted, Open, Passed, NoAdmission, Idle
  <2>2. Cardinality(Submitted(l)) = 0 /\ Cardinality(Passed(l)) = 0
    BY <2>1, FS_EmptySet
  <2> QED BY <2>2, Counted
<1> QED BY <1>1, <1>2 DEF PassedBounded

LEMMA BoundStep == TypeOK /\ PassedBounded /\ [Next]_vars => PassedBounded'
<1> SUFFICES ASSUME TypeOK, PassedBounded, [Next]_vars PROVE PassedBounded'
  OBVIOUS
<1>1. CASE \E q \in Req : SubmitCheckOpen(q)
  BY <1>1, CheckKeepsBound
<1>2. CASE \E q \in Req, a \in Adm : SubmitInsert(q, a)
  BY <1>2, InsertKeepsBound
<1>3. CASE /\ ~ \E q \in Req : SubmitCheckOpen(q)
           /\ ~ \E q \in Req, a \in Adm : SubmitInsert(q, a)
  BY <1>3, OthersShrink, Shrinks
<1> QED BY <1>1, <1>2, <1>3

\* Type correctness of the public admission flow, for every value of the
\* constants.
THEOREM TypeCorrect == Spec => []TypeOK
<1>1. Init => TypeOK
  BY InitHolds
<1> QED BY <1>1, TypeStep, PTL DEF Spec

\* submitFromToken's guard counts a request as soon as it has passed it.
THEOREM PassedAlwaysBounded == Spec => []PassedBounded
<1>1. Init => TypeOK /\ PassedBounded
  BY InitHolds
<1>2. TypeOK /\ PassedBounded /\ [Next]_vars => (TypeOK /\ PassedBounded)'
  BY TypeStep, BoundStep
<1> QED BY <1>1, <1>2, PTL DEF Spec

\* A lead never has more open submissions than there are requests under way at
\* once; with one at a time, at most one.
THEOREM DuplicatesAlwaysBounded == Spec => []DuplicatesBounded
<1>1. PassedBounded => DuplicatesBounded
  <2> SUFFICES ASSUME PassedBounded, NEW l \in Lead
               PROVE  Cardinality(Submitted(l)) <= Cardinality(Req)
    BY DEF DuplicatesBounded
  <2>1. Cardinality(Submitted(l)) + Cardinality(Passed(l)) <= Cardinality(Req)
    BY DEF PassedBounded
  <2> QED BY <2>1, Counted
<1> QED BY <1>1, PassedAlwaysBounded, PTL

\* A submission is for the lead of its link and carries a version of that lead's
\* offer which was in force while it was made, through failures, overtaken
\* requests, and offers that accounts and the importer save and take back.
THEOREM PricesInForce == Spec => []PricedInForce
<1>1. Init => TypeOK /\ PricedInForce /\ PricedOnTheWay
  <2>1. Init => TypeOK
    BY InitHolds
  <2> QED BY <2>1 DEF Init, PricedInForce, PricedOnTheWay, Public, NoAdmission, Idle
<1>2. TypeOK /\ PricedInForce /\ PricedOnTheWay /\ [Next]_vars =>
        (TypeOK /\ PricedInForce /\ PricedOnTheWay)'
  BY TypeStep, PriceStep
<1> QED BY <1>1, <1>2, PTL DEF Spec

\* However submits overlap and fail, a link creates no more admissions than
\* requests can be under way at once and requests were lost between the two
\* statements of submitFromToken, the insert in one database and the burning in
\* the other.
THEOREM LinkUsesBounded == Spec => []LinkUses
<1>1. Init => TypeOK /\ PricedInForce /\ PricedOnTheWay /\ LinkUses
  <2> SUFFICES ASSUME Init
               PROVE  TypeOK /\ PricedInForce /\ PricedOnTheWay /\ LinkUses
    OBVIOUS
  <2>1. TypeOK
    BY InitHolds
  <2>2. PricedInForce /\ PricedOnTheWay
    BY DEF Init, PricedInForce, PricedOnTheWay, Public, NoAdmission, Idle
  <2>3. ASSUME NEW t \in Tok PROVE LinkUse(t)
    <3>1. Through(t) = {} /\ Inserting(t) = {}
      BY DEF Init, Through, Public, Inserting, NoAdmission, Idle
    <3>2. Cardinality(Through(t)) = 0 /\ Cardinality(Inserting(t)) = 0
      BY <3>1, FS_EmptySet
    <3>3. lost[t] = 0
      BY DEF Init
    <3> QED BY <3>2, <3>3, UsesCounted DEF LinkUse
  <2> QED BY <2>1, <2>2, <2>3 DEF LinkUses, LinkUse
<1>2. TypeOK /\ PricedInForce /\ PricedOnTheWay /\ LinkUses /\ [Next]_vars =>
        (TypeOK /\ PricedInForce /\ PricedOnTheWay /\ LinkUses)'
  BY TypeStep, PriceStep, UseStep
<1> QED BY <1>1, <1>2, PTL DEF Spec
=============================================================================
