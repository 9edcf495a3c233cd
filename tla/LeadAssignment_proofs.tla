----------------------- MODULE LeadAssignment_proofs -----------------------
(***************************************************************************)
(* Proofs about LeadAssignment: for any writers, overlapping and dying in  *)
(* every way, the ledger names the lead's owner unless a writer tore the   *)
(* two apart, and a transaction that gives the lead away mends them.       *)
(***************************************************************************)
EXTENDS LeadAssignment, SequenceTheorems, TLAPS

USE AssignmentConstants

LEMMA Writers ==
  /\ DOMAIN Program = {"reassign", "refer", "bulk", "put", "auto", "sla", "create", "workflow"}
  /\ OneByOne = DOMAIN Program \ InTransaction /\ NeverClose \subseteq OneByOne
  /\ "put" \in InTransaction /\ "none" \notin DOMAIN Program
  /\ Kinds \subseteq DOMAIN Program
BY DEF Program, OneByOne, InTransaction, NeverClose

\* The programs of the writers, by the place of their statements.
LEMMA Places ==
  ASSUME NEW k \in DOMAIN Program
  PROVE  /\ Len(Program[k]) \in 2..6 /\ SetAt[k] \in 1..5 /\ InsertAt[k] \in 2..7
         /\ k \in InTransaction => Program[k][Len(Program[k])] = "commit"
         /\ k \in InTransaction /\ k # "put" =>
               Len(Program[k]) = 6 /\ SetAt[k] < 6 /\ InsertAt[k] < 6
         /\ k = "put" => Len(Program[k]) = 2 /\ SetAt[k] = 1 /\ InsertAt[k] = 7
         /\ k \in OneByOne => /\ Len(Program[k]) = InsertAt[k]
                              /\ SetAt[k] < InsertAt[k]
         /\ k \in NeverClose => SetAt[k] = 1
         /\ \A i \in 1..Len(Program[k]) :
               /\ Program[k][i] = "insert" <=> i = InsertAt[k]
               /\ Program[k][i] = "close" <=> i = InsertAt[k] - 1 /\ k \notin NeverClose
               /\ Program[k][i] = "scan" <=> i = InsertAt[k] - 2 /\ k \notin NeverClose
               /\ Program[k][i] = "set" <=> i = SetAt[k]
               /\ Program[k][i] = "read" => i = 1 /\ SetAt[k] # 1
               /\ Program[k][i] = "commit" <=> i = Len(Program[k]) /\ k \in InTransaction
               /\ Program[k][i] # "none"
               /\ k \in OneByOne =>
                     (Program[k][i] \in {"read", "set"} <=> i <= SetAt[k])
<1>1. CASE k = "reassign"
  BY <1>1 DEF Program, SetAt, InsertAt, InTransaction, OneByOne, NeverClose
<1>2. CASE k = "refer"
  BY <1>2 DEF Program, SetAt, InsertAt, InTransaction, OneByOne, NeverClose
<1>3. CASE k = "bulk"
  BY <1>3 DEF Program, SetAt, InsertAt, InTransaction, OneByOne, NeverClose
<1>4. CASE k = "auto"
  BY <1>4 DEF Program, SetAt, InsertAt, InTransaction, OneByOne, NeverClose
<1>5. CASE k = "sla"
  BY <1>5 DEF Program, SetAt, InsertAt, InTransaction, OneByOne, NeverClose
<1>6. CASE k = "put"
  BY <1>6 DEF Program, SetAt, InsertAt, InTransaction, OneByOne, NeverClose
<1>7. CASE k = "create"
  BY <1>7 DEF Program, SetAt, InsertAt, InTransaction, OneByOne, NeverClose
<1>8. CASE k = "workflow"
  BY <1>8 DEF Program, SetAt, InsertAt, InTransaction, OneByOne, NeverClose
<1> QED BY <1>1, <1>2, <1>3, <1>4, <1>5, <1>6, <1>7, <1>8, Writers

LEMMA IdleTyped ==
  /\ Idle \in Request /\ Shaped(Idle)
  /\ Idle.at = 0 /\ Idle.from = NoUser /\ Idle.closed = {} /\ ~Idle.inserted
BY DEF Idle, Request, Owners, Shaped

\* The next place of a request.
LEMMA AfterRow ==
  ASSUME NEW r \in Request, r.kind \in DOMAIN Program,
         r.at \in 1..Len(Program[r.kind])
  PROVE  /\ After(r) \in Request
         /\ r.at = Len(Program[r.kind]) => After(r) = Idle
         /\ r.at # Len(Program[r.kind]) =>
               /\ After(r).at = r.at + 1 /\ After(r).kind = r.kind
               /\ After(r).target = r.target /\ After(r).from = r.from
               /\ After(r).seen = r.seen /\ After(r).closed = r.closed
               /\ After(r).inserted = r.inserted /\ After(r).set = r.set
<1>1. PICK n \in 2..6 : n = Len(Program[r.kind])
  BY Places
<1>2. CASE r.at = n
  BY <1>1, <1>2, IdleTyped DEF After
<1>3. CASE r.at # n
  <2>1. After(r) = [r EXCEPT !.at = r.at + 1]
    BY <1>1, <1>3 DEF After
  <2>2. r.at + 1 \in 0..6
    <3>1. PICK m \in 1..n : m = r.at
      BY <1>1
    <3>2. m # n
      BY <1>3, <3>1
    <3>3. m + 1 \in 0..6
      BY <3>2
    <3> QED BY <3>1, <3>3
  <2> QED BY <1>1, <1>3, <2>1, <2>2 DEF Request
<1> QED BY <1>2, <1>3, <1>1

\* A request that goes on has the shape of its next place.
LEMMA AfterShaped ==
  ASSUME NEW r \in Request, r.kind \in Kinds, r.at \in 1..Len(Program[r.kind]),
         r.at # Len(Program[r.kind]), r.kind # "put" => r.target \in User,
         r.set <=> r.kind \in InTransaction /\ r.at >= SetAt[r.kind],
         r.inserted <=> r.kind \in InTransaction /\ r.at >= InsertAt[r.kind],
         r.closed # {} => r.kind \in InTransaction /\ r.at >= InsertAt[r.kind] - 1
  PROVE  Shaped(After(r))
<1>1. r.kind \in DOMAIN Program
  BY Writers
<1>2. PICK n \in 2..6 : n = Len(Program[r.kind])
  BY <1>1, Places
<1>3. PICK st \in 1..5 : st = SetAt[r.kind]
  BY <1>1, Places
<1>4. PICK ins \in 2..7 : ins = InsertAt[r.kind]
  BY <1>1, Places
<1>5. PICK m \in 1..n : m = r.at
  BY <1>2
<1>6. /\ After(r).at = m + 1 /\ After(r).kind = r.kind
      /\ After(r).target = r.target /\ After(r).closed = r.closed
      /\ After(r).inserted = r.inserted /\ After(r).set = r.set
  BY <1>1, <1>5, AfterRow
<1>7. /\ m + 1 # 0 /\ m + 1 <= n /\ (m >= st <=> m + 1 > st)
      /\ (m >= ins <=> m + 1 > ins) /\ (m >= ins - 1 <=> m + 1 >= ins)
  <2>1. m # n
    BY <1>2, <1>5
  <2> QED BY <1>2, <1>3, <1>4, <1>5, <2>1
<1> QED BY <1>2, <1>3, <1>4, <1>5, <1>6, <1>7 DEF Shaped

LEMMA ClosedRows ==
  ASSUME ledger \in Seq(Row), NEW rows
  PROVE  /\ Closed(rows) \in Seq(Row) /\ Len(Closed(rows)) = Len(ledger)
         /\ \A i \in DOMAIN ledger :
               /\ Closed(rows)[i].to = ledger[i].to
               /\ Closed(rows)[i].from = ledger[i].from
               /\ Closed(rows)[i].active <=> ledger[i].active /\ i \notin rows
<1> DEFINE row(i) == [ledger[i] EXCEPT !.active = ledger[i].active /\ i \notin rows]
<1>1. \A i \in DOMAIN ledger :
         /\ row(i) \in Row /\ row(i).to = ledger[i].to /\ row(i).from = ledger[i].from
         /\ row(i).active <=> ledger[i].active /\ i \notin rows
  <2>1. ASSUME NEW r \in Row, NEW b \in BOOLEAN
        PROVE  LET new == [r EXCEPT !.active = b]
               IN  new \in Row /\ new.to = r.to /\ new.from = r.from /\ new.active = b
    BY DEF Row
  <2>2. \A i \in DOMAIN ledger : ledger[i] \in Row
    OBVIOUS
  <2>3. \A i \in DOMAIN ledger : (ledger[i].active /\ i \notin rows) \in BOOLEAN
    BY Zenon
  <2> QED BY <2>1, <2>2, <2>3
<1>2. Closed(rows) = [i \in 1..Len(ledger) |-> row(i)]
  BY DEF Closed
<1> HIDE DEF row
<1> QED BY <1>1, <1>2

LEMMA AppendedRow ==
  ASSUME NEW s \in Seq(Row), NEW r \in Row
  PROVE  /\ Append(s, r) \in Seq(Row) /\ Len(Append(s, r)) = Len(s) + 1
         /\ \A i \in 1..Len(s) : Append(s, r)[i] = s[i]
         /\ Append(s, r)[Len(s) + 1] = r
OBVIOUS

LEMMA InitInv == Init => IInv
<1> SUFFICES ASSUME Init PROVE IInv
  OBVIOUS
<1>1. req = [q \in Req |-> Idle] /\ fresh = TRUE /\ torn = FALSE /\ stray = {}
  BY DEF Init
<1>2. \/ owner = NoUser /\ ledger = <<>>
      \/ \E u \in User : /\ owner = u
                         /\ ledger = <<[from |-> NoUser, to |-> u, active |-> TRUE]>>
  BY DEF Init
<1>1a. /\ req \in [Req -> Request] /\ fresh \in BOOLEAN /\ torn \in BOOLEAN
       /\ stray \subseteq Owners
  BY <1>1, IdleTyped
<1>3. /\ TypeOK /\ Matches /\ FromOwnedIt /\ ActiveRows \subseteq {Len(ledger)}
      /\ owner \in Known \cup {NoUser}
  <2>1. CASE owner = NoUser /\ ledger = <<>>
    <3>1. DOMAIN ledger = {} /\ ActiveRows = {} /\ ledger \in Seq(Row)
      BY <2>1 DEF ActiveRows
    <3> QED BY <1>1a, <2>1, <3>1 DEF TypeOK, Matches, FromOwnedIt, Owners
  <2>2. ASSUME NEW u \in User, owner = u,
               ledger = <<[from |-> NoUser, to |-> u, active |-> TRUE]>>
        PROVE  /\ TypeOK /\ Matches /\ FromOwnedIt
               /\ ActiveRows \subseteq {Len(ledger)} /\ owner \in Known
    <3>1. /\ ledger \in Seq(Row) /\ Len(ledger) = 1 /\ DOMAIN ledger = {1}
          /\ ledger[1] = [from |-> NoUser, to |-> u, active |-> TRUE]
      BY <2>2 DEF Row, Owners
    <3>2. ActiveRows = {1}
      BY <3>1 DEF ActiveRows
    <3>3. u # NoUser
      OBVIOUS
    <3>4. owner \in Known
      BY <2>2, <3>1 DEF Known
    <3>5. TypeOK
      BY <1>1a, <2>2, <3>1 DEF TypeOK, Owners
    <3> QED BY <2>2, <3>1, <3>2, <3>3, <3>4, <3>5 DEF Matches, FromOwnedIt
  <2> QED BY <1>2, <2>1, <2>2
<1>4. \A q \in Req : Shaped(req[q]) /\ req[q].from = NoUser /\ ~HoldsKey(q)
                     /\ req[q].closed = {} /\ ~req[q].inserted /\ ~Undisturbed(q)
  BY <1>1, IdleTyped DEF HoldsKey, Undisturbed, Single, Busy
<1>5. KeyInv
  BY <1>3, <1>4 DEF KeyInv
<1> QED BY <1>3, <1>4, <1>5 DEF IInv, OwnerKnown

-----------------------------------------------------------------------------
(* What the invariant says of a request under way *)

LEMMA AtWork ==
  ASSUME IInv, NEW q \in Req, Busy(q)
  PROVE  /\ req[q] \in Request /\ Shaped(req[q])
         /\ req[q].kind \in DOMAIN Program /\ req[q].kind \in Kinds
         /\ req[q].at \in 1..Len(Program[req[q].kind])
         /\ req[q].kind # "put" => req[q].target \in User
         /\ Statement(q) = Program[req[q].kind][req[q].at]
         /\ Tx(q) <=> req[q].kind \in InTransaction
         /\ Single(q) <=> ~Tx(q)
<1>1. req[q] \in Request /\ Shaped(req[q]) /\ req[q].at # 0
  BY DEF IInv, TypeOK, Busy
<1>2. /\ req[q].kind \in Kinds /\ req[q].at <= Len(Program[req[q].kind])
      /\ req[q].kind # "put" => req[q].target \in User
  BY <1>1 DEF Shaped
<1>3. req[q].kind \in DOMAIN Program
  BY <1>2, Writers
<1>4. PICK n \in 2..6 : n = Len(Program[req[q].kind])
  BY <1>3, Places
<1>5. req[q].at \in 1..n
  BY <1>1, <1>2, <1>4 DEF Request
<1> QED BY <1>1, <1>2, <1>3, <1>4, <1>5, Writers DEF Statement, Tx, Single, Busy

\* Beside a request under way, a writer that commits each statement is told of.
LEMMA Disturbed ==
  ASSUME IInv, NEW q \in Req, Busy(q), NEW p \in Req \ {q}, Single(p)
  PROVE  torn /\ req[p].target \in stray
BY DEF IInv, Undisturbed, AloneInv

LEMMA OwnerOf ==
  ASSUME IInv, NEW q \in Req, Busy(q)
  PROVE  owner \in Known \cup {NoUser} \/ (HasSet(q) /\ owner = req[q].target)
<1>1. ASSUME NEW p \in Req, HasSet(p), owner = req[p].target, p # q PROVE owner \in Known
  BY <1>1, Disturbed DEF HasSet, Known
<1> QED BY <1>1 DEF IInv, OwnerKnown

\* A transaction, or a writer that has not yet set the owner, finds one that is
\* known; untorn, the ledger's.
LEMMA OwnerFound ==
  ASSUME IInv, NEW q \in Req, Busy(q), ~HasSet(q)
  PROVE  owner \in Known \cup {NoUser} /\ (~torn => Matches)
<1>1. ~torn => \A p \in Req : ~HasSet(p)
  BY Disturbed DEF HasSet
<1> QED BY <1>1, OwnerOf DEF IInv

\* What a request holds of the key of the index.
LEMMA KeyOf ==
  ASSUME IInv, NEW q \in Req
  PROVE  /\ req[q].closed \subseteq ActiveRows
         /\ req[q].inserted => ActiveRows = req[q].closed
         /\ HoldsKey(q) => \A p \in Req \ {q} : ~HoldsKey(p)
         /\ HoldsKey(q) => Tx(q)
         /\ req[q].from \in Known \cup {NoUser}
<1>1. HoldsKey(q) => Tx(q)
  <2>1. Shaped(req[q])
    BY DEF IInv
  <2>2. req[q].at = 0 => ~HoldsKey(q)
    BY <2>1, IdleTyped DEF Shaped, HoldsKey
  <2> QED BY <2>1, <2>2 DEF Shaped, HoldsKey, Tx, Busy
<1> QED BY <1>1 DEF IInv, KeyInv

-----------------------------------------------------------------------------
(* How a step of one request keeps the invariant *)

\* Every step of a request under way, in the parts it has to show.
LEMMA Assembled ==
  ASSUME IInv, NEW q \in Req, Busy(q), NEW new \in Request,
         req' = [req EXCEPT ![q] = new],
         owner' \in Owners, ledger' \in Seq(Row), fresh' \in BOOLEAN, torn' \in BOOLEAN,
         stray' \subseteq Owners, stray \subseteq stray', Known \subseteq Known',
         torn /\ (\E p \in Req \ {q} : Single(p)) => torn',
         Shaped(new), KeyInv', FromOwnedIt',
         new.from \in Known' \cup {NoUser},
         owner' \in Known' \cup {NoUser} \/ (HasSet(q)' /\ owner' = new.target),
         Undisturbed(q)' =>
             /\ Undisturbed(q)
             /\ HasSet(q)' => owner' = new.target
             /\ Statement(q)' = "close" => new.seen = Len(ledger')
             /\ Statement(q)' = "insert" /\ new.kind \notin NeverClose => ActiveRows' = {},
         ~torn' /\ ~HasSet(q)' => Matches'
  PROVE  IInv'
<1>1. req'[q] = new /\ \A p \in Req \ {q} : req'[p] = req[p]
  BY DEF IInv, TypeOK
<1>2. TypeOK'
  BY <1>1 DEF IInv, TypeOK
<1>3. \A p \in Req : Shaped(req'[p])
  BY <1>1 DEF IInv
<1>4. \A p \in Req : req'[p].from \in Known' \cup {NoUser}
  BY <1>1 DEF IInv
<1>5. OwnerKnown'
  BY <1>1 DEF OwnerKnown
<1>6. \A p \in Req \ {q} : Single(p)' => Single(p) /\ req'[p] = req[p]
  BY <1>1 DEF Single, Busy
<1>7. ASSUME NEW p \in Req \ {q}, Undisturbed(p)' PROVE FALSE
  <2>1. Single(p) /\ req'[p].target = req[p].target
    BY <1>6, <1>7 DEF Undisturbed
  <2>2. torn /\ req[p].target \in stray
    BY <2>1, Disturbed
  <2>3. torn'
    BY <2>1, <2>2
  <2> QED BY <1>7, <2>1, <2>2, <2>3 DEF Undisturbed
<1>8. Undisturbed(q)' => AloneInv(q)'
  <2>1. SUFFICES ASSUME Undisturbed(q)' PROVE AloneInv(q)'
    OBVIOUS
  <2>2. \A p \in Req : Busy(p) => p = q
    BY <2>1 DEF IInv, AloneInv
  <2>3. \A p \in Req : Busy(p)' => p = q
    BY <1>1, <2>2 DEF Busy
  <2> QED BY <1>1, <2>1, <2>3 DEF AloneInv
<1>9. \A p \in Req : Undisturbed(p)' => AloneInv(p)'
  BY <1>7, <1>8
<1>10. ~torn' /\ (\A p \in Req : ~HasSet(p)') => Matches'
  OBVIOUS
<1> QED BY <1>2, <1>3, <1>4, <1>5, <1>9, <1>10 DEF IInv

\* The key stays with one transaction when only the record of q changes.
LEMMA KeyRecord ==
  ASSUME IInv, NEW q \in Req, NEW new \in Request,
         req' = [req EXCEPT ![q] = new], UNCHANGED ledger,
         new.closed \subseteq ActiveRows, new.inserted => ActiveRows = new.closed,
         new.inserted \/ new.closed # {} => \A p \in Req \ {q} : ~HoldsKey(p)
  PROVE  KeyInv'
<1>1. req'[q] = new /\ \A p \in Req \ {q} : req'[p] = req[p]
  BY DEF IInv, TypeOK
<1>2. ActiveRows' = ActiveRows /\ ActiveRows' \subseteq {Len(ledger')}
  BY DEF ActiveRows, IInv, KeyInv
<1>3. \A p \in Req \ {q} : HoldsKey(p)' <=> HoldsKey(p)
  BY <1>1 DEF HoldsKey
<1>4. HoldsKey(q)' => \A p \in Req \ {q} : ~HoldsKey(p)
  BY <1>1 DEF HoldsKey
<1>5. \A p, r \in Req : HoldsKey(p)' /\ HoldsKey(r)' => p = r
  BY <1>3, <1>4 DEF IInv, KeyInv
<1>6. \A p \in Req : /\ req'[p].closed \subseteq ActiveRows
                     /\ req'[p].inserted => ActiveRows = req'[p].closed
  BY <1>1 DEF IInv, KeyInv
<1> QED BY <1>2, <1>5, <1>6 DEF KeyInv

\* A longer list of strays takes nothing from the history.
LEMMA SameLedger ==
  ASSUME IInv, UNCHANGED ledger, stray \subseteq stray'
  PROVE  FromOwnedIt' /\ Known \subseteq Known' /\ ActiveRows' = ActiveRows
<1>1. FromOwnedIt'
  BY DEF IInv, FromOwnedIt
<1>2. Known \subseteq Known'
  BY DEF Known
<1> QED BY <1>1, <1>2 DEF ActiveRows

\* A request that ends without a row, telling of what it leaves behind.
LEMMA DropKeeps ==
  ASSUME IInv, NEW q \in Req, Busy(q), NEW S \in SUBSET Owners, Tears(S),
         HasSet(q) => req[q].target \in S \/ ~Undisturbed(q),
         req' = [req EXCEPT ![q] = Idle], UNCHANGED <<owner, ledger, fresh>>
  PROVE  IInv'
<1>1. /\ stray' = stray \cup S /\ (torn' <=> torn \/ S # {}) /\ torn' \in BOOLEAN
      /\ stray \subseteq Owners
  BY Zenon DEF Tears, IInv, TypeOK
<1>2. FromOwnedIt' /\ Known \subseteq Known' /\ ActiveRows' = ActiveRows /\ KeyInv'
  BY <1>1, SameLedger, KeyRecord, IdleTyped
<1>3. req'[q] = Idle
  BY DEF IInv, TypeOK
<1>4. ~Busy(q)' /\ ~Undisturbed(q)' /\ ~HasSet(q)'
  BY <1>3, IdleTyped DEF Busy, Undisturbed, Single, HasSet
<1>5. HasSet(q) => torn' /\ req[q].target \in Known'
  BY <1>1 DEF Undisturbed, HasSet, Known
<1>6. owner' \in Known' \cup {NoUser}
  BY <1>2, <1>5, OwnerOf
<1>7. ~torn' => Matches'
  <2>1. Matches' <=> Matches
    BY <1>2 DEF Matches
  <2> QED BY <1>1, <1>5, <2>1, OwnerFound
<1>8. owner' \in Owners /\ ledger' \in Seq(Row) /\ fresh' \in BOOLEAN
  BY DEF IInv, TypeOK
<1> QED BY <1>1, <1>2, <1>4, <1>6, <1>7, <1>8, IdleTyped, Assembled

LEMMA FailKeeps ==
  ASSUME IInv, NEW q \in Req, Fail(q)
  PROVE  IInv'
<1> DEFINE S == {u \in {req[q].target} : HasSet(q)}
<1>1. /\ Busy(q) /\ Tears(S) /\ req' = [req EXCEPT ![q] = Idle]
      /\ UNCHANGED <<owner, ledger, fresh>>
  BY DEF Fail
<1>2. req[q].target \in Owners
  BY <1>1, AtWork DEF Request
<1>3. S \in SUBSET Owners /\ (HasSet(q) => req[q].target \in S)
  BY <1>2
<1> HIDE DEF S
<1> QED BY <1>1, <1>3, DropKeeps

LEMMA NoTears ==
  ASSUME UNCHANGED <<torn, stray>>, TypeOK
  PROVE  Tears({})
BY DEF Tears, TypeOK

LEMMA DeadlockedKeeps ==
  ASSUME IInv, NEW q \in Req, Deadlocked(q)
  PROVE  IInv'
<1>1. Tx(q) /\ Busy(q)
  BY DEF Deadlocked, Victim, WaitsFor, Tx
<1>2. ~HasSet(q)
  BY <1>1, AtWork DEF HasSet
<1>3. Tears({})
  BY NoTears DEF Deadlocked, IInv
<1> QED BY <1>1, <1>2, <1>3, DropKeeps DEF Deadlocked

LEMMA InsertFailsKeeps ==
  ASSUME IInv, NEW q \in Req, InsertFails(q)
  PROVE  IInv'
<1> DEFINE S == {u \in {req[q].target} : req[q].kind \in NeverClose}
<1>1. /\ Statement(q) = "insert" /\ Busy(q) /\ Conflicts(q) /\ Tears(S)
      /\ req' = [req EXCEPT ![q] = Idle] /\ UNCHANGED <<owner, ledger, fresh>>
  BY DEF InsertFails, Runs, Statement
<1>2. req[q].target \in Owners
  BY <1>1, AtWork DEF Request
<1>3. S \in SUBSET Owners
  BY <1>2
<1>4. ASSUME HasSet(q), req[q].kind \notin NeverClose, Undisturbed(q) PROVE FALSE
  BY <1>1, <1>4 DEF IInv, AloneInv, Conflicts
<1>5. HasSet(q) => req[q].target \in S \/ ~Undisturbed(q)
  BY <1>4
<1> HIDE DEF S
<1> QED BY <1>1, <1>3, <1>5, DropKeeps

-----------------------------------------------------------------------------
(* The statements *)

\* A statement of q that changes neither the committed owner nor the ledger.
LEMMA AdvanceKeeps ==
  ASSUME IInv, NEW q \in Req, Busy(q), NEW r \in Request,
         r.kind = req[q].kind, r.at = req[q].at, r.target = req[q].target,
         r.at # Len(Program[r.kind]),
         req' = [req EXCEPT ![q] = After(r)],
         UNCHANGED <<owner, ledger, fresh, torn, stray>>,
         r.from \in Known \cup {NoUser},
         r.set <=> r.kind \in InTransaction /\ r.at >= SetAt[r.kind],
         r.inserted <=> r.kind \in InTransaction /\ r.at >= InsertAt[r.kind],
         r.closed # {} => r.kind \in InTransaction /\ r.at >= InsertAt[r.kind] - 1,
         ~Tx(q) => /\ r.at # SetAt[r.kind] /\ r.at # InsertAt[r.kind] - 1
                   /\ r.at = InsertAt[r.kind] - 2 => r.seen = Len(ledger),
         r.closed \subseteq ActiveRows, r.inserted => ActiveRows = r.closed,
         r.inserted \/ r.closed # {} => \A p \in Req \ {q} : ~HoldsKey(p)
  PROVE  IInv'
<1>1. PICK k \in DOMAIN Program : k = req[q].kind /\ k \in Kinds
  BY AtWork
<1>2. PICK n \in 2..6 : n = Len(Program[k])
  BY Places
<1>3. PICK st \in 1..5 : st = SetAt[k]
  BY Places
<1>4. PICK ins \in 2..7 : ins = InsertAt[k]
  BY Places
<1>5. PICK m \in 1..n : m = r.at
  BY <1>1, <1>2, AtWork
<1>6. m # n
  BY <1>1, <1>2, <1>5
<1>7. /\ m + 1 \in 1..n /\ m + 1 # 0
      /\ (m # st => (m <= st <=> m + 1 <= st))
      /\ (m # ins - 1 => m + 1 # ins) /\ (m + 1 = ins - 1 => m = ins - 2)
  BY <1>2, <1>3, <1>4, <1>5, <1>6
<1>8. PICK new : new = After(r)
  OBVIOUS
<1>9. /\ new \in Request /\ new.at = m + 1 /\ new.kind = k /\ new.target = req[q].target
      /\ new.from = r.from /\ new.seen = r.seen /\ new.closed = r.closed
      /\ new.inserted = r.inserted /\ new.set = r.set
  BY <1>1, <1>2, <1>5, <1>6, <1>8, AfterRow
<1>10. Shaped(new)
  <2>1. r.kind # "put" => r.target \in User
    BY AtWork
  <2>2. r.kind \in Kinds /\ r.at \in 1..Len(Program[r.kind])
    BY <1>1, <1>2, <1>5
  <2> QED BY <1>8, <2>1, <2>2, AfterShaped
<1>11. req' = [req EXCEPT ![q] = new] /\ req'[q] = new
  BY <1>8 DEF IInv, TypeOK
<1>12. /\ Busy(q)' /\ Statement(q)' = Program[k][m + 1] /\ Statement(q) = Program[k][m]
       /\ (Single(q)' <=> ~Tx(q)) /\ (Single(q) <=> ~Tx(q)) /\ (~Tx(q) <=> k \in OneByOne)
  <2>1. Busy(q)' /\ Statement(q)' = Program[k][m + 1]
    BY <1>7, <1>9, <1>11 DEF Busy, Statement
  <2>2. Statement(q) = Program[k][m] /\ (Single(q) <=> ~Tx(q))
        /\ (~Tx(q) <=> k \in OneByOne)
    BY <1>1, <1>5, AtWork, Writers
  <2>3. Single(q)' <=> k \in OneByOne
    BY <1>9, <1>11, <2>1 DEF Single
  <2> QED BY <2>1, <2>2, <2>3
<1>13. HasSet(q)' <=> HasSet(q)
  <2>1. CASE Tx(q)
    BY <1>12, <2>1 DEF HasSet
  <2>2. CASE ~Tx(q)
    <3>1. /\ Program[k][m] \in {"read", "set"} <=> m <= st
          /\ Program[k][m + 1] \in {"read", "set"} <=> m + 1 <= st
      BY <1>2, <1>3, <1>7, <1>12, <2>2, Places
    <3>2. m # st
      BY <1>1, <1>3, <1>5, <2>2
    <3> QED BY <1>7, <1>12, <2>2, <3>1, <3>2 DEF HasSet
  <2> QED BY <2>1, <2>2
<1>14. /\ FromOwnedIt' /\ Known \subseteq Known' /\ ActiveRows' = ActiveRows /\ KeyInv'
       /\ Matches' <=> Matches
  <2>1. FromOwnedIt' /\ Known \subseteq Known' /\ ActiveRows' = ActiveRows
    BY SameLedger
  <2>2. /\ new.closed \subseteq ActiveRows /\ (new.inserted => ActiveRows = new.closed)
        /\ new.inserted \/ new.closed # {} => \A p \in Req \ {q} : ~HoldsKey(p)
        /\ new \in Request /\ req' = [req EXCEPT ![q] = new]
    BY <1>9, <1>11
  <2>3. KeyInv'
    BY <2>2, KeyRecord
  <2> QED BY <2>1, <2>3 DEF Matches
<1>15. owner' \in Known' \cup {NoUser} \/ (HasSet(q)' /\ owner' = new.target)
  BY <1>9, <1>13, <1>14, OwnerOf
<1>16. ASSUME Undisturbed(q)'
       PROVE  /\ Undisturbed(q)
              /\ HasSet(q)' => owner' = new.target
              /\ Statement(q)' = "close" => new.seen = Len(ledger')
              /\ Statement(q)' = "insert" /\ new.kind \notin NeverClose => ActiveRows' = {}
  <2>1. Undisturbed(q) /\ ~Tx(q)
    BY <1>9, <1>11, <1>12, <1>16 DEF Undisturbed
  <2>2. HasSet(q) => owner = req[q].target
    BY <2>1 DEF IInv, AloneInv
  <2>3. m # ins - 1 /\ (m = ins - 2 => r.seen = Len(ledger))
    BY <1>1, <1>4, <1>5, <2>1
  <2>4. Statement(q)' # "insert" /\ (Statement(q)' = "close" => m + 1 = ins - 1)
    BY <1>2, <1>4, <1>7, <1>12, <2>3, Places
  <2> QED BY <1>7, <1>9, <1>13, <2>1, <2>2, <2>3, <2>4
<1>17. ~torn' /\ ~HasSet(q)' => Matches'
  BY <1>13, <1>14, OwnerFound
<1>18. /\ owner' \in Owners /\ ledger' \in Seq(Row) /\ fresh' \in BOOLEAN
       /\ torn' \in BOOLEAN /\ stray' \subseteq Owners /\ stray \subseteq stray'
       /\ new.from \in Known' \cup {NoUser} /\ (torn => torn')
  BY <1>9, <1>14 DEF IInv, TypeOK
<1> QED BY <1>9, <1>10, <1>11, <1>14, <1>15, <1>16, <1>17, <1>18, Assembled

\* Where a request is when it runs each of its statements.
LEMMA StatementPlace ==
  ASSUME IInv, NEW q \in Req, Busy(q)
  PROVE  LET k == req[q].kind  at == req[q].at
         IN  /\ Statement(q) = "read" => at = 1 /\ SetAt[k] # 1
             /\ Statement(q) = "scan" <=> at = InsertAt[k] - 2 /\ k \notin NeverClose
             /\ Statement(q) = "close" <=> at = InsertAt[k] - 1 /\ k \notin NeverClose
             /\ Statement(q) = "insert" <=> at = InsertAt[k]
             /\ Statement(q) = "set" <=> at = SetAt[k]
             /\ Statement(q) = "commit" <=> at = Len(Program[k]) /\ k \in InTransaction
             /\ Single(q) => (HasSet(q) <=> at > SetAt[k])
<1>1. PICK k \in DOMAIN Program : k = req[q].kind
  BY AtWork
<1>2. PICK n \in 2..6 : n = Len(Program[k])
  BY Places
<1>3. PICK st \in 1..5 : st = SetAt[k]
  BY Places
<1>4. PICK m \in 1..n : m = req[q].at
  BY <1>1, <1>2, AtWork
<1>5. Statement(q) = Program[k][m] /\ (Single(q) <=> k \in OneByOne)
  BY <1>1, <1>4, AtWork, Writers
<1>6. /\ Program[k][m] = "insert" <=> m = InsertAt[k]
      /\ Program[k][m] = "close" <=> m = InsertAt[k] - 1 /\ k \notin NeverClose
      /\ Program[k][m] = "scan" <=> m = InsertAt[k] - 2 /\ k \notin NeverClose
      /\ Program[k][m] = "set" <=> m = SetAt[k]
      /\ Program[k][m] = "read" => m = 1 /\ SetAt[k] # 1
      /\ Program[k][m] = "commit" <=> m = Len(Program[k]) /\ k \in InTransaction
      /\ k \in OneByOne => (Program[k][m] \in {"read", "set"} <=> m <= SetAt[k])
  BY <1>2, Places
<1>7. Single(q) => (HasSet(q) <=> m > SetAt[k])
  BY <1>3, <1>5, <1>6 DEF HasSet
<1> QED BY <1>1, <1>4, <1>5, <1>6, <1>7

\* The fields that the shape of a record gives by its place.
LEMMA Written ==
  ASSUME IInv, NEW q \in Req, Busy(q)
  PROVE  LET r == req[q]
         IN  /\ r.set <=> r.kind \in InTransaction /\ r.at > SetAt[r.kind]
             /\ r.inserted <=> r.kind \in InTransaction /\ r.at > InsertAt[r.kind]
             /\ r.closed # {} => r.kind \in InTransaction /\ r.at >= InsertAt[r.kind]
BY AtWork DEF Shaped, Busy

LEMMA ReadOwnerKeeps ==
  ASSUME IInv, NEW q \in Req, ReadOwner(q)
  PROVE  IInv'
<1>1. Busy(q) /\ Statement(q) = "read" /\ UNCHANGED <<owner, ledger, fresh, torn, stray>>
  BY DEF ReadOwner, Runs, Statement
<1>2. PICK k \in DOMAIN Program : k = req[q].kind
  BY <1>1, AtWork
<1>3. PICK n \in 2..6 : n = Len(Program[k])
  BY Places
<1>4. PICK st \in 1..5 : st = SetAt[k]
  BY Places
<1>5. PICK ins \in 2..7 : ins = InsertAt[k]
  BY Places
<1>6. req[q].at = 1 /\ st # 1 /\ k # "put" /\ k \notin NeverClose
  BY <1>1, <1>2, <1>4, StatementPlace, Places
<1>7. ~HasSet(q)
  BY <1>1 DEF HasSet
<1>8. /\ 1 # n /\ ~(1 > ins) /\ ~(1 > st) /\ ~(1 >= ins) /\ ~(1 >= st)
      /\ ~(1 >= ins - 1) /\ 1 # ins - 1 /\ 1 # ins - 2
  <2>1. ins > 3
    <3>1. k \in {"reassign", "refer", "bulk", "auto", "sla"}
      BY <1>6, Writers DEF NeverClose
    <3> QED BY <1>5, <3>1 DEF InsertAt
  <2> QED BY <1>3, <1>4, <1>5, <1>6, <2>1
<1>9. /\ ~req[q].inserted /\ ~req[q].set /\ req[q].closed = {}
  BY <1>1, <1>2, <1>4, <1>5, <1>6, <1>8, Written
<1>10. CASE Skips(req[q])
  <2>1. Tears({}) /\ {} \in SUBSET Owners
    BY <1>1, NoTears DEF IInv
  <2>2. req' = [req EXCEPT ![q] = Idle]
    BY <1>10 DEF ReadOwner
  <2> QED BY <1>1, <1>7, <2>1, <2>2, DropKeeps
<1>11. CASE ~Skips(req[q])
  <2> DEFINE r == [req[q] EXCEPT !.from = owner]
  <2>1. req' = [req EXCEPT ![q] = After(r)]
    BY <1>11 DEF ReadOwner
  <2>2. /\ r \in Request /\ r.kind = k /\ r.at = 1 /\ r.target = req[q].target
        /\ r.from = owner /\ r.closed = {} /\ ~r.inserted /\ ~r.set
    BY <1>1, <1>2, <1>6, <1>9, AtWork DEF Request, IInv, TypeOK
  <2>3. owner \in Known \cup {NoUser}
    BY <1>1, <1>7, OwnerFound
  <2> HIDE DEF r
  <2>4. /\ r.set <=> r.kind \in InTransaction /\ r.at >= SetAt[r.kind]
        /\ r.inserted <=> r.kind \in InTransaction /\ r.at >= InsertAt[r.kind]
        /\ r.at # SetAt[r.kind] /\ r.at # InsertAt[r.kind] - 1
        /\ r.at # InsertAt[r.kind] - 2 /\ r.at # Len(Program[r.kind])
    BY <1>3, <1>4, <1>5, <1>6, <1>8, <2>2
  <2> QED BY <1>1, <1>2, <1>6, <2>1, <2>2, <2>3, <2>4, AdvanceKeeps
<1> QED BY <1>10, <1>11

LEMMA ScanActiveKeeps ==
  ASSUME IInv, NEW q \in Req, ScanActive(q)
  PROVE  IInv'
<1> DEFINE r == [req[q] EXCEPT !.seen = Len(ledger)]
<1>1. /\ Busy(q) /\ Statement(q) = "scan" /\ req' = [req EXCEPT ![q] = After(r)]
      /\ UNCHANGED <<owner, ledger, fresh, torn, stray>>
  BY DEF ScanActive, Runs, Statement
<1>2. PICK k \in DOMAIN Program : k = req[q].kind
  BY <1>1, AtWork
<1>3. PICK n \in 2..6 : n = Len(Program[k])
  BY Places
<1>4. PICK st \in 1..5 : st = SetAt[k]
  BY Places
<1>5. PICK ins \in 2..7 : ins = InsertAt[k]
  BY Places
<1>6. PICK m \in 1..n : m = req[q].at
  BY <1>1, <1>2, <1>3, AtWork
<1>7. m = ins - 2 /\ m # n /\ m # st
  <2>1. m = ins - 2 /\ m # st
    BY <1>1, <1>2, <1>4, <1>5, <1>6, StatementPlace
  <2>2. Program[k][n] \in {"commit", "insert"}
    BY <1>3, Places, Writers
  <2>3. Statement(q) = Program[k][m]
    BY <1>1, <1>2, <1>6, AtWork
  <2> QED BY <1>1, <2>1, <2>2, <2>3
<1>8. /\ ~(m >= ins) /\ ~(m > ins) /\ ~(m >= ins - 1) /\ m # ins - 1
      /\ (m > st <=> m >= st)
  BY <1>7
<1>9. /\ req[q].set <=> k \in InTransaction /\ m > st
      /\ ~req[q].inserted /\ req[q].closed = {}
  <2>1. /\ req[q].inserted <=> k \in InTransaction /\ m > ins
        /\ req[q].closed # {} => k \in InTransaction /\ m >= ins
        /\ req[q].set <=> k \in InTransaction /\ m > st
    BY <1>1, <1>2, <1>4, <1>5, <1>6, Written
  <2> QED BY <1>8, <2>1
<1>10. Len(ledger) \in Nat
  BY DEF IInv, TypeOK
<1>11. /\ r \in Request /\ r.kind = k /\ r.at = m /\ r.target = req[q].target
       /\ r.from = req[q].from /\ r.seen = Len(ledger) /\ r.closed = {}
       /\ ~r.inserted /\ r.set = req[q].set
  BY <1>1, <1>2, <1>6, <1>9, <1>10, AtWork DEF Request
<1> HIDE DEF r
<1>12. /\ r.set <=> r.kind \in InTransaction /\ r.at >= SetAt[r.kind]
       /\ r.inserted <=> r.kind \in InTransaction /\ r.at >= InsertAt[r.kind]
       /\ r.at # Len(Program[r.kind])
       /\ r.at # SetAt[r.kind] /\ r.at # InsertAt[r.kind] - 1
  BY <1>3, <1>4, <1>5, <1>7, <1>8, <1>9, <1>11
<1>13. r.from \in Known \cup {NoUser}
  BY <1>11, KeyOf
<1> QED BY <1>1, <1>2, <1>6, <1>11, <1>12, <1>13, AdvanceKeeps

LEMMA SetOwnerKeeps ==
  ASSUME IInv, NEW q \in Req, SetOwner(q)
  PROVE  IInv'
<1> DEFINE r == [req[q] EXCEPT !.set = Tx(q)]
<1>1. /\ Busy(q) /\ Statement(q) = "set" /\ req' = [req EXCEPT ![q] = After(r)]
      /\ UNCHANGED <<ledger, fresh, torn, stray>>
      /\ owner' = IF Tx(q) THEN owner ELSE req[q].target
  BY DEF SetOwner, Runs, Statement
<1>2. PICK k \in DOMAIN Program : k = req[q].kind /\ k \in Kinds
  BY <1>1, AtWork
<1>3. PICK n \in 2..6 : n = Len(Program[k])
  BY Places
<1>4. PICK st \in 1..5 : st = SetAt[k]
  BY Places
<1>5. PICK ins \in 2..7 : ins = InsertAt[k]
  BY Places
<1>6. PICK m \in 1..n : m = req[q].at
  BY <1>1, <1>2, <1>3, AtWork
<1>7. m = st /\ m # n
  <2>1. m = st
    BY <1>1, <1>2, <1>4, <1>6, StatementPlace
  <2>2. Program[k][n] \in {"commit", "insert"}
    BY <1>3, Places, Writers
  <2>3. Statement(q) = Program[k][m]
    BY <1>1, <1>2, <1>6, AtWork
  <2> QED BY <1>1, <2>1, <2>2, <2>3
<1>8. m # ins /\ (m # ins - 1 \/ k \in NeverClose)
  <2>1. Program[k][m] = "set"
    BY <1>1, <1>2, <1>6, AtWork
  <2>2. m = ins => Program[k][m] = "insert"
    BY <1>3, <1>5, Places
  <2>3. m = ins - 1 /\ k \notin NeverClose => Program[k][m] = "close"
    BY <1>3, <1>5, Places
  <2> QED BY <2>1, <2>2, <2>3
<1>9. /\ req[q].inserted <=> k \in InTransaction /\ m > ins
      /\ req[q].closed # {} => k \in InTransaction /\ m >= ins
      /\ req[q].set <=> k \in InTransaction /\ m > st
  BY <1>1, <1>2, <1>4, <1>5, <1>6, Written
<1>10. Tx(q) \in BOOLEAN /\ (Tx(q) <=> k \in InTransaction) /\ (Single(q) <=> ~Tx(q))
  <2>1. Tx(q) \in BOOLEAN
    BY Zenon DEF Tx
  <2> QED BY <1>1, <1>2, <2>1, AtWork
<1>11. /\ r \in Request /\ r.kind = k /\ r.at = m /\ r.target = req[q].target
       /\ r.from = req[q].from /\ r.seen = req[q].seen /\ r.closed = req[q].closed
       /\ r.inserted = req[q].inserted /\ r.set = Tx(q)
  <2>1. req[q] \in Request
    BY <1>1, AtWork
  <2> QED BY <1>2, <1>6, <1>10, <2>1 DEF Request
<1> HIDE DEF r
<1>12. /\ r.set <=> r.kind \in InTransaction /\ r.at >= SetAt[r.kind]
       /\ r.inserted <=> r.kind \in InTransaction /\ r.at >= InsertAt[r.kind]
       /\ r.closed # {} => r.kind \in InTransaction /\ r.at >= InsertAt[r.kind] - 1
       /\ r.at # Len(Program[r.kind])
  <2>1. (m > ins <=> m >= ins) /\ (m >= ins => m >= ins - 1) /\ m >= st
    BY <1>7, <1>8
  <2> QED BY <1>3, <1>4, <1>5, <1>7, <1>9, <1>10, <1>11, <2>1
<1>13. /\ r.from \in Known \cup {NoUser}
       /\ r.closed \subseteq ActiveRows /\ (r.inserted => ActiveRows = r.closed)
       /\ r.inserted \/ r.closed # {} => \A p \in Req \ {q} : ~HoldsKey(p)
  BY <1>11, KeyOf DEF HoldsKey
<1>14. CASE Tx(q)
  BY <1>1, <1>2, <1>6, <1>11, <1>12, <1>13, <1>14, AdvanceKeeps
<1>15. CASE ~Tx(q)
  <2>1. PICK new : new = After(r)
    OBVIOUS
  <2>2. /\ new \in Request /\ new.at = m + 1 /\ new.kind = k /\ new.target = req[q].target
        /\ new.from = r.from /\ new.closed = r.closed /\ new.inserted = r.inserted
    BY <1>3, <1>6, <1>7, <1>11, <2>1, AfterRow
  <2>3. Shaped(new)
    <3>1. r.kind # "put" => r.target \in User
      BY <1>1, <1>2, <1>11, AtWork
    <3>2. r.kind \in Kinds /\ r.at \in 1..Len(Program[r.kind])
      BY <1>2, <1>3, <1>6, <1>11
    <3> QED BY <1>11, <1>12, <2>1, <3>1, <3>2, AfterShaped
  <2>4. req' = [req EXCEPT ![q] = new] /\ req'[q] = new
    BY <1>1, <2>1 DEF IInv, TypeOK
  <2>5. /\ Busy(q)' /\ Statement(q)' = Program[k][m + 1] /\ Single(q)' /\ Single(q)
        /\ k \in OneByOne /\ m + 1 \in 1..n
    <3>1. m + 1 # 0 /\ m + 1 \in 1..n
      BY <1>3, <1>7
    <3>2. Busy(q)' /\ Statement(q)' = Program[k][m + 1]
      BY <2>2, <2>4, <3>1 DEF Busy, Statement
    <3> QED BY <1>10, <1>15, <2>2, <2>4, <3>1, <3>2, Writers DEF Single
  <2>6. HasSet(q)'
    <3>1. ~(m + 1 <= st)
      BY <1>7
    <3> QED BY <1>3, <1>4, <2>5, <3>1, Places DEF HasSet
  <2>7. FromOwnedIt' /\ Known \subseteq Known' /\ ActiveRows' = ActiveRows
    BY <1>1, SameLedger
  <2>8. KeyInv'
    <3>1. /\ new.closed \subseteq ActiveRows /\ (new.inserted => ActiveRows = new.closed)
          /\ new.inserted \/ new.closed # {} => \A p \in Req \ {q} : ~HoldsKey(p)
      BY <1>13, <2>2
    <3> QED BY <1>1, <2>2, <2>4, <3>1, KeyRecord
  <2>9. owner' = new.target /\ owner' \in Owners
    <3>1. req[q].target \in Owners
      BY <1>1, AtWork DEF Request
    <3> QED BY <1>1, <1>15, <2>2, <3>1
  <2>10. Statement(q)' # "close" /\ (Statement(q)' = "insert" => new.kind \in NeverClose)
    <3>1. k \in NeverClose \/ m # ins - 1
      BY <1>8
    <3>2. k \in NeverClose \/ Program[k][m + 1] # "insert"
      <4>1. m + 1 # ins \/ m = ins - 1
        BY <1>5, <1>6
      <4> QED BY <1>3, <1>5, <2>5, <3>1, <4>1, Places
    <3>3. Program[k][m + 1] # "close"
      <4>1. CASE k \in NeverClose
        BY <1>3, <2>5, <4>1, Places
      <4>2. CASE k \notin NeverClose
        <5>1. k \in {"auto", "sla"}
          BY <2>5, <4>2, Writers DEF NeverClose, InTransaction
        <5>2. m + 1 # ins - 1
          BY <1>4, <1>5, <1>7, <5>1 DEF SetAt, InsertAt
        <5> QED BY <1>3, <1>5, <2>5, <5>2, Places
      <4> QED BY <4>1, <4>2
    <3> QED BY <2>2, <2>5, <3>2, <3>3
  <2>11. Undisturbed(q)' => Undisturbed(q)
    BY <1>1, <2>2, <2>4, <2>5 DEF Undisturbed
  <2>12. /\ ledger' \in Seq(Row) /\ fresh' \in BOOLEAN /\ torn' \in BOOLEAN
         /\ stray' \subseteq Owners /\ stray \subseteq stray' /\ (torn => torn')
         /\ new.from \in Known' \cup {NoUser}
    BY <1>1, <1>13, <2>2, <2>7 DEF IInv, TypeOK
  <2> QED BY <1>1, <2>2, <2>3, <2>4, <2>6, <2>7, <2>8, <2>9, <2>10, <2>11, <2>12, Assembled
<1> QED BY <1>14, <1>15

LEMMA CloseActiveKeeps ==
  ASSUME IInv, NEW q \in Req, CloseActive(q)
  PROVE  IInv'
<1>1. /\ Busy(q) /\ Statement(q) = "close" /\ UNCHANGED <<owner, fresh, torn, stray>>
      /\ \A p \in Req : ~WaitsFor(q, p)
  BY DEF CloseActive, Runs, Statement
<1>2. PICK k \in DOMAIN Program : k = req[q].kind /\ k \in Kinds
  BY <1>1, AtWork
<1>3. PICK n \in 2..6 : n = Len(Program[k])
  BY Places
<1>4. PICK st \in 1..5 : st = SetAt[k]
  BY Places
<1>5. PICK ins \in 2..7 : ins = InsertAt[k]
  BY Places
<1>6. PICK m \in 1..n : m = req[q].at
  BY <1>1, <1>2, <1>3, AtWork
<1>7. m = ins - 1 /\ m # n /\ m # st /\ k \notin NeverClose
  <2>1. m = ins - 1 /\ m # st /\ k \notin NeverClose
    BY <1>1, <1>2, <1>4, <1>5, <1>6, StatementPlace
  <2>2. Program[k][n] \in {"commit", "insert"}
    BY <1>3, Places, Writers
  <2>3. Statement(q) = Program[k][m]
    BY <1>1, <1>2, <1>6, AtWork
  <2> QED BY <1>1, <2>1, <2>2, <2>3
<1>8. ~(m >= ins) /\ ~(m > ins) /\ m >= ins - 1 /\ (m > st <=> m >= st)
  BY <1>7
<1>9. /\ req[q].set <=> k \in InTransaction /\ m > st
      /\ ~req[q].inserted /\ req[q].closed = {}
  <2>1. /\ req[q].inserted <=> k \in InTransaction /\ m > ins
        /\ req[q].closed # {} => k \in InTransaction /\ m >= ins
        /\ req[q].set <=> k \in InTransaction /\ m > st
    BY <1>1, <1>2, <1>4, <1>5, <1>6, Written
  <2> QED BY <1>8, <2>1
<1>10. /\ ledger \in Seq(Row) /\ ActiveRows \subseteq {Len(ledger)}
       /\ ToClose(q) \subseteq ActiveRows /\ ActiveRows \subseteq DOMAIN ledger
       /\ ToClose(q) \in SUBSET Nat
  BY DEF IInv, TypeOK, KeyInv, ToClose, ActiveRows
<1>11. (Tx(q) <=> k \in InTransaction) /\ (Single(q) <=> ~Tx(q)) /\ req[q] \in Request
       /\ (~Tx(q) <=> k \in OneByOne)
  BY <1>1, <1>2, AtWork, Writers
<1>12. CASE Tx(q)
  <2> DEFINE r == [req[q] EXCEPT !.closed = ToClose(q)]
  <2>1. req' = [req EXCEPT ![q] = After(r)] /\ UNCHANGED <<owner, ledger, fresh, torn, stray>>
    BY <1>1, <1>12 DEF CloseActive
  <2>2. /\ r \in Request /\ r.kind = k /\ r.at = m /\ r.target = req[q].target
        /\ r.from = req[q].from /\ r.closed = ToClose(q)
        /\ ~r.inserted /\ r.set = req[q].set
    BY <1>2, <1>6, <1>9, <1>10, <1>11 DEF Request
  <2> HIDE DEF r
  <2>3. /\ r.set <=> r.kind \in InTransaction /\ r.at >= SetAt[r.kind]
        /\ r.inserted <=> r.kind \in InTransaction /\ r.at >= InsertAt[r.kind]
        /\ r.closed # {} => r.kind \in InTransaction /\ r.at >= InsertAt[r.kind] - 1
        /\ r.at # Len(Program[r.kind])
    BY <1>3, <1>4, <1>5, <1>7, <1>8, <1>9, <1>11, <1>12, <2>2
  <2>4. r.from \in Known \cup {NoUser} /\ r.closed \subseteq ActiveRows
    BY <1>10, <2>2, KeyOf
  <2>5. ASSUME r.closed # {}, NEW p \in Req \ {q} PROVE ~HoldsKey(p)
    <3>1. SUFFICES ASSUME HoldsKey(p) PROVE FALSE
      OBVIOUS
    <3>2. Tx(p) /\ req[p].closed \subseteq ActiveRows
          /\ (req[p].inserted => ActiveRows = req[p].closed)
      BY <3>1, KeyOf
    <3>3. req[p].closed \cap ToClose(q) = {}
      BY <1>1, <3>2 DEF WaitsFor
    <3>4. ToClose(q) = ActiveRows /\ ActiveRows # {}
      BY <1>10, <2>2, <2>5
    <3> QED BY <3>1, <3>2, <3>3, <3>4 DEF HoldsKey
  <2> QED BY <1>1, <1>2, <1>6, <1>12, <2>1, <2>2, <2>3, <2>4, <2>5, AdvanceKeeps
<1>13. CASE ~Tx(q)
  <2>1. PICK new : new = After(req[q])
    OBVIOUS
  <2>2. req' = [req EXCEPT ![q] = new] /\ ledger' = Closed(ToClose(q))
    BY <1>13, <2>1 DEF CloseActive
  <2>3. /\ new \in Request /\ new.at = m + 1 /\ new.kind = k
        /\ new.target = req[q].target /\ new.from = req[q].from
        /\ new.closed = {} /\ ~new.inserted
    BY <1>2, <1>3, <1>6, <1>7, <1>9, <1>11, <2>1, AfterRow
  <2>4. Shaped(new)
    <3>1. req[q].kind # "put" => req[q].target \in User
      BY <1>1, AtWork
    <3>2. /\ req[q].kind \in Kinds /\ req[q].at \in 1..Len(Program[req[q].kind])
          /\ req[q].at # Len(Program[req[q].kind])
          /\ req[q].set <=> req[q].kind \in InTransaction /\ req[q].at >= SetAt[req[q].kind]
          /\ req[q].inserted
             <=> req[q].kind \in InTransaction /\ req[q].at >= InsertAt[req[q].kind]
      BY <1>2, <1>3, <1>4, <1>5, <1>6, <1>7, <1>8, <1>9
    <3> QED BY <1>9, <1>11, <2>1, <3>1, <3>2, AfterShaped
  <2>5. req'[q] = new /\ \A p \in Req \ {q} : req'[p] = req[p]
    BY <2>2 DEF IInv, TypeOK
  <2>6. m + 1 # 0 /\ m + 1 \in 1..n /\ m + 1 = ins /\ ~(m <= st) /\ ~(m + 1 <= st)
    <3>1. st < ins
      BY <1>4, <1>5, <1>11, <1>13, Places
    <3> QED BY <1>3, <1>4, <1>5, <1>7, <3>1
  <2>7. /\ Busy(q)' /\ Statement(q)' = "insert" /\ Single(q)' /\ Single(q)
        /\ HasSet(q)' /\ HasSet(q)
    <3>1. Busy(q)' /\ Statement(q)' = Program[k][m + 1] /\ Statement(q) = "close"
      BY <1>1, <2>3, <2>5, <2>6 DEF Busy, Statement
    <3>2. Program[k][m + 1] = "insert"
      BY <1>3, <1>5, <2>6, Places
    <3>3. Single(q)' /\ Single(q)
      BY <1>11, <1>13, <2>3, <2>5, <3>1 DEF Single
    <3> QED BY <3>1, <3>2, <3>3 DEF HasSet
  <2>8. /\ ledger' \in Seq(Row) /\ Len(ledger') = Len(ledger)
        /\ \A i \in DOMAIN ledger : /\ ledger'[i].to = ledger[i].to
                                    /\ ledger'[i].from = ledger[i].from
                                    /\ ledger'[i].active <=> ledger[i].active /\ i \notin ToClose(q)
    BY <1>10, <2>2, ClosedRows
  <2>9. DOMAIN ledger' = DOMAIN ledger
    BY <1>10, <2>8
  <2>10. ActiveRows' = ActiveRows \ ToClose(q)
    BY <2>8, <2>9 DEF ActiveRows
  <2>11. Known' = Known
    <3>1. {ledger'[i].to : i \in DOMAIN ledger'} = {ledger[i].to : i \in DOMAIN ledger}
      BY <2>8, <2>9
    <3> QED BY <1>1, <3>1 DEF Known
  <2>12. FromOwnedIt'
    <3>1. ASSUME NEW i \in DOMAIN ledger, ledger'[i].from # NoUser, ledger'[i].from \notin stray'
          PROVE  \E j \in 1..(i - 1) : ledger'[j].to = ledger'[i].from
      <4>1. PICK j \in 1..(i - 1) : ledger[j].to = ledger[i].from
        BY <1>1, <2>8, <3>1 DEF IInv, FromOwnedIt
      <4>2. j \in DOMAIN ledger
        BY <1>10, <3>1, <4>1
      <4> QED BY <2>8, <4>1, <4>2
    <3> QED BY <2>9, <3>1 DEF FromOwnedIt
  <2>13. KeyInv'
    <3>1. ~req'[q].inserted /\ req'[q].closed = {}
      BY <2>3, <2>5
    <3>2. ASSUME NEW p \in Req \ {q}
          PROVE  /\ HoldsKey(p)' <=> HoldsKey(p)
                 /\ req'[p].closed \subseteq ActiveRows'
                 /\ req'[p].inserted => ActiveRows' = req'[p].closed
      <4>1. req'[p] = req[p] /\ (HoldsKey(p)' <=> HoldsKey(p))
        BY <2>5 DEF HoldsKey
      <4>2. HoldsKey(p) => req[p].closed \cap ToClose(q) = {}
        BY <1>1, KeyOf DEF WaitsFor
      <4>3. ~HoldsKey(p) => req[p].closed = {} /\ ~req[p].inserted
        BY DEF HoldsKey
      <4>4. req[p].closed \subseteq ActiveRows /\ (req[p].inserted => ActiveRows = req[p].closed)
        BY KeyOf
      <4> QED BY <1>10, <2>10, <4>1, <4>2, <4>3, <4>4 DEF HoldsKey
    <3>3. \A p, r \in Req : HoldsKey(p)' /\ HoldsKey(r)' => p = r
      <4>1. ~HoldsKey(q)'
        BY <3>1 DEF HoldsKey
      <4> QED BY <3>2, <4>1 DEF IInv, KeyInv
    <3>4. ActiveRows' \subseteq {Len(ledger')}
      BY <1>10, <2>8, <2>10
    <3> QED BY <3>1, <3>2, <3>3, <3>4 DEF KeyInv
  <2>14. owner' \in Known' \cup {NoUser} \/ (HasSet(q)' /\ owner' = new.target)
    BY <1>1, <2>3, <2>7, <2>11, OwnerOf
  <2>15. ASSUME Undisturbed(q)'
         PROVE  /\ Undisturbed(q) /\ owner' = new.target /\ ActiveRows' = {}
    <3>1. Undisturbed(q)
      BY <1>1, <2>3, <2>5, <2>7, <2>15 DEF Undisturbed
    <3>2. owner = req[q].target /\ req[q].seen = Len(ledger)
      BY <1>1, <2>7, <3>1 DEF IInv, AloneInv
    <3>3. ToClose(q) = ActiveRows
      BY <1>10, <3>2 DEF ToClose
    <3> QED BY <1>1, <2>3, <2>10, <3>1, <3>2, <3>3
  <2>16. /\ owner' \in Owners /\ fresh' \in BOOLEAN /\ torn' \in BOOLEAN
         /\ stray' \subseteq Owners /\ stray \subseteq stray' /\ (torn => torn')
         /\ new.from \in Known' \cup {NoUser}
    BY <1>1, <2>3, <2>11, KeyOf DEF IInv, TypeOK
  <2> QED BY <1>1, <2>2, <2>3, <2>4, <2>7, <2>8, <2>11, <2>12, <2>13, <2>14, <2>15, <2>16,
             Assembled
<1> QED BY <1>12, <1>13

\* A row appended to rows none of which is active is the active one.
LEMMA AppendedAlone ==
  ASSUME IInv, NEW q \in Req, Busy(q), req[q].target \in User, NEW base \in Seq(Row),
         Len(base) = Len(ledger),
         \A i \in DOMAIN ledger : /\ base[i].to = ledger[i].to
                                 /\ base[i].from = ledger[i].from
                                 /\ ~base[i].active,
         ledger' = Append(base, NewRow(req[q])),
         NEW m \in Nat, m = Len(ledger), DOMAIN ledger = 1..m
  PROVE  /\ ledger' \in Seq(Row) /\ Len(ledger') = m + 1 /\ DOMAIN ledger' = 1..(m + 1)
         /\ ledger'[m + 1] = NewRow(req[q])
         /\ \A i \in 1..m : /\ ledger'[i].to = ledger[i].to
                            /\ ledger'[i].from = ledger[i].from /\ ~ledger'[i].active
         /\ ActiveRows' = {m + 1}
<1>1. req[q] \in Request
  BY AtWork
<1>2. PICK row : row = NewRow(req[q])
  OBVIOUS
<1>3. row \in Row /\ row.to = req[q].target /\ row.from = req[q].from /\ row.active = TRUE
  BY <1>1, <1>2 DEF NewRow, Row, Request
<1>4. /\ ledger' \in Seq(Row) /\ Len(ledger') = m + 1 /\ ledger'[m + 1] = row
      /\ \A i \in 1..m : ledger'[i] = base[i]
  <2>1. Len(base) = m /\ ledger' = Append(base, row)
    BY <1>2
  <2> QED BY <1>3, <2>1, AppendedRow
<1>5. DOMAIN ledger' = 1..(m + 1)
  BY <1>4
<1>6. \A i \in 1..m : /\ ledger'[i].to = ledger[i].to
                      /\ ledger'[i].from = ledger[i].from /\ ~ledger'[i].active
  BY <1>4
<1>7. ActiveRows' = {m + 1}
  <2>1. \A i \in 1..(m + 1) : ledger'[i].active <=> i = m + 1
    <3>1. \A i \in 1..(m + 1) : i \in 1..m \/ i = m + 1
      OBVIOUS
    <3>2. m + 1 \notin 1..m /\ ledger'[m + 1].active
      BY <1>3, <1>4
    <3> QED BY <1>6, <3>1, <3>2
  <2>2. m + 1 \in 1..(m + 1)
    OBVIOUS
  <2> QED BY <1>5, <2>1, <2>2 DEF ActiveRows
<1> QED BY <1>2, <1>4, <1>5, <1>6, <1>7

\* The step that appends the row of q, when no row stays active, and ends q.
LEMMA AppendKeeps ==
  ASSUME IInv, NEW q \in Req, Busy(q), req[q].target \in User, NEW base \in Seq(Row),
         Len(base) = Len(ledger),
         \A i \in DOMAIN ledger : /\ base[i].to = ledger[i].to
                                 /\ base[i].from = ledger[i].from
                                 /\ ~base[i].active,
         ledger' = Append(base, NewRow(req[q])),
         owner' = req[q].target \/ (owner' = owner /\ Single(q) /\ HasSet(q)),
         req' = [req EXCEPT ![q] = Idle], fresh' = fresh, stray' = stray,
         torn' \in BOOLEAN, torn /\ (\E p \in Req \ {q} : Single(p)) => torn',
         ~torn' => owner' = req[q].target \/ ~torn,
         \A p \in Req \ {q} : ~HoldsKey(p)
  PROVE  IInv'
<1>1. req[q] \in Request
  BY AtWork
<1>2. PICK row : row = NewRow(req[q])
  OBVIOUS
<1>3. row \in Row /\ row.to = req[q].target /\ row.from = req[q].from /\ row.active = TRUE
  BY <1>1, <1>2 DEF NewRow, Row, Request
<1>4. PICK m \in Nat : m = Len(ledger) /\ DOMAIN ledger = 1..m
  BY DEF IInv, TypeOK
<1>5. /\ ledger' \in Seq(Row) /\ Len(ledger') = m + 1 /\ ledger'[m + 1] = row
      /\ DOMAIN ledger' = 1..(m + 1) /\ ActiveRows' = {m + 1}
      /\ \A i \in 1..m : /\ ledger'[i].to = ledger[i].to
                         /\ ledger'[i].from = ledger[i].from /\ ~ledger'[i].active
  BY <1>2, <1>4, AppendedAlone
<1>6. DOMAIN ledger' = 1..(m + 1)
  BY <1>5
<1>7. \A i \in 1..m : /\ ledger'[i].to = ledger[i].to
                      /\ ledger'[i].from = ledger[i].from /\ ~ledger'[i].active
  BY <1>5
<1>8. ActiveRows' = {m + 1}
  BY <1>5
<1>9. Known \subseteq Known' /\ req[q].target \in Known'
  <2>1. \A i \in 1..m : i \in 1..(m + 1)
    BY <1>4
  <2>2. m + 1 \in 1..(m + 1)
    BY <1>4
  <2>3. {ledger[i].to : i \in DOMAIN ledger} \subseteq {ledger'[i].to : i \in DOMAIN ledger'}
    BY <1>4, <1>6, <1>7, <2>1
  <2>4. req[q].target \in {ledger'[i].to : i \in DOMAIN ledger'}
    BY <1>3, <1>5, <1>6, <2>2
  <2> QED BY <2>3, <2>4 DEF Known
<1>10. req'[q] = Idle /\ \A p \in Req \ {q} : req'[p] = req[p]
  BY DEF IInv, TypeOK
<1>11. FromOwnedIt'
  <2>1. ASSUME NEW i \in 1..m, ledger'[i].from # NoUser, ledger'[i].from \notin stray'
        PROVE  \E j \in 1..(i - 1) : ledger'[j].to = ledger'[i].from
    <3>1. PICK j \in 1..(i - 1) : ledger[j].to = ledger[i].from
      BY <1>4, <1>7, <2>1 DEF IInv, FromOwnedIt
    <3>2. j \in 1..m
      BY <1>4, <3>1
    <3> QED BY <1>7, <3>1, <3>2
  <2>2. ASSUME ledger'[m + 1].from # NoUser, ledger'[m + 1].from \notin stray'
        PROVE  \E j \in 1..((m + 1) - 1) : ledger'[j].to = ledger'[m + 1].from
    <3>1. PICK j \in 1..m : ledger[j].to = req[q].from
      BY <1>3, <1>4, <1>5, <2>2, KeyOf DEF Known
    <3>2. j \in 1..((m + 1) - 1)
      BY <1>4
    <3> QED BY <1>3, <1>5, <1>7, <3>1, <3>2
  <2>3. \A i \in 1..(m + 1) : i \in 1..m \/ i = m + 1
    BY <1>4
  <2> QED BY <1>6, <2>1, <2>2, <2>3 DEF FromOwnedIt
<1>12. KeyInv'
  <2>1. \A p \in Req : ~req'[p].inserted /\ req'[p].closed = {}
    BY <1>10, IdleTyped DEF HoldsKey
  <2>2. ActiveRows' \subseteq {Len(ledger')}
    BY <1>5, <1>8
  <2> QED BY <2>1, <2>2 DEF KeyInv, HoldsKey
<1>13. owner' \in Known' \cup {NoUser} /\ owner' \in Owners
  <2>1. owner \in Owners
    BY DEF IInv, TypeOK
  <2> QED BY <1>9, <2>1, OwnerOf DEF Owners
<1>14. ~torn' => Matches'
  <2>1. SUFFICES ASSUME ~torn' PROVE Matches'
    OBVIOUS
  <2>2. owner' = req[q].target
    <3>1. CASE owner' = owner /\ Single(q) /\ HasSet(q) /\ ~torn
      BY <3>1 DEF IInv, Undisturbed, AloneInv
    <3> QED BY <2>1, <3>1
  <2>3. owner' # NoUser /\ ledger'[m + 1].to = owner'
    BY <1>3, <1>5, <2>2
  <2> QED BY <1>8, <2>3 DEF Matches
<1>15. ~Undisturbed(q)' /\ ~HasSet(q)'
  BY <1>10, IdleTyped DEF Undisturbed, HasSet, Single, Busy
<1>16. fresh' \in BOOLEAN /\ stray' \subseteq Owners /\ Idle.from \in Known' \cup {NoUser}
  BY IdleTyped DEF IInv, TypeOK
<1> QED BY <1>5, <1>9, <1>11, <1>12, <1>13, <1>14, <1>15, <1>16, IdleTyped, Assembled

LEMMA InsertRowKeeps ==
  ASSUME IInv, NEW q \in Req, InsertRow(q)
  PROVE  IInv'
<1>1. /\ Busy(q) /\ Statement(q) = "insert" /\ UNCHANGED <<owner, fresh, torn, stray>>
      /\ (\A p \in Req : ~WaitsFor(q, p)) /\ ActiveRows \subseteq req[q].closed
  BY DEF InsertRow, Runs, Statement, Conflicts
<1>2. PICK k \in DOMAIN Program : k = req[q].kind /\ k \in Kinds
  BY <1>1, AtWork
<1>3. PICK n \in 2..6 : n = Len(Program[k])
  BY Places
<1>4. PICK st \in 1..5 : st = SetAt[k]
  BY Places
<1>5. PICK ins \in 2..7 : ins = InsertAt[k]
  BY Places
<1>6. PICK m \in 1..n : m = req[q].at
  BY <1>1, <1>2, <1>3, AtWork
<1>7. /\ (Tx(q) <=> k \in InTransaction) /\ (Single(q) <=> ~Tx(q)) /\ req[q] \in Request
      /\ (~Tx(q) <=> k \in OneByOne)
  BY <1>1, <1>2, AtWork, Writers
<1>8. m = ins /\ m # st /\ k # "put"
  <2>1. Program[k][m] = "insert" /\ m = ins
    BY <1>1, <1>2, <1>5, <1>6, AtWork, StatementPlace
  <2>2. m # st
    BY <1>3, <1>4, <2>1, Places
  <2>3. k # "put"
    BY <1>3, <1>5, <2>1, Places
  <2> QED BY <2>1, <2>2, <2>3
<1>9. /\ req[q].set <=> k \in InTransaction /\ m > st
      /\ req[q].inserted <=> k \in InTransaction /\ m > ins
      /\ req[q].closed # {} => k \in InTransaction /\ m >= ins
  BY <1>1, <1>2, <1>4, <1>5, <1>6, Written
<1>10. ActiveRows = req[q].closed
  BY <1>1, KeyOf
<1>11. \A p \in Req \ {q} : ~HoldsKey(p)
  BY <1>1, KeyOf DEF WaitsFor, HoldsKey
<1>12. CASE Tx(q)
  <2> DEFINE r == [req[q] EXCEPT !.inserted = TRUE]
  <2>1. req' = [req EXCEPT ![q] = After(r)] /\ UNCHANGED <<owner, ledger, fresh, torn, stray>>
    BY <1>1, <1>12 DEF InsertRow
  <2>2. /\ r \in Request /\ r.kind = k /\ r.at = m /\ r.target = req[q].target
        /\ r.from = req[q].from /\ r.closed = req[q].closed
        /\ r.inserted = TRUE /\ r.set = req[q].set
    BY <1>2, <1>6, <1>7 DEF Request
  <2> HIDE DEF r
  <2>3. m # n
    <3>1. Program[k][n] = "commit"
      BY <1>3, <1>7, <1>12, Places
    <3>2. Program[k][m] = "insert"
      BY <1>1, <1>2, <1>6, AtWork
    <3> QED BY <3>1, <3>2
  <2>4. /\ r.set <=> r.kind \in InTransaction /\ r.at >= SetAt[r.kind]
        /\ r.inserted <=> r.kind \in InTransaction /\ r.at >= InsertAt[r.kind]
        /\ r.closed # {} => r.kind \in InTransaction /\ r.at >= InsertAt[r.kind] - 1
        /\ r.at # Len(Program[r.kind])
    <3>1. (m > st <=> m >= st) /\ m >= ins /\ m >= ins - 1
      BY <1>8
    <3> QED BY <1>3, <1>4, <1>5, <1>7, <1>9, <1>12, <2>2, <2>3, <3>1
  <2>5. r.from \in Known \cup {NoUser} /\ ActiveRows = r.closed
    BY <1>10, <2>2, KeyOf
  <2> QED BY <1>1, <1>2, <1>6, <1>11, <1>12, <2>1, <2>2, <2>4, <2>5, AdvanceKeeps
<1>13. CASE ~Tx(q)
  <2>1. m = n
    BY <1>3, <1>5, <1>7, <1>8, <1>13, Places
  <2>2. After(req[q]) = Idle
    BY <1>2, <1>3, <1>6, <1>7, <2>1, AfterRow
  <2>3. req' = [req EXCEPT ![q] = Idle] /\ ledger' = Append(ledger, NewRow(req[q]))
    BY <1>13, <2>2 DEF InsertRow
  <2>4. Single(q) /\ HasSet(q)
    BY <1>1, <1>7, <1>13 DEF HasSet
  <2>5. ledger \in Seq(Row) /\ \A i \in DOMAIN ledger : ~ledger[i].active
    BY <1>7, <1>9, <1>10, <1>13 DEF IInv, TypeOK, ActiveRows
  <2>6. req[q].target \in User
    BY <1>1, <1>2, <1>8, AtWork
  <2>7. /\ owner' = owner /\ fresh' = fresh /\ stray' = stray /\ torn' = torn
        /\ torn' \in BOOLEAN
    BY <1>1 DEF IInv, TypeOK
  <2>8. /\ torn /\ (\E p \in Req \ {q} : Single(p)) => torn'
        /\ ~torn' => owner' = req[q].target \/ ~torn
    BY <2>7
  <2>9. Busy(q) /\ Len(ledger) = Len(ledger)
    BY <1>1
  <2>10. \A i \in DOMAIN ledger : /\ ledger[i].to = ledger[i].to
                                  /\ ledger[i].from = ledger[i].from
                                  /\ ~ledger[i].active
    BY <2>5
  <2> QED BY <1>11, <2>3, <2>4, <2>5, <2>6, <2>7, <2>8, <2>9, <2>10, AppendKeeps
<1> QED BY <1>12, <1>13

\* A PUT commits: no row, and a tear where the owner is another.
LEMMA PutKeeps ==
  ASSUME IInv, NEW q \in Req, Commit(q), ~req[q].inserted
  PROVE  IInv'
<1> DEFINE S == {owner'} \ {owner}
<1>1. /\ Busy(q) /\ req' = [req EXCEPT ![q] = Idle] /\ UNCHANGED <<fresh, ledger>>
      /\ Tears(S) /\ owner' \in {owner, req[q].target}
  BY DEF Commit, Runs, Statement
<1>2. Tx(q)
  <2>1. Statement(q) = "commit"
    BY DEF Commit, Runs
  <2> QED BY <1>1, <2>1, AtWork, StatementPlace
<1>3. owner' \in Owners
  BY <1>1, AtWork DEF IInv, TypeOK, Request
<1>4. /\ stray' = stray \cup S /\ (torn' <=> torn \/ S # {}) /\ torn' \in BOOLEAN
      /\ stray \subseteq Owners /\ stray' \subseteq Owners
  BY <1>1, <1>3, Zenon DEF Tears, IInv, TypeOK
<1>5. ~HasSet(q)
  BY <1>1, <1>2, AtWork DEF HasSet
<1>6. /\ FromOwnedIt' /\ Known \subseteq Known' /\ ActiveRows' = ActiveRows
      /\ KeyInv' /\ stray' \subseteq Known'
  <2>1. KeyInv'
    BY <1>1, KeyRecord, IdleTyped
  <2> QED BY <1>1, <1>4, <2>1, SameLedger DEF Known
<1>7. owner' \in Known' \cup {NoUser}
  <2>1. owner' = owner \/ owner' \in stray'
    BY <1>4
  <2> QED BY <1>1, <1>5, <1>6, <2>1, OwnerFound
<1>8. ~torn' => Matches'
  <2>1. ~torn' => owner' = owner /\ ~torn
    BY <1>4
  <2> QED BY <1>1, <1>5, <1>6, <2>1, OwnerFound DEF Matches
<1>9. req'[q] = Idle
  BY <1>1 DEF IInv, TypeOK
<1>10. ~Undisturbed(q)' /\ ~HasSet(q)'
  BY <1>9, IdleTyped DEF Undisturbed, HasSet, Single, Busy
<1>11. ledger' \in Seq(Row) /\ fresh' \in BOOLEAN
  BY <1>1 DEF IInv, TypeOK
<1> HIDE DEF S
<1> QED BY <1>1, <1>3, <1>4, <1>6, <1>7, <1>8, <1>10, <1>11, IdleTyped, Assembled

\* What a transaction with a row commits: its row alone is active, and it
\* names the new owner.
LEMMA CommitRow ==
  ASSUME IInv, NEW q \in Req, Commit(q), req[q].inserted
  PROVE  /\ Busy(q) /\ req[q].set /\ req[q].target \in User
         /\ ledger' = Append(Closed(req[q].closed), NewRow(req[q]))
         /\ owner' = req[q].target /\ stray' = stray
         /\ torn' = (torn /\ \E p \in Req : Single(p))
         /\ \A p \in Req \ {q} : ~HoldsKey(p)
         /\ Closed(req[q].closed) \in Seq(Row) /\ Len(Closed(req[q].closed)) = Len(ledger)
         /\ \A i \in DOMAIN ledger : /\ Closed(req[q].closed)[i].to = ledger[i].to
                                     /\ Closed(req[q].closed)[i].from = ledger[i].from
                                     /\ ~Closed(req[q].closed)[i].active
<1>1. Busy(q) /\ Statement(q) = "commit"
  BY DEF Commit, Runs, Statement
<1>2. PICK k \in DOMAIN Program : k = req[q].kind /\ k \in InTransaction
  BY <1>1, AtWork, StatementPlace
<1>3. PICK n \in 2..6 : n = Len(Program[k])
  BY Places
<1>4. PICK st \in 1..5 : st = SetAt[k]
  BY Places
<1>5. PICK ins \in 2..7 : ins = InsertAt[k]
  BY Places
<1>6. req[q].at = n
  BY <1>1, <1>2, <1>3, StatementPlace
<1>7. n > ins
  BY <1>1, <1>2, <1>5, <1>6, Written
<1>8. k # "put" /\ n > st
  <2>1. k # "put"
    BY <1>3, <1>5, <1>7, Places
  <2> QED BY <1>2, <1>3, <1>4, <2>1, Places
<1>9. req[q].set /\ req[q].target \in User
  BY <1>1, <1>2, <1>4, <1>6, <1>8, Written, AtWork
<1>10. /\ ledger' = Append(Closed(req[q].closed), NewRow(req[q]))
       /\ owner' = req[q].target /\ stray' = stray
       /\ torn' = (torn /\ \E p \in Req : Single(p))
  BY <1>9 DEF Commit
<1>11. ActiveRows = req[q].closed /\ \A p \in Req \ {q} : ~HoldsKey(p)
  BY KeyOf DEF HoldsKey
<1>12. ledger \in Seq(Row)
  BY DEF IInv, TypeOK
<1>13. /\ Closed(req[q].closed) \in Seq(Row) /\ Len(Closed(req[q].closed)) = Len(ledger)
       /\ \A i \in DOMAIN ledger : /\ Closed(req[q].closed)[i].to = ledger[i].to
                                   /\ Closed(req[q].closed)[i].from = ledger[i].from
                                   /\ ~Closed(req[q].closed)[i].active
  BY <1>11, <1>12, ClosedRows DEF ActiveRows
<1> QED BY <1>1, <1>9, <1>10, <1>11, <1>13

\* It leaves the ledger and the owner matching.
LEMMA CommitMatches ==
  ASSUME IInv, NEW q \in Req, Commit(q), req[q].inserted
  PROVE  Matches'
<1>1. PICK m \in Nat : m = Len(ledger) /\ DOMAIN ledger = 1..m
  BY DEF IInv, TypeOK
<1>2. ledger'[m + 1] = NewRow(req[q]) /\ ActiveRows' = {m + 1}
  BY <1>1, CommitRow, AppendedAlone
<1>3. owner' = req[q].target /\ owner' # NoUser
  BY CommitRow
<1>4. ledger'[m + 1].to = owner'
  BY <1>2, <1>3 DEF NewRow
<1> QED BY <1>2, <1>3, <1>4 DEF Matches

LEMMA CommitKeeps ==
  ASSUME IInv, NEW q \in Req, Commit(q)
  PROVE  IInv'
<1>1. req' = [req EXCEPT ![q] = Idle] /\ fresh' = fresh
  BY DEF Commit
<1>2. SUFFICES ASSUME req[q].inserted PROVE IInv'
  BY PutKeeps
<1>3. torn' = (torn /\ \E p \in Req : Single(p))
  BY <1>2, CommitRow
<1>4. torn' \in BOOLEAN
  BY <1>3, Zenon DEF IInv, TypeOK
<1>5. torn /\ (\E p \in Req \ {q} : Single(p)) => torn'
  BY <1>3
<1> QED BY <1>1, <1>2, <1>4, <1>5, CommitRow, AppendKeeps

\* A request that begins has written nothing yet.
LEMMA FirstPlace ==
  ASSUME NEW k \in DOMAIN Program
  PROVE  /\ 1 <= Len(Program[k]) /\ ~(1 > SetAt[k]) /\ ~(1 > InsertAt[k])
         /\ k \in OneByOne => Program[k][1] \in {"read", "set"}
<1>1. PICK n \in 2..6 : n = Len(Program[k])
  BY Places
<1>2. PICK st \in 1..5 : st = SetAt[k]
  BY Places
<1>3. PICK ins \in 2..7 : ins = InsertAt[k]
  BY Places
<1>4. 1 <= n /\ 1 \in 1..n /\ 1 <= st /\ ~(1 > st) /\ ~(1 > ins)
  OBVIOUS
<1>5. k \in OneByOne => (Program[k][1] \in {"read", "set"} <=> 1 <= SetAt[k])
  BY <1>1, <1>4, Places
<1> QED BY <1>1, <1>2, <1>3, <1>4, <1>5

LEMMA BeginKeeps ==
  ASSUME IInv, NEW q \in Req, NEW k \in Kinds, NEW u \in Owners, Begin(q, k, u)
  PROVE  IInv'
<1>1. PICK f \in Known \cup {NoUser} : req' = [req EXCEPT ![q] = Started(k, u, f)]
  BY DEF Begin
<1>2. /\ ~Busy(q) /\ (u = NoUser => k = "put") /\ UNCHANGED <<owner, ledger>>
      /\ Tears(Overlapping(k, u)) /\ fresh' \in BOOLEAN
  BY DEF Begin, IInv, TypeOK
<1>3. PICK new : new = Started(k, u, f)
  OBVIOUS
<1>4. f \in Known \cup {NoUser} /\ f \in Owners
  <2>1. f \in Known \cup {NoUser}
    BY <1>1
  <2>2. Known \subseteq Owners
    <3>1. ASSUME NEW i \in DOMAIN ledger PROVE ledger[i].to \in Owners
      <4>1. ledger[i] \in Row
        BY DEF IInv, TypeOK
      <4> QED BY <4>1 DEF Row, Owners
    <3> QED BY <3>1 DEF Known, IInv, TypeOK
  <2> QED BY <2>1, <2>2 DEF Owners
<1>5. k \in DOMAIN Program
  BY Writers
<1>6. /\ new \in Request /\ new.at = 1 /\ new.kind = k /\ new.target = u /\ new.from = f
      /\ new.closed = {} /\ ~new.inserted /\ ~new.set
  <2>1. 1 \in 0..6 /\ 0 \in Nat /\ f \in Owners /\ u \in Owners
    BY <1>4
  <2> HIDE DEF Program, Owners
  <2> QED BY <1>3, <1>5, <2>1 DEF Request, Started
<1>7. Shaped(new)
  <2>1. k # "put" => u \in User
    BY <1>2 DEF Owners
  <2> QED BY <1>5, <1>6, <2>1, FirstPlace DEF Shaped
<1>8. req' = [req EXCEPT ![q] = new] /\ req'[q] = new /\ \A p \in Req \ {q} : req'[p] = req[p]
  BY <1>1, <1>3 DEF IInv, TypeOK
<1>9. /\ \A p \in Req \ {q} : /\ Busy(p)' <=> Busy(p)
                              /\ Single(p)' <=> Single(p)
                              /\ HasSet(p)' <=> HasSet(p)
                              /\ Statement(p)' = Statement(p)
      /\ Busy(q)' /\ (Single(q)' <=> k \in OneByOne) /\ ~HasSet(q)'
  <2>1. Busy(q)' /\ (Single(q)' <=> k \in OneByOne)
    BY <1>6, <1>8 DEF Busy, Single
  <2>2. ASSUME Single(q)' PROVE Statement(q)' \in {"read", "set"}
    <3>1. Statement(q)' = Program[k][1]
      BY <1>6, <1>8, <2>1 DEF Statement
    <3> QED BY <1>5, <2>1, <2>2, <3>1, FirstPlace
  <2> QED BY <1>8, <2>1, <2>2 DEF Busy, Single, HasSet, Statement
<1> DEFINE S == Overlapping(k, u)
<1>10. /\ \A p \in Req : Single(p) => req[p].target \in S
       /\ k \in OneByOne /\ (\E p \in Req : Busy(p)) => u \in S
       /\ S \subseteq Owners
  <2>1. \A p \in Req : req[p].target \in Owners
    BY DEF IInv, TypeOK, Request
  <2> QED BY <2>1 DEF Overlapping
<1>11. /\ stray' = stray \cup S /\ (torn' <=> torn \/ S # {}) /\ torn' \in BOOLEAN
       /\ stray' \subseteq Owners /\ stray \subseteq stray'
  <2>1. stray' = stray \cup S /\ torn' = (torn \/ S # {})
    BY <1>2 DEF Tears
  <2>2. torn' \in BOOLEAN
    BY <2>1, Zenon
  <2> QED BY <1>10, <2>1, <2>2 DEF IInv, TypeOK
<1> HIDE DEF S
<1>12. TypeOK'
  BY <1>2, <1>6, <1>8, <1>11 DEF IInv, TypeOK
<1>13. \A p \in Req : Shaped(req'[p])
  BY <1>7, <1>8 DEF IInv
<1>14. FromOwnedIt' /\ Known \subseteq Known' /\ ActiveRows' = ActiveRows /\ KeyInv'
  <2>1. KeyInv'
    BY <1>2, <1>6, <1>8, KeyRecord
  <2> QED BY <1>2, <1>11, <2>1, SameLedger
<1>15. \A p \in Req : req'[p].from \in Known' \cup {NoUser}
  BY <1>4, <1>6, <1>8, <1>14 DEF IInv
<1>16. OwnerKnown'
  <2>1. CASE owner \in Known \cup {NoUser}
    BY <1>2, <1>14, <2>1 DEF OwnerKnown
  <2>2. ASSUME NEW p \in Req, HasSet(p), owner = req[p].target PROVE OwnerKnown'
    <3>1. p # q
      BY <1>2, <2>2 DEF HasSet, Single
    <3> QED BY <1>2, <1>8, <1>9, <2>2, <3>1 DEF OwnerKnown
  <2> QED BY <2>1, <2>2 DEF IInv, OwnerKnown
<1>17. ASSUME NEW p \in Req \ {q}, Undisturbed(p)' PROVE FALSE
  <2>1. Single(p) /\ req'[p].target = req[p].target
    BY <1>8, <1>9, <1>17 DEF Undisturbed
  <2>2. req[p].target \in S
    BY <1>10, <2>1
  <2>3. torn' /\ req'[p].target \in stray'
    BY <1>11, <2>1, <2>2
  <2> QED BY <1>17, <2>3 DEF Undisturbed
<1>18. Undisturbed(q)' => AloneInv(q)'
  <2>1. SUFFICES ASSUME Undisturbed(q)' PROVE AloneInv(q)'
    OBVIOUS
  <2>2. k \in OneByOne /\ (~torn' \/ u \notin stray')
    BY <1>6, <1>8, <1>9, <2>1 DEF Undisturbed
  <2>3. ~\E p \in Req : Busy(p)
    BY <1>10, <1>11, <2>2
  <2>4. \A p \in Req : Busy(p)' => p = q
    BY <1>9, <2>3
  <2>5. Single(q)' /\ Statement(q)' \in {"read", "set"}
    BY <1>9, <2>2 DEF HasSet
  <2> QED BY <1>9, <2>4, <2>5 DEF AloneInv
<1>19. ~torn' /\ (\A p \in Req : ~HasSet(p)') => Matches'
  <2>1. SUFFICES ASSUME ~torn', \A p \in Req : ~HasSet(p)' PROVE Matches'
    OBVIOUS
  <2>2. ~torn /\ \A p \in Req : ~HasSet(p)
    BY <1>2, <1>9, <1>11, <2>1 DEF HasSet, Single
  <2> QED BY <1>2, <1>14, <2>2 DEF IInv, Matches
<1>20. \A p \in Req : Undisturbed(p)' => AloneInv(p)'
  BY <1>17, <1>18
<1> QED BY <1>12, <1>13, <1>14, <1>15, <1>16, <1>19, <1>20 DEF IInv

-----------------------------------------------------------------------------
LEMMA StepInv == IInv /\ [Next]_vars => IInv'
<1> SUFFICES ASSUME IInv, [Next]_vars PROVE IInv'
  OBVIOUS
<1>1. CASE UNCHANGED vars
  <2>1. /\ ActiveRows' = ActiveRows /\ (TypeOK' <=> TypeOK) /\ Known' = Known
        /\ (FromOwnedIt' <=> FromOwnedIt) /\ (Matches' <=> Matches)
    BY <1>1 DEF vars, ActiveRows, TypeOK, FromOwnedIt, Matches, Known
  <2>2. \A p \in Req : /\ Busy(p)' <=> Busy(p)
                       /\ Single(p)' <=> Single(p)
                       /\ Statement(p)' = Statement(p)
                       /\ HoldsKey(p)' <=> HoldsKey(p)
    BY <1>1 DEF vars, Busy, Single, Statement, HoldsKey
  <2>3. \A p \in Req : HasSet(p)' <=> HasSet(p)
    BY <2>2 DEF HasSet
  <2>4. \A p \in Req : (Undisturbed(p)' <=> Undisturbed(p)) /\ (AloneInv(p)' <=> AloneInv(p))
    BY <1>1, <2>1, <2>2, <2>3 DEF vars, Undisturbed, AloneInv
  <2>5. (KeyInv' <=> KeyInv) /\ (OwnerKnown' <=> OwnerKnown)
    BY <1>1, <2>1, <2>2, <2>3 DEF vars, KeyInv, OwnerKnown
  <2>6. \A p \in Req : req'[p] = req[p]
    BY <1>1 DEF vars
  <2>7. torn' = torn
    BY <1>1 DEF vars
  <2> QED BY <2>1, <2>3, <2>4, <2>5, <2>6, <2>7 DEF IInv
<1>2. ASSUME NEW q \in Req, Step(q) PROVE IInv'
  BY <1>2, ReadOwnerKeeps, ScanActiveKeeps, CloseActiveKeeps, InsertRowKeeps,
     InsertFailsKeeps, SetOwnerKeeps, CommitKeeps, DeadlockedKeeps DEF Step
<1>3. ASSUME NEW q \in Req, Fail(q) PROVE IInv'
  BY <1>3, FailKeeps
<1>4. ASSUME NEW q \in Req, NEW k \in Kinds, NEW u \in Owners, Begin(q, k, u) PROVE IInv'
  BY <1>4, BeginKeeps
<1> QED BY <1>1, <1>2, <1>3, <1>4 DEF Next

\* Whatever the writers are, overlap and die in, every reachable state satisfies
\* the inductive invariant.
THEOREM Invariant == Spec => []IInv
BY InitInv, StepInv, PTL DEF Spec

\* Rows and requests keep their domains.
THEOREM TypeCorrect == Spec => []TypeOK
<1>1. IInv => TypeOK
  BY DEF IInv
<1> QED BY <1>1, Invariant, PTL

\* The active row of the ledger names the lead's owner (rule-processor.js:65-69),
\* whichever of the eight writers overlap and die at any statement, except from a
\* write that tears the two apart until the next transaction that gives the lead
\* away commits.
THEOREM LedgerNamesOwner == Spec => []OwnerMatchesLedger
<1>1. IInv => OwnerMatchesLedger
  <2>1. ASSUME IInv, \A p \in Req : Busy(p) => Tx(p) PROVE \A p \in Req : ~HasSet(p)
    BY <2>1, AtWork DEF HasSet, Single
  <2> QED BY <2>1 DEF IInv, OwnerMatchesLedger
<1> QED BY <1>1, Invariant, PTL

\* The from_user_id a request read before others committed still names somebody
\* who had the lead: by an earlier row, or set beside the ledger.
THEOREM HistoryIsTrue == Spec => []FromOwnedIt
<1>1. IInv => FromOwnedIt
  BY DEF IInv
<1> QED BY <1>1, Invariant, PTL

\* However the owner and the ledger were torn apart, and whoever else is under
\* way, a reassignment, referral or bulk assignment that commits leaves one active
\* row, and it names the owner (bulk-ingestion/routes.js:451-465 and the
\* COMMIT of tenantTx, tenant.js:117-131).
THEOREM CommitMends ==
  Spec => [][\A q \in Req : Commit(q) /\ req[q].inserted => Matches']_vars
<1>1. IInv /\ [Next]_vars => [\A q \in Req : Commit(q) /\ req[q].inserted => Matches']_vars
  BY CommitMatches
<1> QED BY <1>1, Invariant, PTL DEF Spec
=============================================================================
