-------------------------- MODULE StaffPay_proofs --------------------------
(***************************************************************************)
(* Proofs about StaffLeave and PayrollRun, alone and together as StaffPay, *)
(* for any finite staff, any leaves, any quota and any requests.           *)
(***************************************************************************)
EXTENDS StaffPay, FiniteSetTheorems, SequenceTheorems, WellFoundedInduction, TLAPS

-----------------------------------------------------------------------------
(* Leave: what is given, and types *)

LEMMA LeaveGiven ==
  /\ IsFiniteSet(Leave) /\ Leave # {} /\ Date # {}
  /\ DayCounts \subseteq Nat \ {0} /\ DayCounts # {} /\ Quota \in Nat
  /\ NoUser \notin User /\ Applicant \in User
  /\ {Lead, Hr, Super} \subseteq User \cup {NoUser}
  /\ Modes \subseteq {"two_level", "hr_only", "lead_only", "none"}
BY StaffLeaveConstants

LEMMA SpanTyped == AnySpan \in Span /\ \A s \in Span : s.days \in Nat \ {0} /\ s.date \in Date
BY LeaveGiven DEF AnySpan, Span

LEMMA IdleRequest ==
  /\ LeaveIdle \in LeaveRequest /\ LeaveIdle.phase = "idle" /\ <<>> \in Chains
<1>1. <<>> \in [1..0 -> ApprovalStep]
  OBVIOUS
<1>2. <<>> \in Chains
  BY <1>1 DEF Chains
<1>3. AnyLeave \in Leave
  BY LeaveGiven DEF AnyLeave
<1> QED BY <1>2, <1>3, SpanTyped, LeaveGiven DEF LeaveIdle, LeaveRequest

LEMMA EmptyChain == ASSUME NEW c \in Chains, DOMAIN c = {} PROVE c = <<>>
<1>1. PICK n \in 0..2 : c \in [1..n -> ApprovalStep]
  BY DEF Chains
<1>2. n = 0
  BY <1>1
<1>3. c \in Seq(ApprovalStep) /\ Len(c) = 0
  BY <1>1, <1>2
<1> QED BY <1>3, EmptySeq

\* The chain c once step i has the outcome x: as many steps, the others as they were.
Decided(c, i, x) == [c EXCEPT ![i].status = x]

LEMMA Decides ==
  ASSUME NEW c \in Chains, NEW i, NEW x \in {"pending", "approved", "declined"}
  PROVE  /\ Decided(c, i, x) \in Chains /\ DOMAIN Decided(c, i, x) = DOMAIN c
         /\ \A j \in DOMAIN c : Decided(c, i, x)[j].status = IF j = i THEN x ELSE c[j].status
<1>0. PICK d : d = [c EXCEPT ![i].status = x]
  OBVIOUS
<1>1. PICK n \in 0..2 : c \in [1..n -> ApprovalStep]
  BY DEF Chains
<1>2. \A j \in 1..n : [c[j] EXCEPT !.status = x] \in ApprovalStep
  BY <1>1 DEF ApprovalStep
<1>3. d \in [1..n -> ApprovalStep]
  BY <1>0, <1>1, <1>2
<1>4. d \in Chains
  BY <1>3 DEF Chains
<1>5. \A j \in DOMAIN c : d[j].status = IF j = i THEN x ELSE c[j].status
  BY <1>0, <1>1 DEF ApprovalStep
<1> QED BY <1>0, <1>1, <1>3, <1>4, <1>5 DEF Decided

\* resolveApprovalChain finds two steps at most, all to be decided.
LEMMA ChainFound ==
  ASSUME NEW mode \in Modes \ {"none"}
  PROVE  /\ resolveApprovalChain(mode) \in Chains
         /\ \A i \in DOMAIN resolveApprovalChain(mode) :
                resolveApprovalChain(mode)[i].status = "pending"
<1> DEFINE P == {s \in ApprovalStep : s.status = "pending"}
<1>1. ASSUME NEW u \in User \cup {NoUser}
      PROVE  OneStep(u) \in Seq(P) /\ Len(OneStep(u)) \in {0, 1}
  <2>1. CASE u = NoUser
    BY <2>1 DEF OneStep
  <2>2. CASE u # NoUser
    <3>1. PICK s \in P : s = [by |-> u, status |-> "pending"]
      BY <1>1, <2>2 DEF ApprovalStep
    <3>2. OneStep(u) = <<s>>
      BY <2>2, <3>1 DEF OneStep
    <3> QED BY <3>2
  <2> QED BY <2>1, <2>2
<1> HIDE DEF P
<1>2. /\ OneStep(Lead) \o OneStep(Hr) \in Seq(P)
      /\ Len(OneStep(Lead) \o OneStep(Hr)) \in 0..2
  <2>1. /\ OneStep(Lead) \in Seq(P) /\ OneStep(Hr) \in Seq(P)
        /\ Len(OneStep(Lead)) + Len(OneStep(Hr)) \in 0..2
    <3>1. Lead \in User \cup {NoUser} /\ Hr \in User \cup {NoUser}
      BY LeaveGiven
    <3>2. PICK a, b : a = OneStep(Lead) /\ b = OneStep(Hr)
      OBVIOUS
    <3>3. a \in Seq(P) /\ b \in Seq(P) /\ Len(a) \in {0, 1} /\ Len(b) \in {0, 1}
      BY <1>1, <3>1, <3>2
    <3>4. Len(a) + Len(b) \in 0..2
      <4>1. \A m, n \in {0, 1} : m + n \in 0..2
        OBVIOUS
      <4> QED BY <3>3, <4>1
    <3> QED BY <3>2, <3>3, <3>4
  <2> QED BY <2>1, ConcatProperties
<1>3. resolveApprovalChain(mode) \in Seq(P) /\ Len(resolveApprovalChain(mode)) \in 0..2
  BY <1>1, <1>2, LeaveGiven DEF resolveApprovalChain
<1>4. PICK c : c = resolveApprovalChain(mode)
  OBVIOUS
<1>5. c \in [1..Len(c) -> P] /\ Len(c) \in 0..2
  BY <1>3, <1>4, LenProperties
<1>6. P \subseteq ApprovalStep /\ \A s \in P : s.status = "pending"
  BY DEF P
<1>7. c \in [1..Len(c) -> ApprovalStep]
  BY <1>5, <1>6
<1> QED BY <1>4, <1>5, <1>6, <1>7 DEF Chains

\* The least of the steps one may decide is one of them.
LEMMA MineDecidable ==
  ASSUME NEW q, leaveReq[q].steps \in Chains, Decidable(leaveReq[q].steps, leaveReq[q].who) # {}
  PROVE  Mine(q) \in DOMAIN leaveReq[q].steps /\ leaveReq[q].steps[Mine(q)].status = "pending"
<1>1. PICK D : D = Decidable(leaveReq[q].steps, leaveReq[q].who)
  OBVIOUS
<1>2. D \subseteq 1..2 /\ D # {}
  BY <1>1 DEF Decidable, Chains
<1>3. \E i \in D : \A j \in D : i <= j
  <2>1. CASE 1 \in D
    BY <1>2, <2>1
  <2>2. CASE 1 \notin D
    <3>1. \A i \in D : i = 2
      BY <1>2, <2>2
    <3>2. 2 \in D
      BY <1>2, <3>1
    <3> QED BY <3>1, <3>2
  <2> QED BY <2>1, <2>2
<1>4. Mine(q) \in D
  BY <1>1, <1>3 DEF Mine
<1> QED BY <1>1, <1>4 DEF Decidable

-----------------------------------------------------------------------------
(* Sums over the leaves *)

One(T) == CHOOSE x \in T : TRUE
Rest(T) == T \ {One(T)}

LEMMA RestOf ==
  ASSUME NEW T \in SUBSET Leave, T # {}
  PROVE  /\ One(T) \in T /\ Rest(T) \in SUBSET Leave /\ Rest(T) \subseteq T /\ Rest(T) # T
         /\ T = Rest(T) \cup {One(T)} /\ One(T) \notin Rest(T)
<1>1. One(T) \in T
  BY DEF One
<1> QED BY <1>1 DEF Rest

LEMMA CountingUp ==
  ASSUME NEW P, 0 \in P, \A n \in Nat : n \in P => n + 1 \in P
  PROVE  Nat \subseteq P
<1> SUFFICES ASSUME Nat \ P # {} PROVE FALSE
  OBVIOUS
<1>1. Nat \ P \subseteq Nat
  OBVIOUS
<1>2. PICK n \in Nat \ P : \A m \in Nat \ P : ~(<<m, n>> \in OpToRel(<, Nat))
  BY <1>1, NatLessThanWellFounded, WFMin, Zenon
<1>3. \A m \in Nat : m < n => m \in P
  BY <1>2 DEF OpToRel
<1>4. n \in Nat /\ n \notin P
  BY <1>2
<1>5. n # 0
  BY <1>4
<1>6. n - 1 \in Nat /\ n - 1 < n /\ (n - 1) + 1 = n
  BY <1>4, <1>5
<1> QED BY <1>3, <1>4, <1>6

LEMMA Subsets ==
  ASSUME NEW P, {} \in P, \A T \in SUBSET Leave : T # {} /\ Rest(T) \in P => T \in P
  PROVE  SUBSET Leave \subseteq P
<1> DEFINE Upto(n) == \A T \in SUBSET Leave : Cardinality(T) <= n => T \in P
<1>1. \A T \in SUBSET Leave : IsFiniteSet(T) /\ Cardinality(T) \in Nat
  BY LeaveGiven, FS_Subset, FS_CardinalityType
<1>2. Upto(0)
  <2> SUFFICES ASSUME NEW T \in SUBSET Leave, Cardinality(T) <= 0 PROVE T \in P
    OBVIOUS
  <2>1. Cardinality(T) = 0 /\ IsFiniteSet(T)
    BY <1>1
  <2>2. T = {}
    BY <2>1, FS_EmptySet
  <2> QED BY <2>2
<1>3. ASSUME NEW n \in Nat, Upto(n) PROVE Upto(n + 1)
  <2> SUFFICES ASSUME NEW T \in SUBSET Leave, Cardinality(T) <= n + 1, T # {} PROVE T \in P
    OBVIOUS
  <2>1. Rest(T) \in SUBSET Leave /\ One(T) \in T
    BY RestOf
  <2>2. Cardinality(Rest(T)) = Cardinality(T) - 1
    BY <1>1, <2>1, FS_RemoveElement DEF Rest
  <2>3. Cardinality(Rest(T)) <= n
    BY <1>1, <2>1, <2>2
  <2> QED BY <1>3, <2>1, <2>3
<1> DEFINE All == {n \in Nat : Upto(n)}
<1>4. 0 \in All /\ \A n \in Nat : n \in All => n + 1 \in All
  BY <1>2, <1>3
<1> HIDE DEF All
<1>5. Nat \subseteq All
  BY <1>4, CountingUp
<1> USE DEF All
<1>6. \A n \in Nat : Upto(n)
  BY <1>5
<1> QED
  <2> SUFFICES ASSUME NEW T \in SUBSET Leave PROVE T \in P
    OBVIOUS
  <2>1. Cardinality(T) \in Nat /\ Cardinality(T) <= Cardinality(T)
    BY <1>1
  <2> QED BY <1>6, <2>1

\* f holds the sums of w over the sets of D.
Sums(f, w, D) == f = [T \in D |-> IF T = {} THEN 0 ELSE w[One(T)] + f[Rest(T)]]
Sizes(n) == {T \in SUBSET Leave : Cardinality(T) <= n}

LEMMA SumsExist == ASSUME NEW w PROVE \E f : Sums(f, w, SUBSET Leave)
<1>1. \A T \in SUBSET Leave : IsFiniteSet(T) /\ Cardinality(T) \in Nat
  BY LeaveGiven, FS_Subset, FS_CardinalityType
<1>2. \E f : Sums(f, w, Sizes(0))
  <2>1. PICK f : f = [T \in Sizes(0) |-> 0]
    OBVIOUS
  <2>2. \A T \in Sizes(0) : T = {}
    <3> SUFFICES ASSUME NEW T \in Sizes(0) PROVE T = {}
      OBVIOUS
    <3>1. Cardinality(T) = 0 /\ IsFiniteSet(T)
      BY <1>1 DEF Sizes
    <3> QED BY <3>1, FS_EmptySet
  <2>3. Sums(f, w, Sizes(0))
    BY <2>1, <2>2 DEF Sums
  <2> QED BY <2>3
<1>3. ASSUME NEW n \in Nat, NEW f, Sums(f, w, Sizes(n))
      PROVE  \E g : Sums(g, w, Sizes(n + 1))
  <2>1. PICK g : g = [T \in Sizes(n + 1) |-> IF T \in Sizes(n) THEN f[T]
                                           ELSE w[One(T)] + f[Rest(T)]]
    OBVIOUS
  <2>2. ASSUME NEW T \in Sizes(n + 1), T # {} PROVE Rest(T) \in Sizes(n)
    <3>1. T \in SUBSET Leave /\ Rest(T) \in SUBSET Leave /\ One(T) \in T
      BY <2>2, RestOf DEF Sizes
    <3>2. Cardinality(Rest(T)) = Cardinality(T) - 1
      BY <1>1, <3>1, FS_RemoveElement DEF Rest
    <3> QED BY <1>1, <3>1, <3>2 DEF Sizes
  <2>3. Sizes(n) \subseteq Sizes(n + 1) /\ {} \in Sizes(n)
    BY <1>1, FS_EmptySet DEF Sizes
  <2>4. ASSUME NEW T \in Sizes(n + 1)
        PROVE  g[T] = IF T = {} THEN 0 ELSE w[One(T)] + g[Rest(T)]
    <3>1. CASE T = {}
      BY <1>3, <2>1, <2>3, <3>1 DEF Sums
    <3>2. CASE T # {}
      <4>1. Rest(T) \in Sizes(n) /\ g[Rest(T)] = f[Rest(T)]
        BY <2>1, <2>2, <2>3, <3>2
      <4>2. T \in Sizes(n) => f[T] = w[One(T)] + f[Rest(T)]
        BY <1>3, <3>2 DEF Sums
      <4> QED BY <2>1, <3>2, <4>1, <4>2
    <3> QED BY <3>1, <3>2
  <2>5. Sums(g, w, Sizes(n + 1))
    BY <2>1, <2>4 DEF Sums
  <2> QED BY <2>5
<1> DEFINE All == {n \in Nat : \E f : Sums(f, w, Sizes(n))}
<1>4. 0 \in All /\ \A n \in Nat : n \in All => n + 1 \in All
  BY <1>2, <1>3
<1> HIDE DEF All
<1>5. Nat \subseteq All
  BY <1>4, CountingUp
<1> USE DEF All
<1>6. Cardinality(Leave) \in Nat /\ \A T \in SUBSET Leave : Cardinality(T) <= Cardinality(Leave)
  BY LeaveGiven, FS_Subset, FS_CardinalityType
<1>7. Sizes(Cardinality(Leave)) = SUBSET Leave
  BY <1>6 DEF Sizes
<1> QED BY <1>5, <1>6, <1>7

\* A function of the sums, and that Total is its value at Leave.
SumsOf(w) == CHOOSE f : Sums(f, w, SUBSET Leave)

LEMMA TotalIs ==
  ASSUME NEW w
  PROVE  /\ Total(w) = SumsOf(w)[Leave]
         /\ SumsOf(w)[{}] = 0
         /\ \A T \in SUBSET Leave : T # {} => SumsOf(w)[T] = w[One(T)] + SumsOf(w)[Rest(T)]
<1>1. Total(w) = SumsOf(w)[Leave]
  BY DEF Total, MapThenSumSet, MapThenFoldSet, SumsOf, Sums, One, Rest
<1>2. Sums(SumsOf(w), w, SUBSET Leave)
  BY SumsExist DEF SumsOf
<1>3. PICK f : f = SumsOf(w)
  OBVIOUS
<1>4. f = [T \in SUBSET Leave |-> IF T = {} THEN 0 ELSE w[One(T)] + f[Rest(T)]]
  BY <1>2, <1>3 DEF Sums
<1> HIDE DEF SumsOf
<1> QED BY <1>1, <1>3, <1>4

LEMMA TotalTyped ==
  ASSUME NEW w \in [Leave -> Int]
  PROVE  Total(w) \in Int /\ \A T \in SUBSET Leave : SumsOf(w)[T] \in Int
<1> DEFINE P == {T \in SUBSET Leave : SumsOf(w)[T] \in Int}
<1>1. {} \in P
  BY TotalIs
<1>2. ASSUME NEW T \in SUBSET Leave, T # {}, Rest(T) \in P PROVE T \in P
  <2>1. SumsOf(w)[T] = w[One(T)] + SumsOf(w)[Rest(T)] /\ One(T) \in Leave
    BY <1>2, TotalIs, RestOf
  <2> QED BY <1>2, <2>1
<1> HIDE DEF P
<1>3. SUBSET Leave \subseteq P
  BY <1>1, <1>2, Subsets
<1> USE DEF P
<1> QED BY <1>3, TotalIs

\* What one more at l adds to the total.
LEMMA TotalChanges ==
  ASSUME NEW v \in [Leave -> Int], NEW w \in [Leave -> Int], NEW l \in Leave,
         \A k \in Leave \ {l} : v[k] = w[k]
  PROVE  Total(v) = Total(w) + (v[l] - w[l])
<1> DEFINE P == {T \in SUBSET Leave :
                   SumsOf(v)[T] = SumsOf(w)[T] + IF l \in T THEN v[l] - w[l] ELSE 0}
<1>1. {} \in P
  BY TotalIs
<1>2. ASSUME NEW T \in SUBSET Leave, T # {}, Rest(T) \in P PROVE T \in P
  <2>1. /\ SumsOf(v)[T] = v[One(T)] + SumsOf(v)[Rest(T)]
        /\ SumsOf(w)[T] = w[One(T)] + SumsOf(w)[Rest(T)]
    BY <1>2, TotalIs
  <2>2. /\ One(T) \in Leave /\ T = Rest(T) \cup {One(T)} /\ One(T) \notin Rest(T)
        /\ Rest(T) \in SUBSET Leave
    BY <1>2, RestOf
  <2>3. SumsOf(v)[Rest(T)] \in Int /\ SumsOf(w)[Rest(T)] \in Int
    BY <2>2, TotalTyped
  <2>4. CASE One(T) = l
    <3>1. SumsOf(v)[Rest(T)] = SumsOf(w)[Rest(T)] + 0
      BY <1>2, <2>2, <2>4
    <3> QED BY <2>1, <2>2, <2>3, <2>4, <3>1
  <2>5. CASE One(T) # l
    <3>1. v[One(T)] = w[One(T)] /\ (l \in T <=> l \in Rest(T))
      BY <2>2, <2>5
    <3> QED BY <1>2, <2>1, <2>2, <2>3, <3>1
  <2> QED BY <2>4, <2>5
<1> HIDE DEF P
<1>3. SUBSET Leave \subseteq P
  BY <1>1, <1>2, Subsets
<1> USE DEF P
<1> QED BY <1>3, TotalIs

\* What two come to at most at each leave they come to at most in all, and so what
\* they come to.
LEMMA TotalBounded ==
  ASSUME NEW v \in [Leave -> Int], NEW w \in [Leave -> Int], NEW u \in [Leave -> Int],
         \A k \in Leave : v[k] + w[k] <= u[k]
  PROVE  Total(v) + Total(w) <= Total(u)
<1> DEFINE P == {T \in SUBSET Leave : SumsOf(v)[T] + SumsOf(w)[T] <= SumsOf(u)[T]}
<1>1. {} \in P
  BY TotalIs
<1>2. ASSUME NEW T \in SUBSET Leave, T # {}, Rest(T) \in P PROVE T \in P
  <2>1. /\ SumsOf(v)[T] = v[One(T)] + SumsOf(v)[Rest(T)]
        /\ SumsOf(w)[T] = w[One(T)] + SumsOf(w)[Rest(T)]
        /\ SumsOf(u)[T] = u[One(T)] + SumsOf(u)[Rest(T)]
    BY <1>2, TotalIs
  <2>2. One(T) \in Leave /\ Rest(T) \in SUBSET Leave
    BY <1>2, RestOf
  <2>3. /\ SumsOf(v)[Rest(T)] \in Int /\ SumsOf(w)[Rest(T)] \in Int
        /\ SumsOf(u)[Rest(T)] \in Int
    BY <2>2, TotalTyped
  <2>4. SumsOf(v)[Rest(T)] + SumsOf(w)[Rest(T)] <= SumsOf(u)[Rest(T)]
    BY <1>2
  <2>5. v[One(T)] + w[One(T)] <= u[One(T)] /\ v[One(T)] \in Int /\ w[One(T)] \in Int
        /\ u[One(T)] \in Int
    BY <2>2
  <2> HIDE DEF P
  <2>6. SumsOf(v)[T] + SumsOf(w)[T] <= SumsOf(u)[T]
    BY <2>1, <2>3, <2>4, <2>5
  <2> QED BY <2>6 DEF P
<1> HIDE DEF P
<1>3. SUBSET Leave \subseteq P
  BY <1>1, <1>2, Subsets
<1> USE DEF P
<1> QED BY <1>3, TotalIs

LEMMA TotalAdds ==
  ASSUME NEW v \in [Leave -> Int], NEW w \in [Leave -> Int], NEW u \in [Leave -> Int],
         \A k \in Leave : v[k] + w[k] = u[k]
  PROVE  Total(v) + Total(w) = Total(u)
<1> DEFINE P == {T \in SUBSET Leave : SumsOf(v)[T] + SumsOf(w)[T] = SumsOf(u)[T]}
<1>1. {} \in P
  BY TotalIs
<1>2. ASSUME NEW T \in SUBSET Leave, T # {}, Rest(T) \in P PROVE T \in P
  <2>1. /\ SumsOf(v)[T] = v[One(T)] + SumsOf(v)[Rest(T)]
        /\ SumsOf(w)[T] = w[One(T)] + SumsOf(w)[Rest(T)]
        /\ SumsOf(u)[T] = u[One(T)] + SumsOf(u)[Rest(T)]
    BY <1>2, TotalIs
  <2>2. One(T) \in Leave /\ Rest(T) \in SUBSET Leave
    BY <1>2, RestOf
  <2>3. /\ SumsOf(v)[Rest(T)] \in Int /\ SumsOf(w)[Rest(T)] \in Int
        /\ SumsOf(u)[Rest(T)] \in Int
    BY <2>2, TotalTyped
  <2>4. SumsOf(v)[Rest(T)] + SumsOf(w)[Rest(T)] = SumsOf(u)[Rest(T)]
    BY <1>2
  <2>5. v[One(T)] + w[One(T)] = u[One(T)] /\ v[One(T)] \in Int /\ w[One(T)] \in Int
        /\ u[One(T)] \in Int
    BY <2>2
  <2> HIDE DEF P
  <2>6. SumsOf(v)[T] + SumsOf(w)[T] = SumsOf(u)[T]
    BY <2>1, <2>3, <2>4, <2>5
  <2> QED BY <2>6 DEF P
<1> HIDE DEF P
<1>3. SUBSET Leave \subseteq P
  BY <1>1, <1>2, Subsets
<1> USE DEF P
<1> QED BY <1>3, TotalIs

-----------------------------------------------------------------------------
(* Leave: what the steps share *)

LEMMA LeaveMoves ==
  ASSUME LeaveTypeOK, NEW q \in LeaveReq, NEW r \in LeaveRequest, LeaveGoes(q, r)
  PROVE  /\ leaveReq' \in [LeaveReq -> LeaveRequest] /\ leaveReq'[q] = r
         /\ \A p \in LeaveReq \ {q} : leaveReq'[p] = leaveReq[p]
BY DEF LeaveGoes, LeaveTypeOK

LEMMA CostTyped ==
  ASSUME NEW r \in LeaveRow
  PROVE  Cost(r) \in Int /\ r.span.days \in Nat \ {0} /\ r.lop \in Nat
BY SpanTyped DEF Cost, LeaveRow

LEMMA CostsTyped ==
  /\ LeaveTypeOK => Costs \in [Leave -> Int]
  /\ LeaveTypeOK' => Costs' \in [Leave -> Int]
BY CostTyped DEF LeaveTypeOK, Costs

LEMMA TotalOfNone == Total([l \in Leave |-> 0]) = 0
<1>1. PICK z : z = [l \in Leave |-> 0]
  OBVIOUS
<1> DEFINE P == {T \in SUBSET Leave : SumsOf(z)[T] = 0}
<1>5. {} \in P
  BY TotalIs
<1>6. ASSUME NEW T \in SUBSET Leave, T # {}, Rest(T) \in P PROVE T \in P
  <2>1. SumsOf(z)[T] = z[One(T)] + SumsOf(z)[Rest(T)] /\ One(T) \in Leave
    BY <1>6, TotalIs, RestOf
  <2> QED BY <1>1, <1>6, <2>1
<1> HIDE DEF P
<1>7. SUBSET Leave \subseteq P
  BY <1>5, <1>6, Subsets
<1> USE DEF P
<1> QED BY <1>1, <1>7, TotalIs

\* A leave that a step is not about is as it was.
LEMMA Apart ==
  ASSUME LeaveTypeOK, NEW k \in Leave, Agrees(k),
         NEW q \in LeaveReq, NEW r \in LeaveRequest, LeaveGoes(q, r),
         leave'[k] = leave[k], charged'[k] = charged[k],
         ~On(q, k), r.phase \in {"idle", "insert"} \/ r.leave # k
  PROVE  Agrees(k)'
<1>1. leaveReq'[q] = r /\ \A p \in LeaveReq \ {q} : leaveReq'[p] = leaveReq[p]
  BY LeaveMoves
<1>2. \A p \in LeaveReq : (On(p, k)' <=> On(p, k)) /\ (On(p, k) => leaveReq'[p] = leaveReq[p])
  BY <1>1 DEF On, LeaveBusy
<1>3. Alone(k)'
  BY <1>2 DEF Agrees, Alone
<1>4. ASSUME NEW p \in LeaveReq, On(p, k)' PROVE Informed(p, k)'
  BY <1>2, <1>4 DEF Agrees, Informed
<1>5. Account(k)'
  BY <1>2 DEF Agrees, Account
<1>6. Honoured(leave[k])'
  BY DEF Agrees, Honoured
<1> QED BY <1>3, <1>4, <1>5, <1>6 DEF Agrees

\* A leave that costs no more than it did keeps the quota, and so do all.
LEMMA QuotaStays ==
  ASSUME LeaveTypeOK, LeaveTypeOK', QuotaKept, torn \subseteq torn', rushed => rushed',
         torn' = {} =>
             \A k \in Leave : /\ Cost(leave'[k]) <= Cost(leave[k])
                              /\ Live(k)' => Live(k) /\ leave'[k].span = leave[k].span,
         torn' = {} /\ ~rushed' =>
             \A q \in LeaveReq : leaveReq'[q].phase = "insert" =>
                 leaveReq'[q] = leaveReq[q] /\ \A p \in LeaveReq \ {q} : ~LeaveBusy(p)'
  PROVE  QuotaKept'
<1> SUFFICES ASSUME torn' = {}, ~rushed'
             PROVE  /\ Total(Costs)' <= Quota
                    /\ \A l, k \in Leave : Live(l)' /\ Live(k)'
                           /\ leave'[l].span.date = leave'[k].span.date => l = k
                    /\ \A q \in LeaveReq : leaveReq'[q].phase = "insert" =>
                           /\ \A p \in LeaveReq \ {q} : ~LeaveBusy(p)'
                           /\ Total(Costs)' + leaveReq'[q].span.days <= Quota
                           /\ \A l \in Leave : Live(l)' =>
                                leave'[l].span.date # leaveReq'[q].span.date
  BY DEF QuotaKept
<1>1. torn = {} /\ ~rushed
  OBVIOUS
<1>2. PICK v, w, z : v = Costs' /\ w = Costs /\ z = [l \in Leave |-> 0]
  OBVIOUS
<1>3. v \in [Leave -> Int] /\ w \in [Leave -> Int] /\ z \in [Leave -> Int]
  BY <1>2, CostsTyped
<1>4. \A k \in Leave : v[k] + z[k] <= w[k]
  BY <1>2, <1>3 DEF Costs
<1>5. Total(z) = 0
  BY <1>2, TotalOfNone
<1>6. Total(v) <= Total(w) /\ Total(v) \in Int /\ Total(w) \in Int
  BY <1>3, <1>4, <1>5, TotalBounded, TotalTyped
<1>7. Total(Costs)' = Total(v) /\ Total(Costs) = Total(w)
  BY <1>2
<1>8. Quota \in Int /\ \A q \in LeaveReq : leaveReq[q].span.days \in Int
  <2>1. \A q \in LeaveReq : leaveReq[q].span \in Span
    BY DEF LeaveTypeOK, LeaveRequest
  <2> QED BY <2>1, LeaveGiven, SpanTyped
<1>9. \A q \in LeaveReq : leaveReq'[q].phase = "insert" => Total(Costs)' + leaveReq'[q].span.days <= Quota
  BY <1>1, <1>6, <1>7, <1>8 DEF QuotaKept
<1> QED BY <1>1, <1>6, <1>7, <1>8, <1>9 DEF QuotaKept

\* A request goes on with the leave it is at work on, or ends there.
LEMMA WorkKeeps ==
  ASSUME LeaveInv, NEW q \in LeaveReq, NEW l \in Leave, On(q, l),
         NEW r \in LeaveRequest, LeaveGoes(q, r), r.phase \in {"idle", "charge", "cancel"},
         r.phase # "idle" => r.leave = l,
         NEW row \in LeaveRow, leave' = [leave EXCEPT ![l] = row],
         NEW c \in Int, charged' = [charged EXCEPT ![l] = c],
         row.status # "none", row.lop <= row.span.days,
         torn \subseteq torn', torn' \subseteq Leave, rushed' = rushed,
         l \notin torn' =>
             Honoured(row) /\ Account(l)' /\ (r.phase # "idle" => Informed(q, l)'),
         torn' = {} => /\ Cost(row) <= Cost(leave[l]) /\ row.span = leave[l].span
                       /\ row.status \in {"pending", "approved"} => Live(l)
  PROVE  LeaveInv'
<1>1. /\ leaveReq' \in [LeaveReq -> LeaveRequest] /\ leaveReq'[q] = r
      /\ \A p \in LeaveReq \ {q} : leaveReq'[p] = leaveReq[p]
  BY LeaveMoves DEF LeaveInv
<1>2. /\ leave' \in [Leave -> LeaveRow] /\ leave'[l] = row
      /\ \A k \in Leave \ {l} : leave'[k] = leave[k]
      /\ charged' \in [Leave -> Int] /\ charged'[l] = c
      /\ \A k \in Leave \ {l} : charged'[k] = charged[k]
  BY DEF LeaveInv, LeaveTypeOK
<1>3. LeaveTypeOK'
  <2>1. \A k \in Leave : leave'[k].status # "none" => leave'[k].lop <= leave'[k].span.days
    BY <1>2 DEF LeaveInv, LeaveTypeOK
  <2> QED BY <1>1, <1>2, <2>1 DEF LeaveInv, LeaveTypeOK
<1>4. RequestsSound'
  BY <1>1, <1>2 DEF LeaveInv, RequestsSound, On, LeaveBusy, Decidable
<1>5. ASSUME NEW k \in Leave \ torn' PROVE Agrees(k)'
  <2>1. CASE k = l
    <3>1. \A p \in LeaveReq : On(p, l)' => p = q /\ r.phase # "idle"
      <4>1. Alone(l)
        BY <1>5, <2>1 DEF LeaveInv, Agrees
      <4> QED BY <1>1, <4>1 DEF Alone, On, LeaveBusy
    <3>2. Alone(l)'
      BY <3>1 DEF Alone
    <3>3. Honoured(leave[l])'
      BY <1>2, <1>5, <2>1 DEF Honoured
    <3> QED BY <1>5, <2>1, <3>1, <3>2, <3>3 DEF Agrees
  <2>2. CASE k # l
    <3>1. ~On(q, k) /\ (r.phase \in {"idle", "insert"} \/ r.leave # k)
      BY <2>2 DEF On
    <3>2. Agrees(k)
      BY <1>5 DEF LeaveInv
    <3> QED BY <1>2, <2>2, <3>1, <3>2, Apart DEF LeaveInv
  <2> QED BY <2>1, <2>2
<1>6. QuotaKept'
  <2>1. torn' = {} => \A k \in Leave : /\ Cost(leave'[k]) <= Cost(leave[k])
                                       /\ Live(k)' => Live(k) /\ leave'[k].span = leave[k].span
    <3>1. \A k \in Leave : Cost(leave[k]) \in Int
      BY CostTyped DEF LeaveInv, LeaveTypeOK
    <3> QED BY <1>2, <3>1 DEF Live
  <2>2. torn' = {} /\ ~rushed' => \A p \in LeaveReq : leaveReq'[p].phase # "insert"
    <3>1. torn' = {} /\ ~rushed' => \A p \in LeaveReq : leaveReq[p].phase # "insert"
      BY DEF LeaveInv, QuotaKept, On
    <3> QED BY <1>1, <3>1
  <2> QED BY <1>3, <2>1, <2>2, QuotaStays DEF LeaveInv
<1> QED BY <1>3, <1>4, <1>5, <1>6 DEF LeaveInv

\* A request begins work on a leave whose status it has just read.
LEMMA BeginKeeps ==
  ASSUME LeaveInv, NEW q \in LeaveReq, NEW l \in Leave, ~LeaveBusy(q),
         NEW r \in LeaveRequest, LeaveGoes(q, r), r.leave = l, r.phase \in {"decide", "refund", "cancel"},
         UNCHANGED <<leave, charged>>, Meets({l}), Rushes(FALSE),
         r.phase = "decide" => /\ leave[l].status = "pending" /\ r.steps = leave[l].steps
                               /\ Decidable(r.steps, r.who) # {},
         r.phase = "refund" => leave[l].status = "approved",
         r.phase = "cancel" => leave[l].status = "pending"
  PROVE  LeaveInv'
<1>1. /\ leaveReq' \in [LeaveReq -> LeaveRequest] /\ leaveReq'[q] = r
      /\ \A p \in LeaveReq \ {q} : leaveReq'[p] = leaveReq[p]
  BY LeaveMoves DEF LeaveInv
<1>2. /\ torn \subseteq torn' /\ torn' \subseteq Leave /\ rushed' \in BOOLEAN
      /\ l \notin torn' => \A p \in LeaveReq : ~On(p, l)
      /\ rushed => rushed'
      /\ ~rushed' => \A p \in LeaveReq : leaveReq[p].phase # "insert"
  BY DEF Meets, Rushes, LeaveInv, LeaveTypeOK, LeaveBusy
<1>3. LeaveTypeOK'
  BY <1>1, <1>2 DEF LeaveInv, LeaveTypeOK
<1>4. RequestsSound'
  BY <1>1 DEF LeaveInv, RequestsSound, LeaveBusy, Decidable
<1>5. ASSUME NEW k \in Leave \ torn' PROVE Agrees(k)'
  <2>0. Agrees(k)
    BY <1>2, <1>5 DEF LeaveInv
  <2>1. CASE k = l
    <3>1. (\A p \in LeaveReq : ~On(p, l)) /\ \A p \in LeaveReq : On(p, l)' => p = q
      BY <1>1, <1>2, <1>5, <2>1 DEF On, LeaveBusy
    <3>2. Alone(l)' /\ Honoured(leave[l])'
      BY <2>0, <2>1, <3>1 DEF Alone, Agrees, Honoured
    <3>3. Informed(q, l)'
      BY <1>1 DEF Informed
    <3>4. Account(l)'
      BY <2>0, <2>1, <3>1 DEF Agrees, Account
    <3> QED BY <2>1, <3>1, <3>2, <3>3, <3>4 DEF Agrees
  <2>2. CASE k # l
    <3>1. ~On(q, k) /\ r.leave # k
      BY <2>2 DEF On
    <3> QED BY <2>0, <3>1, Apart DEF LeaveInv
  <2> QED BY <2>1, <2>2
<1>6. QuotaKept'
  <2>1. \A k \in Leave : /\ Cost(leave'[k]) <= Cost(leave[k])
                         /\ Live(k)' => Live(k) /\ leave'[k].span = leave[k].span
    <3>1. \A k \in Leave : Cost(leave[k]) \in Int
      BY CostTyped DEF LeaveInv, LeaveTypeOK
    <3> QED BY <3>1 DEF Live
  <2>2. ~rushed' => \A p \in LeaveReq : leaveReq'[p].phase # "insert"
    BY <1>1, <1>2
  <2> QED BY <1>2, <1>3, <2>1, <2>2, QuotaStays DEF LeaveInv
<1> QED BY <1>3, <1>4, <1>5, <1>6 DEF LeaveInv

-----------------------------------------------------------------------------
(* Leave: the actions *)

LEMMA InitKeeps == LeaveInit => LeaveInv
<1> SUFFICES ASSUME LeaveInit PROVE LeaveInv
  OBVIOUS
<1>1. /\ \A l \in Leave : leave[l] = Unfiled /\ charged[l] = 0
      /\ \A q \in LeaveReq : leaveReq[q] = LeaveIdle
      /\ torn = {} /\ rushed = FALSE
  BY DEF LeaveInit
<1>2. Unfiled \in LeaveRow /\ Unfiled.status = "none" /\ Unfiled.lop = 0
  BY SpanTyped, IdleRequest DEF Unfiled, LeaveRow
<1>3. LeaveTypeOK
  <2>1. leave \in [Leave -> LeaveRow] /\ charged \in [Leave -> Int] /\ leaveReq \in [LeaveReq -> LeaveRequest]
    BY <1>2, IdleRequest DEF LeaveInit
  <2> QED BY <1>1, <1>2, <2>1 DEF LeaveTypeOK
<1>4. \A q \in LeaveReq : leaveReq[q].phase = "idle"
  BY <1>1, IdleRequest
<1>5. RequestsSound
  BY <1>4 DEF RequestsSound, LeaveBusy
<1>6. \A l \in Leave : Agrees(l)
  BY <1>1, <1>2, <1>4 DEF Agrees, Alone, On, LeaveBusy, Account, Honoured
<1>7. QuotaKept
  <2>1. PICK z : z = [l \in Leave |-> 0]
    OBVIOUS
  <2>2. Costs = z
    BY <1>1, <1>2, <2>1 DEF Costs, Cost
  <2>3. Total(Costs) = 0
    BY <2>1, <2>2, TotalOfNone
  <2> QED BY <1>1, <1>2, <1>4, <2>3, LeaveGiven DEF QuotaKept, Live
<1> QED BY <1>3, <1>5, <1>6, <1>7 DEF LeaveInv

LEMMA SumsTyped ==
  ASSUME LeaveTypeOK
  PROVE  Used \in Int /\ PendingDays \in Int /\ Total(Costs) \in Int
<1>1. PICK v, w :
         /\ v = charged
         /\ w = [l \in Leave |-> IF leave[l].status = "pending"
                                 THEN leave[l].span.days ELSE 0]
  OBVIOUS
<1>2. v \in [Leave -> Int] /\ w \in [Leave -> Int]
  BY <1>1, CostTyped DEF LeaveTypeOK
<1>3. Used = Total(v) /\ PendingDays = Total(w)
  BY <1>1 DEF Used, PendingDays
<1> QED BY <1>2, <1>3, CostsTyped, TotalTyped

\* When nobody is at work, what the leaves come to is what the balance shows.
LEMMA QuietCosts ==
  ASSUME LeaveInv, torn = {}, \A q \in LeaveReq : ~LeaveBusy(q)
  PROVE  Total(Costs) <= Used + PendingDays /\ Used + PendingDays \in Int
<1>1. PICK u, v, w :
         /\ u = Costs /\ v = charged
         /\ w = [l \in Leave |-> IF leave[l].status = "pending"
                                 THEN leave[l].span.days ELSE 0]
  OBVIOUS
<1>2. /\ u \in [Leave -> Int] /\ v \in [Leave -> Int] /\ w \in [Leave -> Int]
  BY <1>1, CostsTyped, CostTyped DEF LeaveInv, LeaveTypeOK
<1>3. ASSUME NEW l \in Leave PROVE u[l] = v[l] + w[l]
  <2>1. Account(l) /\ \A q \in LeaveReq : ~On(q, l)
    BY DEF LeaveInv, Agrees, On
  <2>2. leave[l] \in LeaveRow
    BY DEF LeaveInv, LeaveTypeOK
  <2>3. /\ u[l] = Cost(leave[l]) /\ v[l] = charged[l]
        /\ w[l] = IF leave[l].status = "pending" THEN leave[l].span.days ELSE 0
    BY <1>1 DEF Costs
  <2>4. leave[l].span.days \in Int /\ leave[l].lop \in Int
    BY <2>2, CostTyped
  <2> QED BY <2>1, <2>2, <2>3, <2>4 DEF Account, Cost, LeaveRow
<1>4. Total(u) = Total(v) + Total(w) /\ Total(u) \in Int
  BY <1>2, <1>3, TotalAdds, TotalTyped
<1>5. Total(Costs) = Total(u) /\ Used = Total(v) /\ PendingDays = Total(w)
  BY <1>1 DEF Used, PendingDays
<1> QED BY <1>4, <1>5

LEMMA ApplyStep ==
  ASSUME LeaveInv, NEW q \in LeaveReq, NEW span \in Span, NEW mode \in Modes, Apply(q, span, mode)
  PROVE  LeaveInv'
<1>1. PICK r : r = [LeaveIdle EXCEPT !.phase = "insert", !.span = span,
                                !.pending = mode # "none",
                                !.steps = IF mode = "none" THEN <<>>
                                          ELSE resolveApprovalChain(mode)]
  OBVIOUS
<1>2. PICK c \in Chains : c = IF mode = "none" THEN <<>> ELSE resolveApprovalChain(mode)
  BY ChainFound, IdleRequest
<1>3. /\ r \in LeaveRequest /\ r.phase = "insert" /\ r.span = span /\ r.steps = c
      /\ r.pending <=> mode # "none"
  BY <1>1, <1>2, IdleRequest DEF LeaveRequest, LeaveIdle
<1>4. /\ (\A i \in DOMAIN c : c[i].status = "pending") /\ (~r.pending => c = <<>>)
  <2>1. CASE mode = "none"
    BY <1>2, <1>3, <2>1
  <2>2. CASE mode # "none"
    BY <1>2, <1>3, <2>2, ChainFound
  <2> QED BY <2>1, <2>2
<1>5. ~LeaveBusy(q) /\ LeaveGoes(q, r) /\ UNCHANGED <<leave, charged, torn>> /\ Rushes(TRUE)
  BY <1>1 DEF Apply
<1>6. /\ leaveReq' \in [LeaveReq -> LeaveRequest] /\ leaveReq'[q] = r
      /\ \A p \in LeaveReq \ {q} : leaveReq'[p] = leaveReq[p]
  BY <1>3, <1>5, LeaveMoves DEF LeaveInv
<1>7. LeaveTypeOK'
  BY <1>5, <1>6 DEF LeaveInv, LeaveTypeOK, Rushes
<1>8. RequestsSound'
  BY <1>3, <1>4, <1>5, <1>6 DEF LeaveInv, RequestsSound, LeaveBusy, Decidable
<1>9. ASSUME NEW k \in Leave \ torn' PROVE Agrees(k)'
  BY <1>3, <1>5, <1>9, Apart DEF LeaveInv, On
<1>10. QuotaKept'
  <2> SUFFICES ASSUME torn' = {}, ~rushed' PROVE QuotaKept'
    BY DEF QuotaKept
  <2>1. torn = {} /\ ~rushed /\ \A p \in LeaveReq : ~LeaveBusy(p)
    BY <1>5 DEF Rushes
  <2>2. \A p \in LeaveReq \ {q} : ~LeaveBusy(p)' /\ leaveReq'[p].phase # "insert"
    BY <1>6, <2>1 DEF LeaveBusy
  <2>3. PICK x : x = Total(Costs)
    OBVIOUS
  <2>4. x \in Int /\ x + span.days <= Quota
    <3>1. x <= Used + PendingDays /\ Used + PendingDays \in Int
      BY <2>1, <2>3, QuietCosts
    <3>2. span.days <= Quota - Used - PendingDays
      BY DEF Apply, Available
    <3>3. Used \in Int /\ PendingDays \in Int /\ x \in Int
      BY <2>3, SumsTyped DEF LeaveInv
    <3> QED BY <3>1, <3>2, <3>3, LeaveGiven, SpanTyped
  <2>5. Costs' = Costs /\ \A k \in Leave : Live(k)' = Live(k)
    BY <1>5 DEF Costs, Live
  <2>6. Total(Costs)' = x
    BY <2>3, <2>5
  <2>7. \A l \in Leave : Live(l) => leave[l].span.date # span.date
    BY DEF Apply
  <2> QED BY <1>3, <1>5, <1>6, <2>1, <2>2, <2>3, <2>4, <2>5, <2>6, <2>7 DEF LeaveInv, QuotaKept
<1> QED BY <1>7, <1>8, <1>9, <1>10 DEF LeaveInv

LEMMA InsertKeeps ==
  ASSUME LeaveInv, NEW q \in LeaveReq, NEW l \in Leave, InsertLeave(q, l)
  PROVE  LeaveInv'
<1>1. PICK row : row = [status |-> IF leaveReq[q].pending THEN "pending" ELSE "approved",
                        span |-> leaveReq[q].span, lop |-> 0, steps |-> leaveReq[q].steps]
  OBVIOUS
<1>2. PICK r : r = IF leaveReq[q].pending THEN LeaveIdle
                   ELSE [LeaveIdle EXCEPT !.phase = "charge", !.leave = l,
                                     !.charge = leaveReq[q].span.days]
  OBVIOUS
<1>3. /\ leaveReq[q] \in LeaveRequest /\ leaveReq[q].phase = "insert" /\ leaveReq[q].span \in Span
      /\ leaveReq[q].span.days \in Nat \ {0}
  BY SpanTyped DEF InsertLeave, LeaveInv, LeaveTypeOK, LeaveRequest
<1>4. /\ row \in LeaveRow /\ row.lop = 0 /\ row.span = leaveReq[q].span
      /\ row.steps = leaveReq[q].steps
      /\ row.status = IF leaveReq[q].pending THEN "pending" ELSE "approved"
  BY <1>1, <1>3 DEF LeaveRow, LeaveRequest
<1>5. /\ r \in LeaveRequest
      /\ r.phase = IF leaveReq[q].pending THEN "idle" ELSE "charge"
      /\ ~leaveReq[q].pending => r.leave = l /\ r.charge = leaveReq[q].span.days
  <2>1. CASE leaveReq[q].pending
    BY <1>2, <2>1, IdleRequest
  <2>2. CASE ~leaveReq[q].pending
    <3>1. PICK c \in Int : c = leaveReq[q].span.days
      BY <1>3
    <3>2. r = [LeaveIdle EXCEPT !.phase = "charge", !.leave = l, !.charge = c]
      BY <1>2, <2>2, <3>1
    <3>3. r \in LeaveRequest /\ r.phase = "charge" /\ r.leave = l /\ r.charge = c
      BY <3>2, IdleRequest DEF LeaveRequest
    <3> QED BY <2>2, <3>1, <3>3
  <2> QED BY <2>1, <2>2
<1>6. /\ leave[l].status = "none" /\ leave' = [leave EXCEPT ![l] = row] /\ LeaveGoes(q, r)
      /\ UNCHANGED <<charged, torn, rushed>>
  BY <1>1, <1>2 DEF InsertLeave
<1>7. /\ leaveReq' \in [LeaveReq -> LeaveRequest] /\ leaveReq'[q] = r
      /\ \A p \in LeaveReq \ {q} : leaveReq'[p] = leaveReq[p]
  BY <1>5, <1>6, LeaveMoves DEF LeaveInv
<1>8. /\ leave' \in [Leave -> LeaveRow] /\ leave'[l] = row
      /\ \A k \in Leave \ {l} : leave'[k] = leave[k]
  BY <1>4, <1>6 DEF LeaveInv, LeaveTypeOK
<1>9. LeaveTypeOK'
  <2>1. \A k \in Leave : leave'[k].status # "none" => leave'[k].lop <= leave'[k].span.days
    BY <1>3, <1>4, <1>8 DEF LeaveInv, LeaveTypeOK
  <2> QED BY <1>6, <1>7, <1>8, <2>1 DEF LeaveInv, LeaveTypeOK
<1>10. RequestsSound'
  <2>1. r.phase \in {"idle", "charge"} /\ row.status # "none"
    BY <1>4, <1>5
  <2>2. \A k \in Leave : leave[k].status # "none" => leave'[k].status # "none"
    BY <1>8, <2>1
  <2>3. LeaveBusy(q)' => leave'[leaveReq'[q].leave].status # "none"
    BY <1>5, <1>7, <1>8, <2>1 DEF LeaveBusy
  <2>4. \A p \in LeaveReq : leaveReq[p].leave \in Leave
    BY DEF LeaveInv, LeaveTypeOK, LeaveRequest
  <2> QED BY <1>7, <2>1, <2>2, <2>3, <2>4 DEF LeaveInv, RequestsSound, LeaveBusy, Decidable
<1>11. ASSUME NEW k \in Leave \ torn' PROVE Agrees(k)'
  <2>0. Agrees(k)
    BY <1>6, <1>11 DEF LeaveInv
  <2>1. CASE k = l
    <3>1. \A p \in LeaveReq : ~On(p, l)
      BY <1>6 DEF LeaveInv, RequestsSound, On
    <3>2. \A p \in LeaveReq : On(p, l)' => p = q /\ ~leaveReq[q].pending
      BY <1>5, <1>7, <3>1 DEF On, LeaveBusy
    <3>3. Alone(l)'
      BY <3>2 DEF Alone
    <3>4. charged'[l] = 0
      BY <1>6, <2>0, <2>1 DEF Agrees, Account
    <3>5. ~leaveReq[q].pending => Informed(q, l)' /\ On(q, l)'
      BY <1>3, <1>4, <1>5, <1>7, <1>8, <3>4 DEF Informed, On, LeaveBusy
    <3>6. Account(l)'
      BY <1>4, <1>5, <1>7, <1>8, <3>4, <3>5 DEF Account
    <3>7. Honoured(row)
      <4>1. /\ \A i \in DOMAIN row.steps : row.steps[i].status = "pending"
            /\ ~leaveReq[q].pending => row.steps = <<>>
        BY <1>3, <1>4 DEF LeaveInv, RequestsSound
      <4>2. row.steps # <<>> => DOMAIN row.steps # {}
        BY <1>4, EmptyChain DEF LeaveRow
      <4>3. row.steps = <<>> => DOMAIN row.steps = {}
        OBVIOUS
      <4> QED BY <1>4, <4>1, <4>2, <4>3 DEF Honoured
    <3> QED BY <1>8, <2>1, <3>2, <3>3, <3>5, <3>6, <3>7 DEF Agrees, Honoured
  <2>2. CASE k # l
    <3>1. ~On(q, k) /\ (r.phase \in {"idle", "insert"} \/ r.leave # k)
      BY <1>3, <1>5, <2>2 DEF On
    <3> QED BY <1>5, <1>6, <1>8, <2>0, <2>2, <3>1, Apart DEF LeaveInv
  <2> QED BY <2>1, <2>2
<1>12. QuotaKept'
  <2> SUFFICES ASSUME torn' = {}, ~rushed' PROVE QuotaKept'
    BY DEF QuotaKept
  <2>1. torn = {} /\ ~rushed /\ \A p \in LeaveReq \ {q} : ~LeaveBusy(p)
    BY <1>3, <1>6 DEF LeaveInv, QuotaKept
  <2>2. \A p \in LeaveReq : leaveReq'[p].phase # "insert"
    BY <1>5, <1>7, <2>1 DEF LeaveBusy
  <2>3. PICK v, w : v = Costs' /\ w = Costs
    OBVIOUS
  <2>4. v \in [Leave -> Int] /\ w \in [Leave -> Int]
    BY <1>9, <2>3, CostsTyped DEF LeaveInv
  <2>5. (\A k \in Leave \ {l} : v[k] = w[k]) /\ w[l] = 0 /\ v[l] = leaveReq[q].span.days
    <3>1. (\A k \in Leave \ {l} : v[k] = w[k]) /\ w[l] = Cost(leave[l]) /\ v[l] = Cost(row)
      BY <1>8, <2>3 DEF Costs, Cost
    <3> QED BY <1>3, <1>4, <1>6, <3>1 DEF Cost
  <2>6. Total(v) = Total(w) + leaveReq[q].span.days
    <3>1. Total(v) = Total(w) + (v[l] - w[l]) /\ Total(w) \in Int
      BY <2>4, <2>5, TotalChanges, TotalTyped
    <3> QED BY <1>3, <2>5, <3>1
  <2>7. Total(Costs)' = Total(v) /\ Total(Costs) = Total(w)
    BY <2>3
  <2>8. Total(Costs)' <= Quota
    BY <1>3, <2>1, <2>6, <2>7 DEF LeaveInv, QuotaKept
  <2>9. \A k \in Leave : Live(k)' => (k = l /\ leave'[k].span = leaveReq[q].span)
                                      \/ (k # l /\ Live(k) /\ leave'[k] = leave[k])
    BY <1>4, <1>8 DEF Live
  <2>10. \A k, m \in Leave : Live(k)' /\ Live(m)' /\ leave'[k].span.date = leave'[m].span.date
                              => k = m
    BY <1>3, <2>1, <2>9 DEF LeaveInv, QuotaKept
  <2> QED BY <2>2, <2>8, <2>10 DEF QuotaKept
<1> QED BY <1>9, <1>10, <1>11, <1>12 DEF LeaveInv

LEMMA DecideKeeps ==
  ASSUME LeaveInv, NEW q \in LeaveReq, NEW u \in User, NEW l \in Leave, Decide(q, u, l)
  PROVE  LeaveInv'
<1>1. PICK r : r = [LeaveIdle EXCEPT !.phase = "decide", !.leave = l, !.who = u,
                                !.steps = leave[l].steps]
  OBVIOUS
<1>2. leave[l].steps \in Chains
  BY DEF LeaveInv, LeaveTypeOK, LeaveRow
<1>3. /\ r \in LeaveRequest /\ r.phase = "decide" /\ r.leave = l /\ r.who = u
      /\ r.steps = leave[l].steps
  BY <1>1, <1>2, IdleRequest DEF LeaveRequest
<1>4. /\ ~LeaveBusy(q) /\ LeaveGoes(q, r) /\ UNCHANGED <<leave, charged>>
      /\ Meets({l}) /\ Rushes(FALSE)
      /\ leave[l].status = "pending" /\ Decidable(r.steps, r.who) # {}
  BY <1>1, <1>3 DEF Decide
<1> QED BY <1>3, <1>4, BeginKeeps

LEMMA CancelKeeps ==
  ASSUME LeaveInv, NEW q \in LeaveReq, NEW l \in Leave, Cancel(q, l)
  PROVE  LeaveInv'
<1>1. PICK r : r = [LeaveIdle EXCEPT !.leave = l,
                       !.phase = IF leave[l].status = "approved" THEN "refund" ELSE "cancel"]
  OBVIOUS
<1>2. /\ r \in LeaveRequest /\ r.leave = l
      /\ r.phase = IF leave[l].status = "approved" THEN "refund" ELSE "cancel"
  BY <1>1, IdleRequest DEF LeaveRequest
<1>3. /\ ~LeaveBusy(q) /\ LeaveGoes(q, r) /\ UNCHANGED <<leave, charged>>
      /\ Meets({l}) /\ Rushes(FALSE) /\ leave[l].status \in {"pending", "approved"}
  BY <1>1 DEF Cancel, Live
<1> QED BY <1>2, <1>3, BeginKeeps

\* What a request at work on a leave may count on.
LEMMA AtWork ==
  ASSUME LeaveInv, NEW q \in LeaveReq, LeaveBusy(q), leaveReq[q].phase # "insert"
  PROVE  LET l == leaveReq[q].leave IN
         /\ l \in Leave /\ On(q, l) /\ leaveReq[q] \in LeaveRequest /\ leaveReq[q].charge \in Int
         /\ leave[l] \in LeaveRow /\ leave[l].status # "none"
         /\ leave[l].lop <= leave[l].span.days /\ charged[l] \in Int
         /\ leave[l].lop \in Nat /\ leave[l].span.days \in Nat \ {0}
         /\ l \notin torn =>
                /\ Informed(q, l) /\ Account(l) /\ Honoured(leave[l])
                /\ \A p \in LeaveReq : On(p, l) => p = q
<1>1. PICK l : l = leaveReq[q].leave
  OBVIOUS
<1>2. /\ l \in Leave /\ On(q, l) /\ leaveReq[q] \in LeaveRequest /\ leaveReq[q].charge \in Int
  BY <1>1 DEF LeaveInv, LeaveTypeOK, On, LeaveRequest
<1>3. /\ leave[l] \in LeaveRow /\ charged[l] \in Int /\ leave[l].status # "none"
      /\ leave[l].lop <= leave[l].span.days
  BY <1>1, <1>2 DEF LeaveInv, LeaveTypeOK, RequestsSound
<1>4. leave[l].lop \in Nat /\ leave[l].span.days \in Nat \ {0}
  BY <1>3, CostTyped
<1>5. l \notin torn =>
         /\ Informed(q, l) /\ Account(l) /\ Honoured(leave[l])
         /\ \A p \in LeaveReq : On(p, l) => p = q
  BY <1>2 DEF LeaveInv, Agrees, Alone
<1> QED BY <1>1, <1>2, <1>3, <1>4, <1>5

LEMMA DeclineKeeps ==
  ASSUME LeaveInv, NEW q \in LeaveReq, Decline(q)
  PROVE  LeaveInv'
<1>0. LeaveBusy(q) /\ leaveReq[q].phase # "insert" /\ leaveReq[q].phase = "decide"
  BY DEF Decline, LeaveBusy
<1>1. PICK l : l = leaveReq[q].leave
  OBVIOUS
<1>2. PICK m : m = Mine(q)
  OBVIOUS
<1>3. /\ l \in Leave /\ On(q, l) /\ leaveReq[q] \in LeaveRequest
      /\ leave[l] \in LeaveRow /\ leave[l].lop <= leave[l].span.days /\ charged[l] \in Int
      /\ leave[l].lop \in Nat /\ leave[l].span.days \in Nat \ {0}
      /\ l \notin torn => Informed(q, l) /\ Account(l)
  BY <1>0, <1>1, AtWork
<1>4. m \in DOMAIN leaveReq[q].steps
  BY <1>0, <1>2, <1>3, MineDecidable DEF LeaveInv, RequestsSound, LeaveRequest
<1>5. PICK c \in Chains :
         /\ c = [leave[l].steps EXCEPT ![m].status = "declined"]
         /\ DOMAIN c = DOMAIN leave[l].steps
         /\ \A j \in DOMAIN c : c[j].status = IF j = m THEN "declined" ELSE leave[l].steps[j].status
  <2>1. PICK s \in Chains : s = leave[l].steps
    BY <1>3 DEF LeaveRow
  <2>2. PICK c : c = Decided(s, m, "declined")
    OBVIOUS
  <2>3. /\ c \in Chains /\ DOMAIN c = DOMAIN s
        /\ \A j \in DOMAIN s : c[j].status = IF j = m THEN "declined" ELSE s[j].status
    BY <2>2, Decides
  <2> QED BY <2>1, <2>2, <2>3 DEF Decided
<1>6. PICK row : row = [leave[l] EXCEPT !.status = "declined", !.steps = c]
  OBVIOUS
<1>7. /\ row \in LeaveRow /\ row.status = "declined" /\ row.steps = c
      /\ row.lop = leave[l].lop /\ row.span = leave[l].span
  BY <1>3, <1>6 DEF LeaveRow
<1>8. leave' = [leave EXCEPT ![l] = row]
  <2>1. row = [leave[l] EXCEPT !.status = "declined", !.steps[m].status = "declined"]
    BY <1>3, <1>5, <1>6 DEF LeaveRow
  <2>2. leave' = [leave EXCEPT ![l].status = "declined", ![l].steps[m].status = "declined"]
    BY <1>1, <1>2 DEF Decline
  <2> QED BY <1>3, <2>1, <2>2 DEF LeaveInv, LeaveTypeOK
<1>9. /\ LeaveGoes(q, LeaveIdle) /\ UNCHANGED <<torn, rushed>>
      /\ charged' = [charged EXCEPT ![l] = charged[l]]
  BY DEF Decline, LeaveInv, LeaveTypeOK
<1>10. leave'[l] = row /\ charged'[l] = charged[l]
  BY <1>3, <1>8, <1>9 DEF LeaveInv, LeaveTypeOK
<1>11. l \notin torn' => Honoured(row) /\ Account(l)' /\ leave[l].status = "pending"
                         /\ leave[l].lop = 0
  <2> SUFFICES ASSUME l \notin torn PROVE Honoured(row) /\ Account(l)'
                         /\ leave[l].status = "pending" /\ leave[l].lop = 0
    BY <1>9
  <2>1. /\ leave[l].status = "pending" /\ leaveReq[q].steps = leave[l].steps
        /\ charged[l] = 0 /\ leave[l].lop = 0
    BY <1>0, <1>3 DEF Informed, Account
  <2>2. Honoured(row)
    BY <1>4, <1>5, <1>7, <2>1 DEF Honoured
  <2> QED BY <1>7, <1>10, <2>1, <2>2 DEF Account
<1>12. torn' = {} => Cost(row) <= Cost(leave[l])
  BY <1>3, <1>7, <1>9, <1>11 DEF Cost
<1> QED BY <1>3, <1>7, <1>8, <1>9, <1>11, <1>12, IdleRequest, WorkKeeps DEF LeaveInv, LeaveTypeOK

LEMMA ApproveStepKeeps ==
  ASSUME LeaveInv, NEW q \in LeaveReq, ApproveStep(q)
  PROVE  LeaveInv'
<1>0. LeaveBusy(q) /\ leaveReq[q].phase # "insert" /\ leaveReq[q].phase = "decide"
  BY DEF ApproveStep, LeaveBusy
<1>1. PICK l : l = leaveReq[q].leave
  OBVIOUS
<1>2. PICK m : m = Mine(q)
  OBVIOUS
<1>3. /\ l \in Leave /\ On(q, l) /\ leaveReq[q] \in LeaveRequest
      /\ leave[l] \in LeaveRow /\ leave[l].lop <= leave[l].span.days /\ charged[l] \in Int
      /\ leave[l].lop \in Nat /\ leave[l].span.days \in Nat \ {0}
      /\ leave[l].status # "none"
      /\ l \notin torn => Informed(q, l) /\ Account(l) /\ Honoured(leave[l])
  BY <1>0, <1>1, AtWork
<1>5. PICK c \in Chains :
         /\ c = [leave[l].steps EXCEPT ![m].status = "approved"]
         /\ DOMAIN c = DOMAIN leave[l].steps
         /\ \A j \in DOMAIN c : c[j].status = IF j = m THEN "approved" ELSE leave[l].steps[j].status
  <2>1. PICK s \in Chains : s = leave[l].steps
    BY <1>3 DEF LeaveRow
  <2>2. PICK c : c = Decided(s, m, "approved")
    OBVIOUS
  <2>3. /\ c \in Chains /\ DOMAIN c = DOMAIN s
        /\ \A j \in DOMAIN s : c[j].status = IF j = m THEN "approved" ELSE s[j].status
    BY <2>2, Decides
  <2> QED BY <2>1, <2>2, <2>3 DEF Decided
<1>6. PICK row : row = [leave[l] EXCEPT !.steps = c]
  OBVIOUS
<1>7. /\ row \in LeaveRow /\ row.status = leave[l].status /\ row.steps = c
      /\ row.lop = leave[l].lop /\ row.span = leave[l].span
  BY <1>3, <1>6 DEF LeaveRow
<1>8. leave' = [leave EXCEPT ![l] = row]
  <2>1. row = [leave[l] EXCEPT !.steps[m].status = "approved"]
    BY <1>3, <1>5, <1>6 DEF LeaveRow
  <2>2. leave' = [leave EXCEPT ![l].steps[m].status = "approved"]
    BY <1>1, <1>2 DEF ApproveStep
  <2> QED BY <1>3, <2>1, <2>2 DEF LeaveInv, LeaveTypeOK
<1>9. /\ LeaveGoes(q, LeaveIdle) /\ UNCHANGED <<torn, rushed>>
      /\ charged' = [charged EXCEPT ![l] = charged[l]]
  BY DEF ApproveStep, LeaveInv, LeaveTypeOK
<1>10. leave'[l] = row /\ charged'[l] = charged[l]
  BY <1>3, <1>8, <1>9 DEF LeaveInv, LeaveTypeOK
<1>11. l \notin torn' => Honoured(row) /\ Account(l)' /\ leave[l].status = "pending"
  <2> SUFFICES ASSUME l \notin torn PROVE Honoured(row) /\ Account(l)'
                         /\ leave[l].status = "pending"
    BY <1>9
  <2>1. /\ leave[l].status = "pending" /\ leaveReq[q].steps = leave[l].steps
        /\ charged[l] = 0 /\ leave[l].lop = 0
    BY <1>0, <1>3 DEF Informed, Account
  <2>2. PICK i \in DOMAIN c : i # m /\ leave[l].steps[i].status # "approved"
    BY <1>2, <1>5, <2>1 DEF ApproveStep, LastOfChain
  <2>3. \A j \in DOMAIN c : leave[l].steps[j].status # "declined"
    BY <1>3, <1>5, <2>1 DEF Honoured
  <2>4. leave[l].steps[i].status \in {"pending", "approved", "declined"}
    BY <1>3, <1>5, <2>2 DEF LeaveRow, Chains, ApprovalStep
  <2>5. c[i].status = "pending" /\ \A j \in DOMAIN c : c[j].status # "declined"
    BY <1>5, <2>2, <2>3, <2>4
  <2>6. Honoured(row)
    BY <1>7, <2>1, <2>2, <2>5 DEF Honoured
  <2> QED BY <1>7, <1>10, <2>1, <2>6 DEF Account
<1>12. torn' = {} => Cost(row) <= Cost(leave[l])
  BY <1>3, <1>7, <1>9, <1>11 DEF Cost
<1> QED BY <1>3, <1>7, <1>8, <1>9, <1>11, <1>12, IdleRequest, WorkKeeps DEF LeaveInv, LeaveTypeOK, Live

LEMMA ApproveLeaveKeeps ==
  ASSUME LeaveInv, NEW q \in LeaveReq, NEW unpaid \in Nat, ApproveLeave(q, unpaid)
  PROVE  LeaveInv'
<1>0. LeaveBusy(q) /\ leaveReq[q].phase # "insert" /\ leaveReq[q].phase = "decide"
  BY DEF ApproveLeave, LeaveBusy
<1>1. PICK l : l = leaveReq[q].leave
  OBVIOUS
<1>2. PICK m : m = Mine(q)
  OBVIOUS
<1>3. /\ l \in Leave /\ On(q, l) /\ leaveReq[q] \in LeaveRequest
      /\ leave[l] \in LeaveRow /\ leave[l].lop <= leave[l].span.days /\ charged[l] \in Int
      /\ leave[l].lop \in Nat /\ leave[l].span.days \in Nat \ {0}
      /\ l \notin torn =>
             /\ Informed(q, l) /\ Account(l) /\ Honoured(leave[l])
             /\ \A p \in LeaveReq : On(p, l) => p = q
  BY <1>0, <1>1, AtWork
<1>4. PICK d \in Nat : d = leave[l].span.days - unpaid /\ unpaid <= leave[l].span.days
  <2>1. unpaid <= leave[l].span.days
    BY <1>1 DEF ApproveLeave, LopAllowed
  <2>2. PICK n \in Nat : n = leave[l].span.days
    BY <1>3
  <2>3. n - unpaid \in Nat
    BY <2>1, <2>2
  <2> QED BY <2>1, <2>2, <2>3
<1>5. PICK c \in Chains :
         /\ c = [leave[l].steps EXCEPT ![m].status = "approved"]
         /\ DOMAIN c = DOMAIN leave[l].steps
         /\ \A j \in DOMAIN c : c[j].status = IF j = m THEN "approved" ELSE leave[l].steps[j].status
  <2>1. PICK s \in Chains : s = leave[l].steps
    BY <1>3 DEF LeaveRow
  <2>2. PICK c : c = Decided(s, m, "approved")
    OBVIOUS
  <2>3. /\ c \in Chains /\ DOMAIN c = DOMAIN s
        /\ \A j \in DOMAIN s : c[j].status = IF j = m THEN "approved" ELSE s[j].status
    BY <2>2, Decides
  <2> QED BY <2>1, <2>2, <2>3 DEF Decided
<1>6. PICK row : row = [leave[l] EXCEPT !.status = "approved", !.lop = unpaid, !.steps = c]
  OBVIOUS
<1>7. /\ row \in LeaveRow /\ row.status = "approved" /\ row.steps = c
      /\ row.lop = unpaid /\ row.span = leave[l].span
  BY <1>3, <1>6 DEF LeaveRow
<1>8. leave' = [leave EXCEPT ![l] = row]
  <2>1. row = [leave[l] EXCEPT !.status = "approved", !.lop = unpaid, !.steps[m].status = "approved"]
    BY <1>3, <1>5, <1>6 DEF LeaveRow
  <2>2. leave' = [leave EXCEPT ![l].status = "approved", ![l].lop = unpaid,
                               ![l].steps[m].status = "approved"]
    BY <1>1, <1>2 DEF ApproveLeave
  <2> QED BY <1>3, <2>1, <2>2 DEF LeaveInv, LeaveTypeOK
<1>9. PICK r : r = IF d <= 0 THEN LeaveIdle
                   ELSE [LeaveIdle EXCEPT !.phase = "charge", !.leave = l, !.charge = d]
  OBVIOUS
<1>10. /\ r \in LeaveRequest /\ r.phase \in {"idle", "charge"}
       /\ r.phase = "idle" => d = 0
       /\ r.phase = "charge" => r.leave = l /\ r.charge = d
  <2>1. CASE d <= 0
    BY <1>4, <1>9, <2>1, IdleRequest
  <2>2. CASE ~(d <= 0)
    <3>1. r = [LeaveIdle EXCEPT !.phase = "charge", !.leave = l, !.charge = d]
      BY <1>9, <2>2
    <3>2. l \in Leave /\ d \in Int
      BY <1>3
    <3>3. r \in LeaveRequest /\ r.phase = "charge" /\ r.leave = l /\ r.charge = d
      BY <3>1, <3>2, IdleRequest DEF LeaveRequest
    <3> QED BY <3>3
  <2> QED BY <2>1, <2>2
<1>11. /\ LeaveGoes(q, r) /\ UNCHANGED <<torn, rushed>>
       /\ charged' = [charged EXCEPT ![l] = charged[l]]
  BY <1>1, <1>4, <1>9 DEF ApproveLeave, ToCharge, LeaveInv, LeaveTypeOK
<1>12. /\ leave'[l] = row /\ charged'[l] = charged[l] /\ leaveReq'[q] = r
  BY <1>3, <1>8, <1>10, <1>11, LeaveMoves DEF LeaveInv, LeaveTypeOK
<1>13. l \notin torn' =>
          /\ Honoured(row) /\ Account(l)' /\ leave[l].status = "pending"
          /\ r.phase # "idle" => Informed(q, l)'
  <2> SUFFICES ASSUME l \notin torn
               PROVE  /\ Honoured(row) /\ Account(l)' /\ leave[l].status = "pending"
                      /\ r.phase # "idle" => Informed(q, l)'
    BY <1>11
  <2>1. /\ leave[l].status = "pending" /\ leaveReq[q].steps = leave[l].steps /\ charged[l] = 0
    BY <1>0, <1>3 DEF Informed, Account
  <2>2. \A j \in DOMAIN c : c[j].status = "approved"
    BY <1>2, <1>5, <2>1 DEF ApproveLeave, LastOfChain
  <2>3. Honoured(row)
    BY <1>7, <2>2 DEF Honoured
  <2>4. r.phase # "idle" => Informed(q, l)' /\ On(q, l)'
    BY <1>4, <1>7, <1>10, <1>12, <2>1 DEF Informed, On, LeaveBusy
  <2>5. Account(l)'
    BY <1>4, <1>7, <1>10, <1>12, <2>1, <2>4 DEF Account
  <2> QED BY <2>1, <2>3, <2>4, <2>5
<1>14. torn' = {} => Cost(row) <= Cost(leave[l])
  BY <1>3, <1>7, <1>11, <1>13 DEF Cost
<1> QED BY <1>3, <1>4, <1>7, <1>8, <1>10, <1>11, <1>13, <1>14, WorkKeeps DEF LeaveInv, LeaveTypeOK, Live

LEMMA ChargeKeeps ==
  ASSUME LeaveInv, NEW q \in LeaveReq, Charge(q)
  PROVE  LeaveInv'
<1>0. LeaveBusy(q) /\ leaveReq[q].phase # "insert" /\ leaveReq[q].phase = "charge"
  BY DEF Charge, LeaveBusy
<1>1. PICK l, row : l = leaveReq[q].leave /\ row = leave[l]
  OBVIOUS
<1>2. /\ l \in Leave /\ On(q, l) /\ leaveReq[q] \in LeaveRequest /\ leaveReq[q].charge \in Int
      /\ row \in LeaveRow /\ row.lop <= row.span.days /\ charged[l] \in Int
      /\ row.lop \in Nat /\ row.span.days \in Nat \ {0} /\ row.status # "none"
      /\ l \notin torn =>
             /\ Informed(q, l) /\ Account(l) /\ Honoured(row)
             /\ \A p \in LeaveReq : On(p, l) => p = q
  BY <1>0, <1>1, AtWork
<1>3. PICK c \in Int : c = charged[l] + leaveReq[q].charge
  BY <1>2
<1>4. /\ leave' = [leave EXCEPT ![l] = row] /\ charged' = [charged EXCEPT ![l] = c]
      /\ LeaveGoes(q, LeaveIdle) /\ UNCHANGED <<torn, rushed>>
  BY <1>1, <1>3 DEF Charge, LeaveInv, LeaveTypeOK
<1>5. leave'[l] = row /\ charged'[l] = c
  BY <1>2, <1>4 DEF LeaveInv, LeaveTypeOK
<1>6. l \notin torn' => Account(l)'
  BY <1>0, <1>1, <1>2, <1>3, <1>4, <1>5 DEF Informed, Account
<1>7. Cost(row) <= Cost(leave[l])
  BY <1>1, <1>2, CostTyped
<1> QED BY <1>1, <1>2, <1>4, <1>6, <1>7, IdleRequest, WorkKeeps DEF LeaveInv, LeaveTypeOK, Live

LEMMA RefundKeeps ==
  ASSUME LeaveInv, NEW q \in LeaveReq, Refund(q)
  PROVE  LeaveInv'
<1>0. LeaveBusy(q) /\ leaveReq[q].phase # "insert" /\ leaveReq[q].phase = "refund"
  BY DEF Refund, LeaveBusy
<1>1. PICK l, row : l = leaveReq[q].leave /\ row = leave[l]
  OBVIOUS
<1>2. /\ l \in Leave /\ On(q, l) /\ leaveReq[q] \in LeaveRequest
      /\ row \in LeaveRow /\ row.lop <= row.span.days /\ charged[l] \in Int
      /\ row.lop \in Nat /\ row.span.days \in Nat \ {0} /\ row.status # "none"
      /\ l \notin torn =>
             /\ Informed(q, l) /\ Account(l) /\ Honoured(row)
             /\ \A p \in LeaveReq : On(p, l) => p = q
  BY <1>0, <1>1, AtWork
<1>3. PICK c \in Int : c = charged[l] - row.span.days
  BY <1>2
<1>4. PICK r \in LeaveRequest : r = [leaveReq[q] EXCEPT !.phase = "cancel"]
  BY <1>2 DEF LeaveRequest
<1>5. r.phase = "cancel" /\ r.leave = l
  BY <1>1, <1>2, <1>4 DEF LeaveRequest
<1>6. /\ leave' = [leave EXCEPT ![l] = row] /\ charged' = [charged EXCEPT ![l] = c]
      /\ LeaveGoes(q, r) /\ UNCHANGED <<torn, rushed>>
  BY <1>1, <1>3, <1>4 DEF Refund, LeaveInv, LeaveTypeOK
<1>7. leave'[l] = row /\ charged'[l] = c /\ leaveReq'[q] = r
  BY <1>2, <1>6, LeaveMoves DEF LeaveInv, LeaveTypeOK
<1>8. On(q, l)'
  BY <1>5, <1>7 DEF On, LeaveBusy
<1>9. l \notin torn' => Account(l)' /\ Informed(q, l)'
  <2> SUFFICES ASSUME l \notin torn PROVE Account(l)' /\ Informed(q, l)'
    BY <1>6
  <2>1. row.status = "approved" /\ charged[l] = row.span.days - row.lop
    BY <1>0, <1>1, <1>2 DEF Informed, Account
  <2>2. c = 0 - row.lop
    BY <1>2, <1>3, <2>1
  <2> QED BY <1>5, <1>7, <1>8, <2>1, <2>2 DEF Account, Informed
<1>10. Cost(row) <= Cost(leave[l])
  BY <1>1, <1>2, CostTyped
<1> QED BY <1>1, <1>2, <1>5, <1>6, <1>9, <1>10, WorkKeeps DEF LeaveInv, LeaveTypeOK, Live

LEMMA CancelLeaveKeeps ==
  ASSUME LeaveInv, NEW q \in LeaveReq, cancelLeave(q)
  PROVE  LeaveInv'
<1>0. LeaveBusy(q) /\ leaveReq[q].phase # "insert" /\ leaveReq[q].phase = "cancel"
  BY DEF cancelLeave, LeaveBusy
<1>1. PICK l : l = leaveReq[q].leave
  OBVIOUS
<1>2. /\ l \in Leave /\ On(q, l) /\ leaveReq[q] \in LeaveRequest
      /\ leave[l] \in LeaveRow /\ leave[l].lop <= leave[l].span.days /\ charged[l] \in Int
      /\ leave[l].lop \in Nat /\ leave[l].span.days \in Nat \ {0}
      /\ l \notin torn => Informed(q, l) /\ Account(l)
  BY <1>0, <1>1, AtWork
<1>3. PICK row : row = [leave[l] EXCEPT !.status = "cancelled"]
  OBVIOUS
<1>4. /\ row \in LeaveRow /\ row.status = "cancelled" /\ row.steps = leave[l].steps
      /\ row.lop = leave[l].lop /\ row.span = leave[l].span
  BY <1>2, <1>3 DEF LeaveRow
<1>5. /\ leave' = [leave EXCEPT ![l] = row]
      /\ charged' = [charged EXCEPT ![l] = charged[l]]
      /\ LeaveGoes(q, LeaveIdle) /\ UNCHANGED <<torn, rushed>>
  BY <1>1, <1>3 DEF cancelLeave, LeaveInv, LeaveTypeOK
<1>6. leave'[l] = row /\ charged'[l] = charged[l]
  BY <1>2, <1>5 DEF LeaveInv, LeaveTypeOK
<1>7. l \notin torn' => Honoured(row) /\ Account(l)' /\ Cost(row) <= Cost(leave[l])
  <2> SUFFICES ASSUME l \notin torn
               PROVE  Honoured(row) /\ Account(l)' /\ Cost(row) <= Cost(leave[l])
    BY <1>5
  <2>1. /\ leave[l].status = "pending" \/ leave[l].status = "approved"
        /\ charged[l] = 0 - leave[l].lop
        /\ leave[l].status = "pending" => leave[l].lop = 0
    BY <1>0, <1>2 DEF Informed, Account
  <2>2. Cost(row) <= Cost(leave[l])
    BY <1>2, <1>4, <2>1 DEF Cost
  <2> QED BY <1>4, <1>6, <2>1, <2>2 DEF Account, Honoured
<1>8. torn' = {} => Cost(row) <= Cost(leave[l])
  BY <1>7
<1> QED BY <1>2, <1>4, <1>5, <1>7, <1>8, IdleRequest, WorkKeeps DEF LeaveInv, LeaveTypeOK, Live

LEMMA DieKeeps ==
  ASSUME LeaveInv, NEW q \in LeaveReq, LeaveDie(q)
  PROVE  LeaveInv'
<1>1. CASE leaveReq[q].phase = "insert"
  <2>1. /\ LeaveGoes(q, LeaveIdle) /\ UNCHANGED <<leave, charged, torn, rushed>>
    BY <1>1 DEF LeaveDie
  <2>2. /\ leaveReq' \in [LeaveReq -> LeaveRequest] /\ leaveReq'[q] = LeaveIdle
        /\ \A p \in LeaveReq \ {q} : leaveReq'[p] = leaveReq[p]
    BY <2>1, IdleRequest, LeaveMoves DEF LeaveInv
  <2>3. LeaveTypeOK'
    BY <2>1, <2>2 DEF LeaveInv, LeaveTypeOK
  <2>4. RequestsSound'
    BY <2>1, <2>2, IdleRequest DEF LeaveInv, RequestsSound, LeaveBusy, Decidable
  <2>5. ASSUME NEW k \in Leave \ torn' PROVE Agrees(k)'
    BY <1>1, <2>1, <2>5, IdleRequest, Apart DEF LeaveInv, On
  <2>6. QuotaKept'
    <3>1. \A k \in Leave : /\ Cost(leave'[k]) <= Cost(leave[k])
                           /\ Live(k)' => Live(k) /\ leave'[k].span = leave[k].span
      BY <2>1, CostTyped DEF LeaveInv, LeaveTypeOK, Live
    <3>2. \A p \in LeaveReq : leaveReq'[p].phase = "insert" => p # q /\ leaveReq[p].phase = "insert"
      BY <2>2, IdleRequest
    <3>3. torn' = {} /\ ~rushed' => \A p \in LeaveReq : leaveReq'[p].phase # "insert"
      <4>1. torn = {} /\ ~rushed => \A p \in LeaveReq \ {q} : ~LeaveBusy(p)
        BY <1>1 DEF LeaveInv, QuotaKept
      <4> QED BY <2>1, <3>2, <4>1 DEF LeaveBusy
    <3> QED BY <2>1, <2>3, <3>1, <3>3, QuotaStays DEF LeaveInv
  <2> QED BY <2>3, <2>4, <2>5, <2>6 DEF LeaveInv
<1>2. CASE leaveReq[q].phase # "insert"
  <2>0. LeaveBusy(q)
    BY DEF LeaveDie
  <2>1. PICK l, row : l = leaveReq[q].leave /\ row = leave[l]
    OBVIOUS
  <2>2. /\ l \in Leave /\ On(q, l) /\ leaveReq[q] \in LeaveRequest
        /\ row \in LeaveRow /\ row.lop <= row.span.days /\ charged[l] \in Int
        /\ row.lop \in Nat /\ row.span.days \in Nat \ {0} /\ row.status # "none"
        /\ l \notin torn =>
               /\ Informed(q, l) /\ Account(l) /\ Honoured(row)
               /\ \A p \in LeaveReq : On(p, l) => p = q
    BY <1>2, <2>0, <2>1, AtWork
  <2>3. PICK c \in Int : c = charged[l]
    BY <2>2
  <2>4. /\ leave' = [leave EXCEPT ![l] = row] /\ charged' = [charged EXCEPT ![l] = c]
        /\ LeaveGoes(q, LeaveIdle) /\ rushed' = rushed
        /\ torn \subseteq torn' /\ torn' \subseteq Leave
        /\ l \notin torn' => l \notin torn /\ leaveReq[q].phase \notin {"charge", "cancel"}
    BY <2>1, <2>2, <2>3 DEF LeaveDie, LeaveInv, LeaveTypeOK
  <2>5. leave'[l] = row /\ charged'[l] = c
    BY <2>2, <2>4 DEF LeaveInv, LeaveTypeOK
  <2>6. l \notin torn' => Honoured(row) /\ Account(l)'
    <3> SUFFICES ASSUME l \notin torn, leaveReq[q].phase \in {"decide", "refund"}
                 PROVE  Account(l)'
      BY <1>2, <2>0, <2>2, <2>4 DEF LeaveBusy, LeaveRequest
    <3> QED BY <2>1, <2>2, <2>3, <2>5 DEF Account, Informed
  <2>7. Cost(row) <= Cost(leave[l])
    BY <2>1, <2>2, CostTyped
  <2> QED BY <2>1, <2>2, <2>4, <2>6, <2>7, IdleRequest, WorkKeeps DEF Live
<1> QED BY <1>1, <1>2

LEMMA NextKeeps == LeaveInv /\ [LeaveNext]_leaveVars => LeaveInv'
<1> SUFFICES ASSUME LeaveInv, [LeaveNext]_leaveVars PROVE LeaveInv'
  OBVIOUS
<1>1. CASE UNCHANGED leaveVars
  <2>1. UNCHANGED <<leave, charged, leaveReq, torn, rushed>>
    BY <1>1 DEF leaveVars
  <2>2. LeaveTypeOK'
    BY <2>1 DEF LeaveInv, LeaveTypeOK
  <2>3. RequestsSound'
    BY <2>1 DEF LeaveInv, RequestsSound, LeaveBusy, Decidable
  <2>4. \A k \in Leave \ torn' : Agrees(k)'
    BY <2>1 DEF LeaveInv, Agrees, Alone, On, LeaveBusy, Informed, Account, Honoured
  <2>5. QuotaKept'
    <3>1. \A k \in Leave : /\ Cost(leave'[k]) <= Cost(leave[k])
                           /\ Live(k)' => Live(k) /\ leave'[k].span = leave[k].span
      BY <2>1, CostTyped DEF LeaveInv, LeaveTypeOK, Live
    <3> QED BY <2>1, <2>2, <3>1, QuotaStays DEF LeaveInv, QuotaKept, LeaveBusy
  <2> QED BY <2>2, <2>3, <2>4, <2>5 DEF LeaveInv
<1>2. CASE LeaveNext
  <2>1. PICK q \in LeaveReq :
           \/ \E s \in Span, m \in Modes : Apply(q, s, m)
           \/ \E l \in Leave : InsertLeave(q, l) \/ Cancel(q, l)
           \/ \E l \in Leave, u \in User : Decide(q, u, l)
           \/ \E n \in DayCounts : \E unpaid \in 0..n : ApproveLeave(q, unpaid)
           \/ Decline(q) \/ ApproveStep(q) \/ Charge(q)
           \/ Refund(q) \/ cancelLeave(q) \/ LeaveDie(q)
    BY <1>2 DEF LeaveNext
  <2>2. CASE \E s \in Span, m \in Modes : Apply(q, s, m)
    BY <2>2, ApplyStep
  <2>3. CASE \E l \in Leave : InsertLeave(q, l) \/ Cancel(q, l)
    BY <2>3, InsertKeeps, CancelKeeps
  <2>4. CASE \E l \in Leave, u \in User : Decide(q, u, l)
    BY <2>4, DecideKeeps
  <2>5. CASE \E n \in DayCounts : \E unpaid \in 0..n : ApproveLeave(q, unpaid)
    <3>1. PICK n \in DayCounts : \E unpaid \in 0..n : ApproveLeave(q, unpaid)
      BY <2>5
    <3>2. PICK unpaid \in Nat : ApproveLeave(q, unpaid)
      BY <3>1
    <3> QED BY <3>2, ApproveLeaveKeeps
  <2>6. CASE Decline(q) \/ ApproveStep(q)
    BY <2>6, DeclineKeeps, ApproveStepKeeps
  <2>7. CASE Charge(q) \/ Refund(q)
    BY <2>7, ChargeKeeps, RefundKeeps
  <2>8. CASE cancelLeave(q) \/ LeaveDie(q)
    BY <2>8, CancelLeaveKeeps, DieKeeps
  <2> QED BY <2>1, <2>2, <2>3, <2>4, <2>5, <2>6, <2>7, <2>8
<1> QED BY <1>1, <1>2

LEMMA LeavesInvariant == LeaveSpec => []LeaveInv
<1> QED BY InitKeeps, NextKeeps, PTL DEF LeaveSpec

\* Leaves, their chains of approval and the ledger keep their types, and no leave has
\* more unpaid days than days (staff_leave_lop_days_chk).
THEOREM LeavesTyped == LeaveSpec => []LeaveTypeOK
<1>1. LeaveInv => LeaveTypeOK
  BY DEF LeaveInv
<1> QED BY <1>1, LeavesInvariant, PTL

\* A leave on which no two requests met is charged exactly while it is approved, for
\* its paid days, once nothing is owed of it (commitBalance, cancel).
THEOREM BalanceMatches == LeaveSpec => []ChargedWhileApproved
<1>1. ASSUME LeaveInv, NEW l \in Leave, Settled(l)
      PROVE  charged[l] = (IF leave[l].status = "approved" THEN leave[l].span.days ELSE 0)
                          - leave[l].lop
  <2>1. Account(l) /\ \A q \in LeaveReq : ~On(q, l)
    BY <1>1 DEF LeaveInv, Agrees, Settled
  <2>2. leave[l] \in LeaveRow
    BY <1>1 DEF LeaveInv, LeaveTypeOK
  <2>3. leave[l].lop \in Nat /\ leave[l].span.days \in Nat
    BY <2>2, CostTyped
  <2> QED BY <2>1, <2>2, <2>3 DEF Account, LeaveRow
<1>2. LeaveInv => ChargedWhileApproved
  BY <1>1 DEF ChargedWhileApproved
<1> QED BY <1>2, LeavesInvariant, PTL

\* The status of a leave on which no two requests met is what its steps make of it
\* (decide).
THEOREM ChainsAreReal == LeaveSpec => []ChainHonoured
<1>1. LeaveInv => ChainHonoured
  BY DEF LeaveInv, Agrees, ChainHonoured
<1> QED BY <1>1, LeavesInvariant, PTL

\* The balance shows no more of a leave that is not torn than it comes to.
LEMMA BookedAtMost ==
  ASSUME LeaveInv, NEW l \in Leave \ torn
  PROVE  charged[l] + (IF leave[l].status = "pending" THEN leave[l].span.days ELSE 0)
           <= Cost(leave[l])
<1>1. /\ Account(l) /\ \A q \in LeaveReq : On(q, l) => Informed(q, l)
  BY DEF LeaveInv, Agrees
<1>2. /\ leave[l] \in LeaveRow /\ charged[l] \in Int
      /\ leave[l].status # "none" => leave[l].lop <= leave[l].span.days
  BY DEF LeaveInv, LeaveTypeOK
<1>3. leave[l].span.days \in Nat /\ leave[l].lop \in Nat
  BY <1>2, CostTyped
<1>4. CASE leave[l].status = "approved"
  <2>1. charged[l] <= leave[l].span.days - leave[l].lop
    <3>1. CASE \A q \in LeaveReq : On(q, l) => leaveReq[q].phase = "refund"
      BY <1>1, <1>3, <1>4, <3>1 DEF Account
    <3>2. CASE \E q \in LeaveReq : On(q, l) /\ leaveReq[q].phase # "refund"
      <4>1. PICK q \in LeaveReq : On(q, l) /\ leaveReq[q].phase # "refund"
        BY <3>2
      <4>2. leaveReq[q].phase \in {"charge", "cancel"}
        BY <1>1, <1>4, <4>1 DEF On, LeaveBusy, Informed, LeaveInv, LeaveTypeOK, LeaveRequest
      <4>3. charged[l] = 0 \/ charged[l] = 0 - leave[l].lop
        BY <1>1, <1>4, <4>1, <4>2 DEF Informed
      <4> QED BY <1>2, <1>3, <1>4, <4>3
    <3> QED BY <3>1, <3>2
  <2> QED BY <1>2, <1>3, <1>4, <2>1 DEF Cost
<1>5. CASE leave[l].status = "pending"
  BY <1>1, <1>3, <1>5 DEF Account, Cost
<1>6. CASE leave[l].status = "cancelled"
  BY <1>1, <1>3, <1>6 DEF Account, Cost
<1>7. CASE leave[l].status \in {"none", "declined"}
  BY <1>1, <1>3, <1>7 DEF Account, Cost
<1> QED BY <1>2, <1>4, <1>5, <1>6, <1>7 DEF LeaveRow

\* Unless an application ran beside another request or a leave was torn, the paid days
\* asked for and taken exceed the quota by no more than the unpaid days that cancelling
\* handed back, and live leaves do not overlap (applyLeave, cancel).
THEOREM QuotaIsKept == LeaveSpec => []BookedWithinQuota
<1>1. ASSUME LeaveInv, torn = {}, ~rushed
      PROVE  PaidDays <= Quota + HandedBack
  <2>1. PICK u, v, w :
           /\ u = Costs
           /\ v = [l \in Leave |-> IF leave[l].status = "cancelled" THEN leave[l].lop ELSE 0]
           /\ w = [l \in Leave |-> IF Live(l) THEN leave[l].span.days - leave[l].lop ELSE 0]
    OBVIOUS
  <2>2. \A l \in Leave : /\ leave[l] \in LeaveRow /\ leave[l].lop \in Nat
                         /\ leave[l].span.days \in Nat
                         /\ leave[l].status = "pending" => leave[l].lop = 0
    BY <1>1, CostTyped DEF LeaveInv, LeaveTypeOK, Agrees, Account
  <2>3. u \in [Leave -> Int] /\ v \in [Leave -> Int] /\ w \in [Leave -> Int]
    BY <1>1, <2>1, <2>2, CostsTyped DEF LeaveInv
  <2>4. ASSUME NEW l \in Leave PROVE u[l] + v[l] = w[l]
    <3>1. Cost(leave[l]) + (IF leave[l].status = "cancelled" THEN leave[l].lop ELSE 0)
            = IF Live(l) THEN leave[l].span.days - leave[l].lop ELSE 0
      BY <2>2 DEF Cost, Live, LeaveRow
    <3> QED BY <2>1, <3>1 DEF Costs
  <2>5. Total(u) + Total(v) = Total(w)
    BY <2>3, <2>4, TotalAdds
  <2>6. Total(Costs) = Total(u) /\ HandedBack = Total(v) /\ PaidDays = Total(w)
    BY <2>1 DEF HandedBack, PaidDays
  <2>7. Total(Costs) <= Quota
    BY <1>1 DEF LeaveInv, QuotaKept
  <2>8. Total(u) \in Int /\ Total(v) \in Int /\ Total(w) \in Int /\ Quota \in Int
    BY <2>3, TotalTyped, LeaveGiven
  <2> QED BY <2>5, <2>6, <2>7, <2>8
<1>2. LeaveInv => BookedWithinQuota
  BY <1>1 DEF LeaveInv, QuotaKept, BookedWithinQuota
<1> QED BY <1>2, LeavesInvariant, PTL

-----------------------------------------------------------------------------
(* Payroll *)

USE PayrollConstants

\* The three parts of the invariant that only hold until requests mix.
Agree == PhasesAgree /\ BooksAgree /\ CompletionAgrees

LEMMA IdleTyped ==
    /\ Idle \in Request /\ Idle.phase = "idle" /\ Idle.who \in Staff
    /\ Idle.figures \in [Staff -> Nat]
BY DEF Idle, Request, Phase

\* A request that moves on is still a request, and keeps the rest of what it knows.
LEMMA Phased ==
  ASSUME NEW r \in Request, NEW x \in Phase
  PROVE  LET new == [r EXCEPT !.phase = x]
         IN  new \in Request /\ new.phase = x /\ new.all = r.all
BY DEF Request

\* The three ways a request begins.
LEMMA Begins ==
  ASSUME NEW s \in Staff, NEW f \in [Staff -> Nat]
  PROVE  /\ [Idle EXCEPT !.phase = "replace", !.figures = f] \in Request
         /\ [Idle EXCEPT !.phase = "approve"] \in Request
         /\ [Idle EXCEPT !.phase = "slip", !.who = s] \in Request
         /\ [Idle EXCEPT !.phase = "replace", !.figures = f].phase = "replace"
         /\ [Idle EXCEPT !.phase = "approve"].phase = "approve"
         /\ [Idle EXCEPT !.phase = "slip", !.who = s].phase = "slip"
BY IdleTyped DEF Request, Phase, Idle

LEMMA ProgressTyped ==
  ASSUME NEW r \in Request, NEW a \in BOOLEAN, NEW n \in Nat
  PROVE  LET new == [r EXCEPT !.phase = "count", !.all = a, !.paid = n]
         IN  new \in Request /\ new.phase = "count" /\ new.all = a
BY DEF Request, Phase

\* Only the row of q moves.
LEMMA Moves ==
  ASSUME TypeOK, NEW q \in Req, NEW r \in Request, Goes(q, r)
  PROVE  /\ req' \in [Req -> Request] /\ req'[q] = r
         /\ \A p \in Req \ {q} : req'[p] = req[p]
BY DEF Goes, TypeOK

LEMMA Counts == Cardinality(Staff) \in Nat /\ Cardinality(Paid) \in Nat
<1>1. Paid \subseteq Staff
  BY DEF Paid
<1> QED BY <1>1, FS_CardinalityType, FS_Subset

LEMMA InitInv == Init => IInv
<1> SUFFICES ASSUME Init PROVE IInv
  OBVIOUS
<1>1. TypeOK
  BY IdleTyped DEF Init, TypeOK, NoSlip, Slip
<1>2. AnnouncedOnce
  BY DEF Init, AnnouncedOnce
<1>3. \A q \in Req : req[q].phase = "idle"
  BY IdleTyped DEF Init
<1>4. PhasesAgree
  BY <1>3 DEF PhasesAgree, Computing, Approving, Paying
<1>5. BooksAgree
  BY DEF Init, BooksAgree, Unpaid
<1>6. Paid # Staff
  BY DEF Init, Paid
<1>7. CompletionAgrees
  BY <1>3, <1>6 DEF Init, CompletionAgrees, Sees, At
<1> QED BY <1>1, <1>2, <1>4, <1>5, <1>7 DEF IInv

-----------------------------------------------------------------------------
(* What the steps keep whatever they meet *)

LEMMA StepTyped ==
  ASSUME TypeOK, AnnouncedOnce, NEW q \in Req,
         \/ Compute(q) \/ replacePayslips(q) \/ Review(q)
         \/ Approve(q) \/ setApproved(q) \/ Finalise(q) \/ openDisbursements(q)
         \/ \E s \in Staff : Pay(q, s)
         \/ PaySlip(q) \/ Progress(q) \/ Count(q) \/ Complete(q)
         \/ Die(q)
  PROVE  TypeOK' /\ AnnouncedOnce'
<1> USE DEF TypeOK
<1>r. req[q] \in Request
  OBVIOUS
<1>x. Phase = {"idle", "replace", "review", "approve", "finalise", "open",
               "slip", "progress", "count", "complete"}
  BY DEF Phase
<1>1. CASE Compute(q)
  <2>1. req' \in [Req -> Request]
    BY <1>1, Begins, Moves DEF Compute
  <2> QED BY <1>1, <2>1 DEF Compute, AnnouncedOnce
<1>2. CASE replacePayslips(q)
  <2>1. req[q].figures \in [Staff -> Nat]
    BY <1>r DEF Request
  <2>2. slip' \in [Staff -> Slip]
    BY <1>2, <2>1 DEF replacePayslips, Slip
  <2>3. \A p \in Req : /\ [req[p] EXCEPT !.phase = "review"] \in Request
                       /\ [req[p] EXCEPT !.phase = "progress"] \in Request
    BY Phased, <1>x
  <2>4. req' \in [Req -> Request]
    BY <1>2, <2>3 DEF replacePayslips
  <2>5. /\ run' \in [status : {"draft", "review", "approved", "paid"}, count : Nat,
                     paidCount : Nat, notified : BOOLEAN]
        /\ run'.notified = run.notified
    BY <1>2, Counts DEF replacePayslips
  <2>6. due' \in [Staff -> {"none", "pending", "paid"}]
    BY <1>2 DEF replacePayslips
  <2> QED BY <1>2, <2>2, <2>4, <2>5, <2>6 DEF replacePayslips, AnnouncedOnce, History
<1>3. CASE Review(q)
  <2>1. req' \in [Req -> Request]
    BY <1>3, IdleTyped, Moves DEF Review
  <2> QED BY <1>3, <2>1 DEF Review, AnnouncedOnce, History
<1>4. CASE Approve(q)
  <2>1. req' \in [Req -> Request]
    BY <1>4, Begins, Moves DEF Approve
  <2> QED BY <1>4, <2>1 DEF Approve, AnnouncedOnce
<1>5. CASE setApproved(q)
  <2>1. req' \in [Req -> Request]
    BY <1>5, <1>r, <1>x, Phased, Moves DEF setApproved, To
  <2> QED BY <1>5, <2>1 DEF setApproved, AnnouncedOnce, History
<1>6. CASE Finalise(q)
  <2>1. req' \in [Req -> Request]
    BY <1>6, <1>r, <1>x, Phased, Moves DEF Finalise, To
  <2>2. slip' \in [Staff -> Slip]
    BY <1>6 DEF Finalise, Slip
  <2> QED BY <1>6, <2>1, <2>2 DEF Finalise, AnnouncedOnce, History
<1>7. CASE openDisbursements(q)
  <2>1. req' \in [Req -> Request]
    BY <1>7, IdleTyped, Moves DEF openDisbursements
  <2> QED BY <1>7, <2>1 DEF openDisbursements, AnnouncedOnce, History
<1>8. ASSUME NEW s \in Staff, Pay(q, s) PROVE TypeOK' /\ AnnouncedOnce'
  <2>1. req' \in [Req -> Request]
    BY <1>8, Begins, Moves DEF Pay
  <2>2. mixed' \in BOOLEAN
    BY <1>8 DEF Pay
  <2>3. due' \in [Staff -> {"none", "pending", "paid"}] /\ payments' \in [Staff -> Nat]
    <3>1. due' = [due EXCEPT ![s] = "paid"] /\ payments' = [payments EXCEPT ![s] = @ + 1]
      BY <1>8 DEF Pay
    <3> QED BY <3>1
  <2>4. UNCHANGED <<lop, run, slip, completed, cut>>
    BY <1>8 DEF Pay
  <2> QED BY <2>1, <2>2, <2>3, <2>4 DEF AnnouncedOnce
<1>9. CASE PaySlip(q)
  <2>1. req' \in [Req -> Request]
    BY <1>9, <1>r, <1>x, Phased, Moves DEF PaySlip, To
  <2>2. slip' \in [Staff -> Slip]
    BY <1>9 DEF PaySlip, Slip
  <2> QED BY <1>9, <2>1, <2>2 DEF PaySlip, AnnouncedOnce, History
<1>10. CASE Progress(q)
  <2>1. req' \in [Req -> Request]
    BY <1>10, <1>r, ProgressTyped, Counts, Moves DEF Progress, AllPaid
  <2> QED BY <1>10, <2>1 DEF Progress, AnnouncedOnce, History
<1>11. CASE Count(q)
  <2>1. req' \in [Req -> Request]
    BY <1>11, <1>r, <1>x, Phased, IdleTyped, Moves DEF Count, To
  <2>2. req[q].paid \in Nat
    BY <1>r DEF Request
  <2> QED BY <1>11, <2>1, <2>2 DEF Count, AnnouncedOnce, History
<1>12. CASE Complete(q)
  <2>1. req' \in [Req -> Request]
    BY <1>12, IdleTyped, Moves DEF Complete
  <2>2. CASE FirstToComplete
    <3>1. run' = [run EXCEPT !.status = "paid", !.notified = TRUE]
      BY <1>12, <2>2 DEF Complete
    <3>2. /\ run' \in [status : {"draft", "review", "approved", "paid"}, count : Nat,
                       paidCount : Nat, notified : BOOLEAN]
          /\ run'.notified
      BY <3>1
    <3>3. completed = 0
      BY <2>2 DEF AnnouncedOnce, FirstToComplete
    <3>4. completed' = 1
      BY <1>12, <2>2, <3>3 DEF Complete
    <3>5. UNCHANGED <<lop, slip, due, payments, mixed, cut>>
      BY <1>12 DEF Complete
    <3> QED BY <2>1, <3>2, <3>4, <3>5 DEF AnnouncedOnce
  <2>3. CASE ~FirstToComplete
    BY <1>12, <2>1, <2>3 DEF Complete, AnnouncedOnce, FirstToComplete
  <2> QED BY <2>2, <2>3
<1>13. CASE Die(q)
  <2>1. req' \in [Req -> Request]
    BY <1>13, IdleTyped, Moves DEF Die
  <2> QED BY <1>13, <2>1 DEF Die, AnnouncedOnce
<1> QED
  BY <1>1, <1>2, <1>3, <1>4, <1>5, <1>6, <1>7, <1>8, <1>9, <1>10, <1>11, <1>12, <1>13

-----------------------------------------------------------------------------
(* What they keep until requests mix *)

\* A request ends, or goes on within approval's last two statements or within a
\* payment's, and writes nothing the agreement is about.
LEMMA GoingOn ==
  ASSUME TypeOK, Agree, NEW q \in Req,
         run'.status = run.status, run'.count = run.count, run'.notified = run.notified,
         UNCHANGED <<due, payments>>,
         \A s \in Staff : slip[s].status # "none" => slip'[s].status # "none",
         \A p \in Req \ {q} : req'[p] = req[p],
         \/ req'[q].phase = "idle"
         \/ req[q].phase = "finalise" /\ req'[q].phase = "open"
         \/ req[q].phase \in Paying /\ req'[q].phase \in Paying,
         Sees(q)' => Paid = Staff,
         ~cut' => ~cut /\ (Paid = Staff /\ WillSee(q) => run.status = "paid" \/ WillSee(q)')
  PROVE  Agree'
<1> USE DEF Agree
<1>1. PhasesAgree'
  BY DEF PhasesAgree, Locked, Computing, Approving, Paying
<1>2. Open' = Open /\ Paid' = Paid
  BY DEF Open, Paid
<1>3. BooksAgree'
  BY <1>2 DEF BooksAgree, Unpaid, Locked
<1>4. \A p \in Req \ {q} : (Sees(p)' <=> Sees(p)) /\ (WillSee(p)' <=> WillSee(p))
  BY DEF Sees, WillSee, At
<1>5. CompletionAgrees'
  BY <1>2, <1>4 DEF CompletionAgrees
<1> QED BY <1>1, <1>3, <1>5

\* Before the run is approved nothing is due, so nobody pays or completes.
LEMMA OpenRun ==
  ASSUME Agree, ~Locked
  PROVE  /\ Unpaid /\ Open = {} /\ Paid = {} /\ Paid # Staff
         /\ ~run.notified
         /\ \A p \in Req : ~Sees(p) /\ ~WillSee(p)
<1>1. Unpaid
  BY DEF Agree, BooksAgree
<1>2. Open = {} /\ Paid = {} /\ Paid # Staff
  BY <1>1 DEF Unpaid, Open, Paid
<1>3. \A p \in Req : req[p].phase \notin Paying
  BY DEF Agree, PhasesAgree
<1>4. ~run.notified
  BY DEF Agree, CompletionAgrees, Locked
<1> QED BY <1>1, <1>2, <1>3, <1>4 DEF Sees, WillSee, At, Paying

\* So the agreement of an open run is about its payslips and phases alone.
LEMMA StaysOpen ==
  ASSUME Agree, ~Locked, UNCHANGED <<payments, cut>>, PhasesAgree',
         run'.notified = run.notified, run'.status # "paid",
         run'.count > 0 => \A s \in Staff : slip'[s].status # "none",
         \A s \in Staff : due'[s] = "none",
         \A p \in Req : req'[p].phase \notin Paying
  PROVE  Agree'
<1>1. Unpaid' /\ Paid' # Staff
  BY DEF Unpaid, Paid
<1>2. \A s \in Staff : due[s] = "none"
  BY OpenRun DEF Unpaid
<1>3. \A p \in Req : ~Sees(p)'
  BY DEF Sees, At, Paying
<1>4. BooksAgree'
  BY <1>1, <1>2 DEF Agree, BooksAgree, Unpaid
<1>5. CompletionAgrees'
  BY <1>1, <1>3, OpenRun DEF CompletionAgrees
<1> QED BY <1>4, <1>5 DEF Agree

LEMMA ComputeAgrees ==
  ASSUME TypeOK, Agree, NEW q \in Req, ~mixed',
         Compute(q) \/ replacePayslips(q) \/ Review(q)
  PROVE  Agree'
<1> USE DEF Agree
<1>r. req[q] \in Request
  BY DEF TypeOK
<1>l. lop \in [Staff -> Nat]
  BY DEF TypeOK
<1>1. CASE Compute(q)
  <2>1. /\ \A p \in Req \ {q} : req'[p] = req[p]
        /\ req'[q].phase = "replace"
    <3> DEFINE new == [Idle EXCEPT !.phase = "replace", !.figures = lop]
    <3>1. new \in Request /\ new.phase = "replace"
      BY <1>l, Begins
    <3>2. Goes(q, new)
      BY <1>1 DEF Compute
    <3> HIDE DEF new
    <3> QED BY <3>1, <3>2, Moves
  <2>2. ~Met(Approving \cup Paying)
    BY <1>1 DEF Compute
  <2>3. run.status \in Recomputable /\ UNCHANGED <<run, slip, due, payments, cut>>
    BY <1>1 DEF Compute
  <2>4. ~Locked
    BY <2>3 DEF Locked, Recomputable
  <2>5. \A p \in Req : req'[p].phase \notin Approving \cup Paying
    BY <2>1, <2>2 DEF Met, Approving, Paying
  <2>6. PhasesAgree'
    BY <2>3, <2>4, <2>5 DEF PhasesAgree, Approving, Paying, Locked
  <2>7. \A s \in Staff : due[s] = "none"
    BY <2>4, OpenRun DEF Unpaid
  <2> QED BY <2>3, <2>4, <2>5, <2>6, <2>7, StaysOpen DEF BooksAgree, Locked
<1>2. CASE replacePayslips(q)
  <2>1. req[q].phase = "replace"
    BY <1>2 DEF replacePayslips, At
  <2>2. ~Locked
    BY <2>1 DEF PhasesAgree, Computing
  <2>3. \A p \in Req : req[p].phase \notin Paying
    BY <2>2 DEF PhasesAgree
  <2>4. \A p \in Req : req[p].phase \notin Approving
    BY <2>1, <2>2 DEF PhasesAgree, Approving, Computing
  <2>5. \A p \in Req \ {q} : req'[p] = req[p]
    BY <1>2, <2>3 DEF replacePayslips, At, Paying, TypeOK
  <2>6. req'[q].phase = "review"
    BY <1>2, <1>r, Phased DEF replacePayslips, TypeOK, Phase
  <2>7. /\ run'.status = run.status /\ run'.notified = run.notified
        /\ UNCHANGED <<payments, cut>>
        /\ \A s \in Staff : slip'[s].status = "draft" /\ due'[s] = "none"
    BY <1>2 DEF replacePayslips, TypeOK, History
  <2>8. \A p \in Req : req'[p].phase \notin Approving \cup Paying
    BY <2>3, <2>4, <2>5, <2>6 DEF Approving, Paying
  <2>9. PhasesAgree'
    BY <2>2, <2>7, <2>8 DEF PhasesAgree, Approving, Paying, Locked
  <2> QED BY <2>2, <2>7, <2>8, <2>9, StaysOpen DEF Locked
<1>3. CASE Review(q)
  <2>1. req[q].phase = "review"
    BY <1>3 DEF Review, At
  <2>2. ~Locked
    BY <2>1 DEF PhasesAgree, Computing
  <2>3. \A p \in Req : req[p].phase \notin Approving \cup Paying
    BY <2>1, <2>2 DEF PhasesAgree, Approving, Computing
  <2>4. /\ \A p \in Req \ {q} : req'[p] = req[p]
        /\ req'[q].phase = "idle"
    BY <1>3, IdleTyped, Moves DEF Review
  <2>5. /\ run'.status = "review" /\ run'.notified = run.notified /\ run'.count = run.count
        /\ UNCHANGED <<slip, due, payments, cut>>
    BY <1>3 DEF Review, TypeOK, History
  <2>6. \A p \in Req : req'[p].phase \notin Approving \cup Paying
    BY <2>3, <2>4 DEF Approving, Paying
  <2>7. PhasesAgree'
    BY <2>5, <2>6 DEF PhasesAgree, Approving, Paying, Locked
  <2>8. \A s \in Staff : due[s] = "none"
    BY <2>2, OpenRun DEF Unpaid
  <2> QED BY <2>2, <2>5, <2>6, <2>7, <2>8, StaysOpen DEF BooksAgree
<1> QED BY <1>1, <1>2, <1>3

LEMMA ApproveAgrees ==
  ASSUME TypeOK, Agree, NEW q \in Req, ~mixed',
         Approve(q) \/ setApproved(q) \/ Finalise(q) \/ openDisbursements(q)
  PROVE  Agree'
<1> USE DEF Agree
<1>r. req[q] \in Request
  BY DEF TypeOK
<1>1. CASE Approve(q)
  <2>1. /\ \A p \in Req \ {q} : req'[p] = req[p]
        /\ req'[q].phase = "approve"
    <3> DEFINE new == [Idle EXCEPT !.phase = "approve"]
    <3>1. new \in Request /\ new.phase = "approve"
      BY IdleTyped, Phased DEF Phase
    <3>2. Goes(q, new)
      BY <1>1 DEF Approve
    <3> HIDE DEF new
    <3> QED BY <3>1, <3>2, Moves
  <2>2. ~Met(Computing \cup Approving \cup Paying)
    BY <1>1 DEF Approve
  <2>3. run.status = "review" /\ run.count > 0 /\ UNCHANGED <<run, slip, due, payments, cut>>
    BY <1>1 DEF Approve
  <2>4. \A p \in Req : req[p].phase \notin Computing \cup Approving \cup Paying
    BY <2>2 DEF Met
  <2>5. PhasesAgree'
    BY <2>1, <2>3, <2>4 DEF PhasesAgree, Computing, Approving, Paying, Locked
  <2>6. \A p \in Req : req'[p].phase \notin Paying
    BY <2>1, <2>4 DEF Paying
  <2>7. ~Locked
    BY <2>3 DEF Locked
  <2>8. \A s \in Staff : due[s] = "none"
    BY <2>7, OpenRun DEF Unpaid
  <2> QED BY <2>3, <2>5, <2>6, <2>7, <2>8, StaysOpen DEF BooksAgree
<1>2. CASE setApproved(q)
  <2>1. req[q].phase = "approve"
    BY <1>2 DEF setApproved, At
  <2>2. run.status = "review" /\ run.count > 0
    BY <2>1 DEF PhasesAgree
  <2>3. ~Locked
    BY <2>2 DEF Locked
  <2>4. \A p \in Req \ {q} : req[p].phase \notin Computing \cup Approving \cup Paying
    BY <2>1, <2>3 DEF PhasesAgree
  <2>5. /\ \A p \in Req \ {q} : req'[p] = req[p]
        /\ req'[q].phase = "finalise"
    <3> DEFINE new == [req[q] EXCEPT !.phase = "finalise"]
    <3>1. new \in Request /\ new.phase = "finalise"
      BY <1>r, Phased DEF Phase
    <3>2. Goes(q, new)
      BY <1>2 DEF setApproved, To
    <3> HIDE DEF new
    <3> QED BY <3>1, <3>2, Moves
  <2>6. /\ run'.status = "approved" /\ run'.notified = run.notified /\ run'.count = run.count
        /\ UNCHANGED <<slip, due, payments, cut>>
    BY <1>2 DEF setApproved, TypeOK, History
  <2>7. PhasesAgree'
    BY <2>2, <2>4, <2>5, <2>6 DEF PhasesAgree, Computing, Approving, Paying, Locked
  <2>8. \A p \in Req : req'[p].phase \notin Paying
    BY <2>4, <2>5 DEF Paying
  <2>9. \A s \in Staff : due[s] = "none"
    BY <2>3, OpenRun DEF Unpaid
  <2> QED BY <2>3, <2>6, <2>7, <2>8, <2>9, StaysOpen DEF BooksAgree
<1>3. CASE Finalise(q)
  <2>1. req[q].phase = "finalise"
    BY <1>3 DEF Finalise, At
  <2>2. /\ \A p \in Req \ {q} : req'[p] = req[p]
        /\ req'[q].phase = "open"
    <3> DEFINE new == [req[q] EXCEPT !.phase = "open"]
    <3>1. new \in Request /\ new.phase = "open"
      BY <1>r, Phased DEF Phase
    <3>2. Goes(q, new)
      BY <1>3 DEF Finalise, To
    <3> HIDE DEF new
    <3> QED BY <3>1, <3>2, Moves
  <2>3. UNCHANGED <<run, due, payments, cut>>
    BY <1>3 DEF Finalise, History
  <2>4. \A s \in Staff : slip[s].status # "none" => slip'[s].status # "none"
    BY <1>3 DEF Finalise, TypeOK, Slip
  <2>5. ~Sees(q)' /\ ~WillSee(q)
    BY <2>1, <2>2 DEF Sees, WillSee, At
  <2> QED BY <2>1, <2>2, <2>3, <2>4, <2>5, GoingOn
<1>4. CASE openDisbursements(q)
  <2>1. req[q].phase = "open"
    BY <1>4 DEF openDisbursements, At
  <2>2. /\ \A p \in Req \ {q} : req'[p] = req[p]
        /\ req'[q].phase = "idle"
    BY <1>4, IdleTyped, Moves DEF openDisbursements
  <2>3. UNCHANGED <<run, slip, payments, cut>>
    BY <1>4 DEF openDisbursements, History
  <2>4. Locked /\ run.count > 0
    BY <2>1 DEF PhasesAgree
  <2>5. \A s \in Staff : /\ due'[s] # "none"
                         /\ due'[s] = "paid" <=> due[s] = "paid"
    BY <1>4, <2>4 DEF openDisbursements, BooksAgree, TypeOK
  <2>6. Open' = Staff /\ Paid' = Paid
    BY <2>5 DEF Open, Paid
  <2>7. PhasesAgree'
    BY <2>2, <2>3 DEF PhasesAgree, Computing, Approving, Paying, Locked
  <2>8. BooksAgree'
    BY <2>3, <2>4, <2>5, <2>6 DEF BooksAgree, Locked
  <2>9. ~Sees(q)' /\ ~WillSee(q)
    BY <2>1, <2>2 DEF Sees, WillSee, At
  <2>10. \A p \in Req \ {q} : (Sees(p)' <=> Sees(p)) /\ (WillSee(p)' <=> WillSee(p))
    BY <2>2 DEF Sees, WillSee, At
  <2>11. CompletionAgrees'
    BY <2>3, <2>6, <2>9, <2>10 DEF CompletionAgrees
  <2> QED BY <2>7, <2>8, <2>11
<1> QED BY <1>1, <1>2, <1>3, <1>4

LEMMA PayAgrees ==
  ASSUME TypeOK, Agree, NEW q \in Req, NEW s \in Staff, ~mixed', Pay(q, s)
  PROVE  Agree'
<1> USE DEF Agree
<1>1. /\ \A p \in Req \ {q} : req'[p] = req[p]
      /\ req'[q].phase = "slip"
  <2> DEFINE new == [Idle EXCEPT !.phase = "slip", !.who = s]
  <2>1. new \in Request /\ new.phase = "slip"
    BY Begins DEF TypeOK
  <2>2. Goes(q, new)
    BY DEF Pay
  <2> HIDE DEF new
  <2> QED BY <2>1, <2>2, Moves
<1>2. /\ due[s] = "pending" /\ due' = [due EXCEPT ![s] = "paid"]
      /\ payments' = [payments EXCEPT ![s] = @ + 1]
      /\ UNCHANGED <<run, slip, cut>>
  BY DEF Pay, Payable
<1>3. ~Met(Computing)
  BY DEF Pay
<1>4. Locked /\ Open = Staff
  BY <1>2 DEF BooksAgree, Unpaid
<1>5. Open' = Staff /\ Paid # Staff
  BY <1>2, <1>4 DEF Open, Paid, TypeOK
<1>6. PhasesAgree'
  BY <1>1, <1>2, <1>4 DEF PhasesAgree, Computing, Approving, Paying, Locked
<1>7. BooksAgree'
  <2>1. payments'[s] = 1
    BY <1>2 DEF BooksAgree, TypeOK
  <2>2. \A t \in Staff : payments'[t] = IF due'[t] = "paid" THEN 1 ELSE 0
    BY <1>2, <2>1 DEF BooksAgree, TypeOK
  <2> QED BY <1>2, <1>4, <1>5, <2>2 DEF BooksAgree, Locked
<1>8. \A p \in Req : ~Sees(p)'
  BY <1>1, <1>5 DEF CompletionAgrees, Sees, At
<1>9. run.status # "paid" /\ ~run.notified
  BY <1>5 DEF CompletionAgrees
<1>10. WillSee(q)'
  BY <1>1 DEF WillSee, At
<1>11. CompletionAgrees'
  BY <1>2, <1>8, <1>9, <1>10 DEF CompletionAgrees
<1> QED BY <1>6, <1>7, <1>11

\* Of two payments that overlap, the one that looks last sees both.
LEMMA ProgressAgrees ==
  ASSUME TypeOK, Agree, NEW q \in Req, ~mixed',
         PaySlip(q) \/ Progress(q) \/ Count(q) \/ Complete(q)
  PROVE  Agree'
<1> USE DEF Agree
<1>r. req[q] \in Request
  BY DEF TypeOK
<1>1. CASE PaySlip(q)
  <2>1. req[q].phase = "slip"
    BY <1>1 DEF PaySlip, At
  <2>2. /\ \A p \in Req \ {q} : req'[p] = req[p]
        /\ req'[q].phase = "progress"
    <3> DEFINE new == [req[q] EXCEPT !.phase = "progress"]
    <3>1. new \in Request /\ new.phase = "progress"
      BY <1>r, Phased DEF Phase
    <3>2. Goes(q, new)
      BY <1>1 DEF PaySlip, To
    <3> HIDE DEF new
    <3> QED BY <3>1, <3>2, Moves
  <2>3. UNCHANGED <<run, due, payments, cut>>
    BY <1>1 DEF PaySlip, History
  <2>4. \A s \in Staff : slip[s].status # "none" => slip'[s].status # "none"
    BY <1>1 DEF PaySlip, TypeOK, Slip
  <2>5. ~Sees(q)' /\ WillSee(q)'
    BY <2>2 DEF Sees, WillSee, At
  <2> QED BY <2>1, <2>2, <2>3, <2>4, <2>5, GoingOn DEF Paying
<1>2. CASE Progress(q)
  <2>1. req[q].phase = "progress"
    BY <1>2 DEF Progress, At
  <2>2. /\ \A p \in Req \ {q} : req'[p] = req[p]
        /\ req'[q].phase = "count" /\ req'[q].all = AllPaid
    <3> DEFINE a == AllPaid
               n == Cardinality(Paid)
               new == [req[q] EXCEPT !.phase = "count", !.all = a, !.paid = n]
    <3>1. a \in BOOLEAN /\ n \in Nat
      BY Counts DEF AllPaid
    <3>2. Goes(q, new)
      BY <1>2 DEF Progress
    <3> HIDE DEF a, n
    <3>3. new \in Request /\ new.phase = "count" /\ new.all = a
      BY <1>r, <3>1, Zenon DEF Request, Phase
    <3> HIDE DEF new
    <3>4. req'[q].phase = "count" /\ req'[q].all = a /\ \A p \in Req \ {q} : req'[p] = req[p]
      BY <3>2, <3>3, Moves
    <3> QED BY <3>4 DEF a
  <2>3. UNCHANGED <<run, slip, due, payments, cut>>
    BY <1>2 DEF Progress, History
  <2>4. AllPaid <=> Paid = Staff
    <3>1. Unpaid => Open = {} /\ Paid = {}
      BY DEF Unpaid, Open, Paid
    <3> QED BY <3>1 DEF BooksAgree, AllPaid
  <2>5. (Sees(q)' => Paid = Staff) /\ (Paid = Staff => WillSee(q)')
    BY <2>2, <2>4 DEF Sees, WillSee, At
  <2> QED BY <2>1, <2>2, <2>3, <2>5, GoingOn DEF Paying
<1>3. CASE Count(q)
  <2>1. req[q].phase = "count"
    BY <1>3 DEF Count, At
  <2>2. /\ run'.status = run.status /\ run'.count = run.count
        /\ run'.notified = run.notified
        /\ UNCHANGED <<slip, due, payments, cut>>
    BY <1>3 DEF Count, TypeOK, History
  <2>3. CASE req[q].all
    <3> DEFINE new == [req[q] EXCEPT !.phase = "complete"]
    <3>1. new \in Request /\ new.phase = "complete"
      BY <1>r, Phased DEF Phase
    <3>2. Goes(q, new)
      BY <1>3, <2>3 DEF Count, To
    <3> HIDE DEF new
    <3>3. req'[q].phase = "complete" /\ \A p \in Req \ {q} : req'[p] = req[p]
      BY <3>1, <3>2, Moves
    <3>4. Paid = Staff
      BY <2>1, <2>3 DEF CompletionAgrees, Sees, At
    <3>5. WillSee(q)'
      BY <3>3 DEF WillSee, Sees, At
    <3> QED BY <2>1, <2>2, <3>3, <3>4, <3>5, GoingOn DEF Paying
  <2>4. CASE ~req[q].all
    <3>1. req'[q].phase = "idle" /\ \A p \in Req \ {q} : req'[p] = req[p]
      BY <1>3, <2>4, IdleTyped, Moves DEF Count
    <3>2. ~WillSee(q) /\ ~Sees(q)'
      BY <2>1, <2>4, <3>1 DEF WillSee, Sees, At
    <3> QED BY <2>2, <3>1, <3>2, GoingOn
  <2> QED BY <2>3, <2>4
<1>4. CASE Complete(q)
  <2>1. req[q].phase = "complete"
    BY <1>4 DEF Complete, At
  <2>2. Paid = Staff /\ Locked
    BY <2>1 DEF CompletionAgrees, Sees, At, PhasesAgree, Paying
  <2>3. /\ \A p \in Req \ {q} : req'[p] = req[p]
        /\ req'[q].phase = "idle"
    BY <1>4, IdleTyped, Moves DEF Complete
  <2>4. UNCHANGED <<slip, due, payments, cut>>
    BY <1>4 DEF Complete
  <2>5. run'.status = "paid" /\ run'.notified /\ run'.count = run.count
    <3>1. CASE FirstToComplete
      <4>1. run' = [run EXCEPT !.status = "paid", !.notified = TRUE]
        BY <1>4, <3>1 DEF Complete
      <4> QED BY <4>1 DEF TypeOK
    <3>2. CASE ~FirstToComplete
      BY <1>4, <3>2 DEF Complete, FirstToComplete, CompletionAgrees
    <3> QED BY <3>1, <3>2
  <2>6. PhasesAgree'
    BY <2>2, <2>3, <2>5 DEF PhasesAgree, Computing, Approving, Paying, Locked
  <2>7. Open' = Open /\ Paid' = Paid
    BY <2>4 DEF Open, Paid
  <2>8. BooksAgree'
    BY <2>4, <2>5, <2>7, <2>2 DEF BooksAgree, Unpaid, Locked
  <2>9. CompletionAgrees'
    BY <2>2, <2>5, <2>7 DEF CompletionAgrees
  <2> QED BY <2>6, <2>8, <2>9
<1> QED BY <1>1, <1>2, <1>3, <1>4

LEMMA DieAgrees ==
  ASSUME TypeOK, Agree, NEW q \in Req, Die(q)
  PROVE  Agree'
<1>1. /\ \A p \in Req \ {q} : req'[p] = req[p]
      /\ req'[q].phase = "idle"
  BY IdleTyped, Moves DEF Die
<1>2. UNCHANGED <<run, slip, due, payments>> /\ cut'
  BY DEF Die
<1>3. ~Sees(q)'
  BY <1>1 DEF Sees, At
<1> QED BY <1>1, <1>2, <1>3, GoingOn

LEMMA StepAgrees ==
  ASSUME TypeOK, Agree, Step, ~mixed'
  PROVE  Agree'
BY ComputeAgrees, ApproveAgrees, PayAgrees, ProgressAgrees, DieAgrees DEF Step, Onward

\* Requests that have mixed stay mixed.
LEMMA MixedStays ==
  ASSUME Step, mixed
  PROVE  mixed'
BY DEF Step, Onward, Compute, replacePayslips, Review, Approve, setApproved, Finalise,
       openDisbursements, Pay, PaySlip, Progress, Count, Complete, Die, History

-----------------------------------------------------------------------------
LEMMA NextInv == IInv /\ [Next]_<<lop, payVars>> => IInv'
<1> SUFFICES ASSUME IInv, [Next]_<<lop, payVars>> PROVE IInv'
  OBVIOUS
<1>1. CASE Step
  <2>1. TypeOK' /\ AnnouncedOnce'
    BY <1>1, StepTyped DEF IInv, Step, Onward
  <2>2. ~mixed' => Agree'
    BY <1>1, StepAgrees, MixedStays DEF IInv, Agree
  <2> QED BY <2>1, <2>2 DEF IInv, Agree
<1>2. CASE UNCHANGED payVars /\ lop' \in [Staff -> Nat]
  <2>1. UNCHANGED <<run, slip, due, req, payments, completed, mixed, cut>>
    BY <1>2 DEF payVars
  <2>2. TypeOK' /\ AnnouncedOnce'
    BY <1>2, <2>1 DEF IInv, TypeOK, AnnouncedOnce
  <2>3. (Unpaid' <=> Unpaid) /\ (Locked' <=> Locked) /\ Open' = Open /\ Paid' = Paid
    BY <2>1 DEF Unpaid, Locked, Open, Paid
  <2>4. \A q \in Req : (Sees(q)' <=> Sees(q)) /\ (WillSee(q)' <=> WillSee(q))
    BY <2>1 DEF Sees, WillSee, At
  <2>5. PhasesAgree => PhasesAgree'
    BY <2>1, <2>3 DEF PhasesAgree
  <2>6. BooksAgree => BooksAgree'
    BY <2>1, <2>3 DEF BooksAgree
  <2>7. CompletionAgrees => CompletionAgrees'
    BY <2>1, <2>3, <2>4 DEF CompletionAgrees
  <2> QED BY <2>1, <2>2, <2>5, <2>6, <2>7 DEF IInv
<1>3. CASE UNCHANGED <<lop, payVars>>
  BY <1>2, <1>3 DEF IInv, TypeOK
<1>4. CASE LopChanges
  BY <1>2, <1>4 DEF LopChanges
<1> QED BY <1>1, <1>3, <1>4 DEF Next

LEMMA Invariance == Spec => []IInv
BY InitInv, NextInv, PTL DEF Spec

\* Payroll rows, requests and histories keep their types (payroll_runs, payslips,
\* payroll_disbursements).
THEOREM Typed == Spec => []TypeOK
<1>1. IInv => TypeOK
  BY DEF IInv
<1> QED BY <1>1, Invariance, PTL

\* Nobody's month is paid twice, nor before approval, unless a computation or an
\* approval ran beside another request (markPaid).
THEOREM PaysOnce == Spec => []PaidOnce
<1>1. IInv => PaidOnce
  BY DEF IInv, PaidOnce, BooksAgree, Unpaid, Locked
<1> QED BY <1>1, Invariance, PTL

\* A run is announced complete at most once, and unless requests mixed it is paid
\* exactly when everybody is (disbursementProgress, completed_notified_at).
THEOREM PaysAll == Spec => []PaidWhenAllPaid
<1>1. ASSUME IInv PROVE PaidWhenAllPaid
  <2>1. completed <= 1
    BY <1>1 DEF IInv, AnnouncedOnce
  <2>2. ASSUME ~mixed PROVE run.status = "paid" => Paid = Staff
    BY <1>1, <2>2 DEF IInv, CompletionAgrees
  <2>3. ASSUME ~mixed, AllPaid, ~cut, \A q \in Req : ~Busy(q)
        PROVE  run.status = "paid"
    <3>1. Paid = Staff
      BY <1>1, <2>3 DEF IInv, BooksAgree, AllPaid, Unpaid, Open
    <3>2. \A q \in Req : ~WillSee(q)
      BY <2>3 DEF WillSee, Sees, At, Busy
    <3> QED BY <1>1, <2>3, <3>1, <3>2 DEF IInv, CompletionAgrees
  <2> QED BY <2>1, <2>2, <2>3 DEF PaidWhenAllPaid
<1> QED BY <1>1, Invariance, PTL

\* An approved run's figures never change, unless requests mixed (compute).
THEOREM FiguresStay == Spec => FiguresFrozen
<1>1. ASSUME IInv, [Next]_<<lop, payVars>>, Locked, ~mixed'
      PROVE  \A s \in Staff : slip'[s].lop = slip[s].lop
  <2>1. CASE Step
    <3>1. ~mixed
      BY <1>1, <2>1, MixedStays
    <3>2. PICK q \in Req :
             \/ Compute(q) \/ replacePayslips(q) \/ Review(q)
             \/ Approve(q) \/ setApproved(q) \/ Finalise(q) \/ openDisbursements(q)
             \/ \E s \in Staff : Pay(q, s)
             \/ PaySlip(q) \/ Progress(q) \/ Count(q) \/ Complete(q)
             \/ Die(q)
      BY <2>1 DEF Step, Onward
    <3>3. ~replacePayslips(q)
      BY <1>1, <3>1 DEF IInv, PhasesAgree, Computing, replacePayslips, At
    <3>4. CASE Finalise(q)
      BY <1>1, <3>4 DEF IInv, TypeOK, Slip, Finalise
    <3>5. CASE PaySlip(q)
      BY <1>1, <3>5 DEF IInv, TypeOK, Slip, PaySlip
    <3>6. slip' = slip \/ Finalise(q) \/ PaySlip(q)
      BY <3>2, <3>3 DEF Compute, Review, Approve, setApproved, openDisbursements,
                        Pay, Progress, Count, Complete, Die
    <3> QED BY <3>4, <3>5, <3>6
  <2> QED BY <1>1, <2>1 DEF Next, LopChanges, payVars
<1>2. IInv /\ [Next]_<<lop, payVars>> =>
         [run.status \in {"approved", "paid"} /\ ~mixed'
             => \A s \in Staff : slip'[s].lop = slip[s].lop]_<<lop, payVars>>
  BY <1>1 DEF Locked
<1> QED BY <1>2, Invariance, PTL DEF Spec, FiguresFrozen

-----------------------------------------------------------------------------
(* Payroll and leave together *)

LEMMA TotalOfNaturals == ASSUME NEW w \in [Leave -> Nat] PROVE Total(w) \in Nat
<1>1. PICK z : z = [l \in Leave |-> 0]
  OBVIOUS
<1>2. z \in [Leave -> Int] /\ w \in [Leave -> Int] /\ \A l \in Leave : z[l] + z[l] <= w[l]
  BY <1>1
<1>3. Total(z) = 0
  BY <1>1, TotalOfNone
<1>4. Total(z) + Total(z) <= Total(w) /\ Total(w) \in Int
  BY <1>2, TotalBounded, TotalTyped
<1> QED BY <1>3, <1>4

\* The unpaid days of the approved leaves, one by one.
UnpaidRow == [l \in Leave |-> unpaidDays(l)]

LEMMA RowsTyped ==
  /\ LeaveTypeOK =>
         /\ UnpaidRow \in [Leave -> Nat]
         /\ \A l \in Leave : leave[l].lop \in Nat /\ UnpaidRow[l] <= leave[l].lop
  /\ LeaveTypeOK' =>
         /\ UnpaidRow' \in [Leave -> Nat]
         /\ \A l \in Leave : leave'[l].lop \in Nat /\ UnpaidRow'[l] <= leave'[l].lop
BY DEF LeaveTypeOK, LeaveRow, UnpaidRow, unpaidDays

LEMMA TotalsOfRows ==
  lopDays(Applicant) = Total(UnpaidRow) /\ lopDays(Applicant)' = Total(UnpaidRow')
<1>1. PICK d : d = UnpaidRow'
  OBVIOUS
<1>2. lopDays(Applicant)' = Total(d)
  BY <1>1 DEF lopDays, UnpaidRow, unpaidDays
<1> QED BY <1>1, <1>2 DEF lopDays, UnpaidRow, unpaidDays

\* A step of either.
PayMoves == LeaveStep \/ \E q \in Req : PayStep(q)

LEMMA LeaveMovesOn == [PayMoves]_staffPayVars => [LeaveNext]_leaveVars
BY DEF PayMoves, LeaveStep, PayStep, leaveVars, staffPayVars

\* Beside payroll, leave does what it does alone: every theorem above holds here.
THEOREM LeaveImplemented == PaySpec => LeaveSpec
<1>1. PayInit => LeaveInit
  BY DEF PayInit
<1> QED BY <1>1, LeaveMovesOn, PTL DEF PaySpec, LeaveSpec, PayMoves

LEMMA PaidLeaveInvariant == PaySpec => []LeaveInv
<1> QED BY LeaveImplemented, LeavesInvariant, PTL

LEMMA DaysDocked ==
  ASSUME LeaveTypeOK', lop' = [s \in Staff |-> lopDays(s)']
  PROVE  lop' \in [Staff -> Nat] /\ lop'[Applicant] = lopDays(Applicant)'
<1>1. PICK d : d = UnpaidRow'
  OBVIOUS
<1>2. d \in [Leave -> Nat]
  BY <1>1, RowsTyped
<1>3. lopDays(Applicant)' \in Nat
  BY <1>1, <1>2, TotalsOfRows, TotalOfNaturals
<1>4. \A s \in Staff : s # Applicant => lopDays(s)' = 0
  BY DEF lopDays
<1>5. \A s \in Staff : lopDays(s)' \in Nat
  BY <1>3, <1>4
<1>6. lop' \in [Staff -> Nat]
  BY <1>5
<1> QED BY <1>6, StaffPayConstants

LEMMA PayMovesOn ==
  LeaveInv /\ [PayMoves]_staffPayVars => [Next]_<<lop, payVars>>
<1> SUFFICES ASSUME LeaveInv, [PayMoves]_staffPayVars, LeaveStep PROVE LopChanges
  BY DEF Next, PayMoves, PayStep, Step, staffPayVars
<1>1. LeaveTypeOK'
  <2>1. LeaveInv'
    BY LeaveMovesOn, NextKeeps
  <2> QED BY <2>1 DEF LeaveInv
<1> QED BY <1>1, DaysDocked DEF LeaveStep, LopChanges

\* What leave does beside payroll is what PayrollRun assumes of it: the days without pay
\* change, nothing else.  So every theorem about a payroll run holds here (lopDays).
THEOREM PayrollImplemented == PaySpec => Spec
<1>1. PayInit => Init
  BY DEF PayInit
<1> QED BY <1>1, PayMovesOn, PaidLeaveInvariant, PTL DEF PaySpec, Spec, PayMoves

-----------------------------------------------------------------------------

\* The unpaid days of a leave that is not torn only grow.
LEMMA UnpaidMore ==
  ASSUME LeaveInv, LeaveInv', LeaveNext, NEW l \in Leave \ torn'
  PROVE  l \notin torn /\ leave[l].lop <= leave'[l].lop
<1>1. PICK q \in LeaveReq :
         \/ \E s \in Span, m \in Modes : Apply(q, s, m)
         \/ \E k \in Leave : InsertLeave(q, k) \/ Cancel(q, k)
         \/ \E k \in Leave, u \in User : Decide(q, u, k)
         \/ \E n \in DayCounts : \E unpaid \in 0..n : ApproveLeave(q, unpaid)
         \/ Decline(q) \/ ApproveStep(q) \/ Charge(q)
         \/ Refund(q) \/ cancelLeave(q) \/ LeaveDie(q)
  BY DEF LeaveNext
<1>2. l \notin torn
  BY <1>1 DEF Apply, InsertLeave, Cancel, Decide, ApproveLeave, Decline,
     ApproveStep, Charge, Refund, cancelLeave, LeaveDie, Meets
<1>3. leave[l] \in LeaveRow /\ leave[l].lop \in Nat /\ leave'[l].lop \in Nat
  BY RowsTyped DEF LeaveInv, LeaveTypeOK
<1>4. leave \in [Leave -> LeaveRow]
  BY DEF LeaveInv, LeaveTypeOK
<1>5. CASE leave' = leave
  BY <1>2, <1>3, <1>5
<1>6. CASE \E k \in Leave : InsertLeave(q, k)
  <2>1. PICK k \in Leave : InsertLeave(q, k)
    BY <1>6
  <2>2. l = k => leave[l].lop = 0
    BY <1>2, <2>1 DEF InsertLeave, LeaveInv, Agrees, Account
  <2>3. l # k => leave'[l] = leave[l]
    BY <1>4, <2>1 DEF InsertLeave
  <2> QED BY <1>2, <1>3, <2>2, <2>3
<1>7. CASE \E n \in DayCounts : \E unpaid \in 0..n : ApproveLeave(q, unpaid)
  <2>1. PICK n \in DayCounts : \E unpaid \in 0..n : ApproveLeave(q, unpaid)
    BY <1>7
  <2>2. PICK unpaid \in 0..n : ApproveLeave(q, unpaid)
    BY <2>1
  <2>3. PICK k : k = leaveReq[q].leave
    OBVIOUS
  <2>4. l = k => leave[l].lop = 0
    <3> SUFFICES ASSUME l = k PROVE leave[l].lop = 0
      OBVIOUS
    <3>1. LeaveBusy(q) /\ leaveReq[q].phase = "decide"
      BY <2>2 DEF ApproveLeave, LeaveBusy
    <3>2. On(q, l)
      BY <2>3, <3>1 DEF On
    <3>3. Informed(q, l) /\ Account(l)
      BY <1>2, <3>2 DEF LeaveInv, Agrees
    <3> QED BY <3>1, <3>3 DEF Informed, Account
  <2>5. l # k => leave'[l] = leave[l]
    BY <1>4, <2>2, <2>3 DEF ApproveLeave
  <2> QED BY <1>2, <1>3, <2>4, <2>5
<1>8. CASE Decline(q) \/ ApproveStep(q) \/ cancelLeave(q)
  <2>1. leave'[l].lop = leave[l].lop
    BY <1>4, <1>8 DEF Decline, ApproveStep, cancelLeave, LeaveRow
  <2> QED BY <1>2, <1>3, <2>1
<1> QED BY <1>1, <1>5, <1>6, <1>7, <1>8 DEF Apply, Cancel, Decide, Charge,
       Refund, LeaveDie

\* All but computing keeps the figures of the payslips, and of the computations.
LEMMA OnwardKeeps ==
  ASSUME TypeOK, NEW q \in Req, Onward(q), NEW s \in Staff
  PROVE  /\ lop' = lop /\ slip'[s].lop = slip[s].lop
         /\ \A p \in Req : At(p, "replace")' => req'[p] = req[p]
<1>1. lop' = lop
  BY DEF Onward, Review, Approve, setApproved, Finalise, openDisbursements, Pay,
         PaySlip, Progress, Count, Complete, Die
<1>2. req \in [Req -> Request] /\ slip \in [Staff -> Slip] /\ Idle.phase = "idle"
  BY DEF TypeOK, Idle
<1>3. slip'[s].lop = slip[s].lop
  <2>1. CASE Finalise(q)
    BY <1>2, <2>1 DEF Finalise, Slip
  <2>2. CASE PaySlip(q)
    BY <1>2, <2>2 DEF PaySlip, Slip
  <2>3. CASE slip' = slip
    BY <2>3
  <2> QED BY <2>1, <2>2, <2>3 DEF Onward, Review, Approve, setApproved,
       openDisbursements, Pay, Progress, Count, Complete, Die
<1>4. PICK r : r.phase # "replace" /\ Goes(q, r)
  <2>1. CASE Review(q) \/ openDisbursements(q) \/ Complete(q) \/ Die(q)
    BY <1>2, <2>1 DEF Review, openDisbursements, Complete, Die
  <2>2. CASE Approve(q) \/ \E x \in Staff : Pay(q, x)
    <3>1. CASE Approve(q)
      <4>1. [Idle EXCEPT !.phase = "approve"].phase = "approve"
        BY DEF Idle
      <4> QED BY <3>1, <4>1 DEF Approve
    <3>2. CASE \E x \in Staff : Pay(q, x)
      <4>1. PICK x \in Staff : Pay(q, x)
        BY <3>2
      <4>2. [Idle EXCEPT !.phase = "slip", !.who = x].phase = "slip"
        BY DEF Idle
      <4> QED BY <4>1, <4>2 DEF Pay
    <3> QED BY <2>2, <3>1, <3>2
  <2>3. ASSUME NEW x, x # "replace", To(q, x)
        PROVE  \E r : r.phase # "replace" /\ Goes(q, r)
    <3>1. [req[q] EXCEPT !.phase = x].phase = x
      BY <1>2 DEF Request
    <3> QED BY <2>3, <3>1 DEF To
  <2>4. CASE setApproved(q) \/ Finalise(q) \/ PaySlip(q)
    BY <2>3, <2>4 DEF setApproved, Finalise, PaySlip
  <2>5. CASE Progress(q)
    <3>1. PICK a, n : Goes(q, [req[q] EXCEPT !.phase = "count", !.all = a, !.paid = n])
      BY <2>5 DEF Progress
    <3>2. [req[q] EXCEPT !.phase = "count", !.all = a, !.paid = n].phase = "count"
      BY <1>2 DEF Request
    <3> QED BY <3>1, <3>2
  <2>6. CASE Count(q)
    BY <1>2, <2>3, <2>6 DEF Count
  <2> QED BY <2>1, <2>2, <2>4, <2>5, <2>6 DEF Onward
<1>5. req' = [req EXCEPT ![q] = r]
  BY <1>4 DEF Goes
<1>6. \A p \in Req : At(p, "replace")' => req'[p] = req[p]
  BY <1>2, <1>4, <1>5 DEF At
<1> QED BY <1>1, <1>3, <1>6

\* The invariant of both.
PInv == LeaveInv /\ IInv /\ DockedUnpaid

LEMMA PayStarts == PayInit => PInv
<1> SUFFICES ASSUME PayInit PROVE PInv
  OBVIOUS
<1>1. LeaveInv /\ IInv
  BY InitKeeps, InitInv DEF PayInit
<1>2. PICK z : z = [l \in Leave |-> 0]
  OBVIOUS
<1>3. Total(z) = 0
  BY <1>2, TotalOfNone
<1>4. /\ lop[Applicant] = 0 /\ slip[Applicant].lop = 0
      /\ \A q \in Req : ~At(q, "replace")
      /\ docked = z /\ seen = [q \in Req |-> z]
  BY <1>2, StaffPayConstants DEF PayInit, Init, NoSlip, Idle, At
<1>5. \A l \in Leave : unpaidDays(l) = 0 /\ leave[l].lop = 0
  BY DEF PayInit, LeaveInit, Unfiled, unpaidDays
<1>6. lopDays(Applicant) = 0
  <2>1. UnpaidRow = z
    BY <1>2, <1>5 DEF UnpaidRow
  <2> QED BY <1>3, <2>1, TotalsOfRows
<1>7. docked \in [Leave -> Nat] /\ seen \in [Req -> [Leave -> Nat]]
  BY <1>2, <1>4
<1>8. \A l \in Leave \ torn :
          docked[l] <= leave[l].lop /\ \A q \in Req : seen[q][l] <= leave[l].lop
  BY <1>2, <1>4, <1>5
<1> QED BY <1>1, <1>3, <1>4, <1>6, <1>7, <1>8 DEF PInv, DockedUnpaid

\* Computing reads the unpaid days one by one, and the payslips dock what was read.
LEMMA PayStepKeeps ==
  ASSUME PInv, LeaveInv, TypeOK, NEW x \in Req, PayStep(x)
  PROVE  DockedUnpaid'
<1>1. PICK u : u = UnpaidRow
  OBVIOUS
<1>2. /\ u \in [Leave -> Nat] /\ lopDays(Applicant) = Total(u)
      /\ \A l \in Leave : leave[l].lop \in Nat /\ u[l] <= leave[l].lop
  BY <1>1, RowsTyped, TotalsOfRows DEF LeaveInv
<1>3. /\ docked \in [Leave -> Nat] /\ seen \in [Req -> [Leave -> Nat]]
      /\ lop[Applicant] = lopDays(Applicant) /\ slip[Applicant].lop = Total(docked)
      /\ \A q \in Req : At(q, "replace") => req[q].figures[Applicant] = Total(seen[q])
      /\ \A l \in Leave \ torn :
             docked[l] <= leave[l].lop /\ \A q \in Req : seen[q][l] <= leave[l].lop
  BY DEF PInv, DockedUnpaid
<1>4. /\ UNCHANGED <<leave, torn>> /\ lopDays(Applicant)' = lopDays(Applicant)
      /\ Applicant \in Staff
  <2>1. UNCHANGED <<leave, torn>>
    BY DEF PayStep, leaveVars
  <2>2. UnpaidRow' = u
    BY <1>1, <2>1 DEF UnpaidRow, unpaidDays
  <2> QED BY <1>2, <2>1, <2>2, TotalsOfRows, StaffPayConstants
<1>5. req \in [Req -> Request]
  BY DEF TypeOK
<1>6. CASE Compute(x) /\ UNCHANGED docked /\ seen' = [seen EXCEPT ![x] = u]
  <2>1. UNCHANGED <<lop, slip>>
    BY <1>6 DEF Compute
  <2>2. [Idle EXCEPT !.phase = "replace", !.figures = lop].figures = lop
    BY DEF Idle
  <2>3. PICK r : r = [Idle EXCEPT !.phase = "replace", !.figures = lop]
    OBVIOUS
  <2>4. req' = [req EXCEPT ![x] = r] /\ r.figures = lop
    BY <1>6, <2>2, <2>3 DEF Compute, Goes
  <2>5. req'[x].figures[Applicant] = Total(u) /\ \A q \in Req \ {x} : req'[q] = req[q]
    BY <1>2, <1>3, <1>5, <2>4
  <2>6. /\ seen' \in [Req -> [Leave -> Nat]] /\ seen'[x] = u
        /\ \A q \in Req \ {x} : seen'[q] = seen[q]
    BY <1>2, <1>3, <1>6
  <2>7. \A q \in Req : At(q, "replace")' => req'[q].figures[Applicant] = Total(seen'[q])
    BY <1>3, <2>5, <2>6 DEF At
  <2>8. \A l \in Leave \ torn : \A q \in Req : seen'[q][l] <= leave[l].lop
    BY <1>2, <1>3, <2>6
  <2> QED BY <1>3, <1>4, <1>6, <2>1, <2>6, <2>7, <2>8 DEF DockedUnpaid
<1>7. CASE replacePayslips(x) /\ docked' = seen[x] /\ UNCHANGED seen
  <2>1. lop' = lop /\ At(x, "replace")
    BY <1>7 DEF replacePayslips
  <2>2. slip'[Applicant].lop = req[x].figures[Applicant]
    BY <1>4, <1>7 DEF replacePayslips
  <2>3. slip'[Applicant].lop = Total(docked')
    BY <1>3, <1>7, <2>1, <2>2
  <2>4. \A q \in Req : At(q, "replace")' => req'[q] = req[q] /\ At(q, "replace")
    <3>1. \A r \in Request : /\ [r EXCEPT !.phase = "review"].phase = "review"
                            /\ [r EXCEPT !.phase = "progress"].phase = "progress"
      BY DEF Request
    <3> QED BY <1>5, <1>7, <3>1 DEF replacePayslips, At
  <2>5. \A q \in Req : At(q, "replace")' => req'[q].figures[Applicant] = Total(seen[q])
    BY <1>3, <2>4
  <2>6. docked' \in [Leave -> Nat] /\ \A l \in Leave \ torn : docked'[l] <= leave[l].lop
    BY <1>3, <1>7
  <2> QED BY <1>3, <1>4, <1>7, <2>1, <2>3, <2>5, <2>6 DEF DockedUnpaid
<1>8. CASE Onward(x) /\ UNCHANGED <<seen, docked>>
  <2>1. /\ lop' = lop /\ slip'[Applicant].lop = slip[Applicant].lop
        /\ \A p \in Req : At(p, "replace")' => req'[p] = req[p]
    BY <1>4, <1>8, OnwardKeeps
  <2>2. \A q \in Req : At(q, "replace")' => req'[q].figures[Applicant] = Total(seen[q])
    BY <1>3, <2>1 DEF At
  <2> QED BY <1>3, <1>4, <1>8, <2>1, <2>2 DEF DockedUnpaid
<1> QED BY <1>1, <1>6, <1>7, <1>8 DEF PayStep, UnpaidRow

\* Leave that is approved, declined or cancelled unpays no fewer days.
LEMMA LeaveStepKeeps ==
  ASSUME PInv, LeaveInv, LeaveInv', LeaveStep
  PROVE  DockedUnpaid'
<1>1. /\ docked \in [Leave -> Nat] /\ seen \in [Req -> [Leave -> Nat]]
      /\ slip[Applicant].lop = Total(docked)
      /\ \A q \in Req : At(q, "replace") => req[q].figures[Applicant] = Total(seen[q])
      /\ \A l \in Leave \ torn :
             docked[l] <= leave[l].lop /\ \A q \in Req : seen[q][l] <= leave[l].lop
  BY DEF PInv, DockedUnpaid
<1>2. UNCHANGED <<slip, req, seen, docked>>
  BY DEF LeaveStep, payVars
<1>3. lop'[Applicant] = lopDays(Applicant)'
  BY DaysDocked DEF LeaveStep, LeaveInv
<1>4. ASSUME NEW l \in Leave \ torn'
      PROVE  docked[l] <= leave'[l].lop /\ \A q \in Req : seen[q][l] <= leave'[l].lop
  <2>1. l \notin torn /\ leave[l].lop <= leave'[l].lop
    BY <1>4, UnpaidMore DEF LeaveStep
  <2>2. leave[l].lop \in Nat /\ leave'[l].lop \in Nat
    BY RowsTyped DEF LeaveInv
  <2>3. docked[l] \in Nat /\ \A q \in Req : seen[q][l] \in Nat
    BY <1>1
  <2> QED BY <1>1, <2>1, <2>2, <2>3
<1>5. \A q \in Req : At(q, "replace")' => req'[q].figures[Applicant] = Total(seen'[q])
  BY <1>1, <1>2 DEF At
<1> QED BY <1>1, <1>2, <1>3, <1>4, <1>5 DEF DockedUnpaid

LEMMA PayKeeps == PInv /\ [PayMoves]_staffPayVars => PInv'
<1> SUFFICES ASSUME PInv, [PayMoves]_staffPayVars PROVE PInv'
  OBVIOUS
<1>1. LeaveInv /\ LeaveInv' /\ IInv /\ TypeOK
  BY LeaveMovesOn, NextKeeps DEF PInv, IInv
<1>2. IInv'
  BY <1>1, PayMovesOn, NextInv
<1>3. DockedUnpaid'
  <2>1. CASE LeaveStep
    BY <1>1, <2>1, LeaveStepKeeps
  <2>2. CASE \E q \in Req : PayStep(q)
    BY <1>1, <2>2, PayStepKeeps
  <2>3. CASE UNCHANGED staffPayVars
    <3>1. UNCHANGED <<lop, slip, req, leave, torn, seen, docked>>
      BY <2>3 DEF staffPayVars, payVars, leaveVars
    <3>2. lopDays(Applicant)' = lopDays(Applicant)
      <4>1. UnpaidRow' = UnpaidRow
        BY <3>1 DEF UnpaidRow, unpaidDays
      <4> QED BY <4>1, TotalsOfRows
    <3> QED BY <3>1, <3>2 DEF PInv, DockedUnpaid, At
  <2> QED BY <2>1, <2>2, <2>3 DEF PayMoves
<1> QED BY <1>1, <1>2, <1>3 DEF PInv

LEMMA PayInvariant == PaySpec => []PInv
<1> QED BY PayStarts, PayKeeps, PTL DEF PaySpec, PayMoves

\* Of each leave on which no two requests met, what a payslip docks and what the
\* balance was charged are together no more than its days (commitBalance).
THEOREM NobodyPenalisedTwice == PaySpec => []NotPenalisedTwice
<1>1. ASSUME LeaveInv, DockedUnpaid, NEW l \in Leave \ torn
      PROVE  docked[l] + charged[l] <= leave[l].span.days
  <2>1. leave[l] \in LeaveRow /\ charged[l] \in Int /\ docked[l] \in Nat
    BY <1>1 DEF LeaveInv, LeaveTypeOK, DockedUnpaid
  <2>2. leave[l].lop \in Nat /\ leave[l].span.days \in Nat
    BY <2>1, CostTyped
  <2>3. leave[l].status \in {"none", "pending", "declined"} => leave[l].lop = 0
    BY <1>1 DEF LeaveInv, Agrees, Account
  <2>4. charged[l] + (IF leave[l].status = "pending" THEN leave[l].span.days ELSE 0)
          <= Cost(leave[l])
    BY <1>1, BookedAtMost
  <2>5. charged[l] + leave[l].lop <= leave[l].span.days
    BY <2>1, <2>2, <2>3, <2>4 DEF Cost, LeaveRow
  <2>6. docked[l] <= leave[l].lop
    BY <1>1 DEF DockedUnpaid
  <2> QED BY <2>1, <2>2, <2>5, <2>6
<1>2. PInv => NotPenalisedTwice
  BY <1>1 DEF PInv, DockedUnpaid, NotPenalisedTwice
<1> QED BY <1>2, PayInvariant, PTL
=============================================================================
