------------------------- MODULE WorkSession_proofs -------------------------
(***************************************************************************)
(* Proofs about WorkSession, for any number of rows, requests and ticks:   *)
(* its type invariant, that a restart of the day is marked, and that the   *)
(* accounts of a session agree with the ticks it was active and paused.    *)
(*                                                                         *)
(* RestartsMarked rests on what a request that nobody met knows when it    *)
(* inserts: no session is open, and whether one of today was stopped.      *)
(* AccountsAgree rests on the columns of an open session following its     *)
(* ticks, and on the figures of such a request being those of the row.     *)
(***************************************************************************)
EXTENDS WorkSession, FiniteSetTheorems, TLAPS

USE WorkSessionConstants

\* No time that is written lies ahead.
Past ==
    \A s \in Session :
        /\ row[s].start <= now
        /\ row[s].pausedAt # NoTime => row[s].pausedAt <= now

\* A request at work on a session has one that was begun.
OnBegun ==
    \A q \in Actor :
        req[q].op \in {"pause", "resume", "beat", "stop", "close"} =>
            req[q].session \in Session /\ row[req[q].session].status # "none"

\* Who has met nobody is alone.
Alone ==
    \A q \in Actor : Busy(q) /\ q \notin met => \A p \in Actor \ {q} : ~Busy(p)

\* A request to begin a session that met nobody has read what is still so.
Begun(s) == row[s].status # "none"
Knows(q) ==
    /\ req[q].op \in {"start", "restart", "insert"} => \A s \in Session : ~Open(s)
    /\ req[q].op = "insert" /\ ~req[q].restart =>
           \A s \in Session : Begun(s) => dayOf(row[s].start) # dayOf(now)
Informed == \A q \in Actor : q \notin met => Knows(q)

IInv == TypeOK /\ Past /\ OnBegun /\ Alone /\ Informed /\ RestartsMarked

-----------------------------------------------------------------------------
(* Arithmetic of days *)

LEMMA DayTyped == \A t \in Nat : dayOf(t) \in Nat
  BY DEF dayOf

LEMMA DayOrder == \A a, b \in Nat : a <= b => dayOf(a) <= dayOf(b)
  BY DEF dayOf

LEMMA MidnightTyped == ASSUME TypeOK, NEW s \in Session PROVE midnight(s) \in Nat
<1>1. row[s].start \in Nat
  BY DEF TypeOK, Row, Time
<1>2. dayOf(row[s].start) \in Nat
  BY <1>1, DayTyped
<1> QED BY <1>2 DEF midnight

LEMMA CloseTyped ==
  ASSUME TypeOK, NEW s \in Session
  PROVE  computePausedSeconds(s) \in Nat /\ computeActiveSeconds(s) \in Nat
<1> DEFINE late == IF row[s].status = "paused" /\ row[s].pausedAt # NoTime
                     THEN Less(effectiveNow(s), row[s].pausedAt) ELSE 0
<1>1. row[s] \in Row
  BY DEF TypeOK
<1>2. midnight(s) \in Nat
  BY MidnightTyped
<1>3. effectiveNow(s) \in Nat
  BY <1>1, <1>2 DEF effectiveNow, Reopened, Lesser, Row, Time
<1>4. Elapsed(s) \in Nat
  BY <1>1, <1>3 DEF Elapsed, Less, Row, Time
<1>5. late \in Nat
  BY <1>1, <1>3 DEF Less, Row, Time
<1>6. row[s].paused + late \in Nat
  BY <1>1, <1>5 DEF Row
<1> HIDE DEF late
<1>7. computePausedSeconds(s) = Lesser(Elapsed(s), row[s].paused + late)
  BY DEF computePausedSeconds, late
<1>8. computePausedSeconds(s) \in Nat /\ computePausedSeconds(s) <= Elapsed(s)
  BY <1>4, <1>6, <1>7 DEF Lesser
<1> QED BY <1>4, <1>8 DEF computeActiveSeconds

-----------------------------------------------------------------------------
(* What the steps share *)

LEMMA IdleTyped == Idle \in Request /\ Idle.op = "idle"
  BY DEF Idle, Request

\* Whoever begins is alone, or has met everybody who is busy.
LEMMA BeginKeeps ==
  ASSUME IInv, NEW q \in Actor, NEW r \in Request, r.op # "idle", Begin(q, r),
         r.op \in {"pause", "resume", "beat", "stop", "close"} =>
             r.session \in Session /\ Begun(r.session),
         r.op # "insert",
         r.op \in {"start", "restart"} => \A s \in Session : ~Open(s)
  PROVE  IInv'
<1>1. req' \in [Actor -> Request] /\ req'[q] = r /\ \A p \in Actor \ {q} : req'[p] = req[p]
  BY DEF Begin, IInv, TypeOK
<1>2. UNCHANGED <<now, row, spent, torn, faults>>
  BY DEF Begin
<1>3. met' \subseteq Actor
  BY DEF Begin, IInv, TypeOK
<1>4. TypeOK'
  BY <1>1, <1>2, <1>3 DEF IInv, TypeOK
<1>5. Past'
  BY <1>2 DEF IInv, Past
<1>6. OnBegun'
  <2> SUFFICES ASSUME NEW p \in Actor,
                      req'[p].op \in {"pause", "resume", "beat", "stop", "close"}
               PROVE  req'[p].session \in Session /\ row[req'[p].session].status # "none"
    BY <1>2 DEF OnBegun
  <2>1. CASE p = q
    BY <1>1, <2>1 DEF Begun
  <2>2. CASE p # q
    BY <1>1, <2>2 DEF IInv, OnBegun
  <2> QED BY <2>1, <2>2
<1>7. Alone'
  <2> SUFFICES ASSUME NEW p \in Actor, Busy(p)', p \notin met', NEW o \in Actor \ {p}
               PROVE  ~Busy(o)'
    BY DEF Alone
  <2>1. CASE \E x \in Actor : Busy(x)
    <3>1. p \in met'
      BY <1>1, <2>1 DEF Begin, Busy
    <3> QED BY <3>1
  <2>2. CASE ~\E x \in Actor : Busy(x)
    <3>1. p = q
      BY <1>1, <2>2 DEF Busy
    <3> QED BY <1>1, <2>2, <3>1 DEF Busy
  <2> QED BY <2>1, <2>2
<1>8. Informed'
  <2> SUFFICES ASSUME NEW p \in Actor, p \notin met' PROVE Knows(p)'
    BY DEF Informed
  <2>1. CASE p = q
    BY <1>1, <1>2, <2>1 DEF Knows, Open
  <2>2. CASE p # q
    <3>1. p \notin met \/ ~Busy(p)
      BY <2>2 DEF Begin
    <3>2. CASE ~Busy(p)
      BY <1>1, <2>2, <3>2 DEF Knows, Busy
    <3>3. CASE p \notin met
      <4>1. Knows(p)
        BY <3>3 DEF IInv, Informed
      <4> QED BY <1>1, <1>2, <2>2, <4>1 DEF Knows, Open, Begun
    <3> QED BY <3>1, <3>2, <3>3
  <2> QED BY <2>1, <2>2
<1>9. RestartsMarked'
  BY <1>2 DEF IInv, RestartsMarked
<1> QED BY <1>4, <1>5, <1>6, <1>7, <1>8, <1>9 DEF IInv

\* A request that ends and leaves the rows alone.
LEMMA EndKeeps ==
  ASSUME IInv, NEW q \in Actor, Ends(q), UNCHANGED <<now, row, spent, torn>>,
         faults' \in 0..MaxFaults
  PROVE  IInv'
<1>1. req' \in [Actor -> Request] /\ req'[q] = Idle /\ \A p \in Actor \ {q} : req'[p] = req[p]
  BY IdleTyped DEF Ends, IInv, TypeOK
<1>2. met' = met \ {q}
  BY DEF Ends
<1>3. TypeOK'
  BY <1>1, <1>2 DEF IInv, TypeOK
<1>4. Past' /\ RestartsMarked'
  BY DEF IInv, Past, RestartsMarked
<1>5. OnBegun'
  BY <1>1, IdleTyped DEF IInv, OnBegun
<1>6. Alone'
  BY <1>1, <1>2, IdleTyped DEF IInv, Alone, Busy
<1>7. Informed'
  <2> SUFFICES ASSUME NEW p \in Actor, p \notin met' PROVE Knows(p)'
    BY DEF Informed
  <2>1. CASE p = q
    BY <1>1, <2>1, IdleTyped DEF Knows
  <2>2. CASE p # q
    <3>1. Knows(p)
      BY <1>2, <2>2 DEF IInv, Informed
    <3> QED BY <1>1, <2>2, <3>1 DEF Knows, Open, Begun
  <2> QED BY <2>1, <2>2
<1> QED BY <1>3, <1>4, <1>5, <1>6, <1>7 DEF IInv

\* A write of a session that was begun leaves its beginning alone.
LEMMA WriteKeeps ==
  ASSUME IInv, NEW q \in Actor, NEW s \in Session, NEW r \in Row, Write(q, s, r),
         Busy(q), Begun(s), r.status # "none", r.start = row[s].start,
         r.restart = row[s].restart, r.pausedAt # NoTime => r.pausedAt <= now
  PROVE  IInv'
<1>1. req' \in [Actor -> Request] /\ req'[q] = Idle /\ \A p \in Actor \ {q} : req'[p] = req[p]
  BY IdleTyped DEF Write, Ends, IInv, TypeOK
<1>2. met' = met \ {q} /\ UNCHANGED <<now, spent, faults>>
  BY DEF Write, Ends
<1>3. row' \in [Session -> Row] /\ row'[s] \in {row[s], r}
      /\ \A k \in Session \ {s} : row'[k] = row[k]
  BY DEF Write, IInv, TypeOK
<1>4. torn \subseteq torn' /\ torn' \subseteq Session
  BY DEF Write, IInv, TypeOK
<1>5. \A k \in Session :
        /\ row'[k].start = row[k].start /\ row'[k].restart = row[k].restart
        /\ row'[k].status = "none" <=> row[k].status = "none"
  BY <1>3 DEF Begun
<1>6. TypeOK'
  BY <1>1, <1>2, <1>3, <1>4 DEF IInv, TypeOK
<1>7. Past'
  <2> SUFFICES ASSUME NEW k \in Session
               PROVE  /\ row'[k].start <= now
                      /\ row'[k].pausedAt # NoTime => row'[k].pausedAt <= now
    BY <1>2 DEF Past
  <2>1. row[k].start <= now /\ (row[k].pausedAt # NoTime => row[k].pausedAt <= now)
    BY DEF IInv, Past
  <2> QED BY <1>3, <1>5, <2>1
<1>8. OnBegun'
  BY <1>1, <1>5, IdleTyped DEF IInv, OnBegun
<1>9. Alone'
  BY <1>1, <1>2, IdleTyped DEF IInv, Alone, Busy
<1>10. Informed'
  <2> SUFFICES ASSUME NEW p \in Actor, p \notin met' PROVE Knows(p)'
    BY DEF Informed
  <2>1. req'[p].op = "idle"
    <3>1. CASE p = q
      BY <1>1, <3>1, IdleTyped
    <3>2. CASE p # q
      <4>1. p \notin met
        BY <1>2, <3>2
      <4>2. ~Busy(p)
        BY <3>2, <4>1 DEF IInv, Alone
      <4> QED BY <1>1, <3>2, <4>2 DEF Busy
    <3> QED BY <3>1, <3>2
  <2> QED BY <2>1 DEF Knows
<1>11. RestartsMarked'
  BY <1>4, <1>5 DEF IInv, RestartsMarked, dayOf
<1> QED BY <1>6, <1>7, <1>8, <1>9, <1>10, <1>11 DEF IInv

-----------------------------------------------------------------------------
(* The invariant *)

LEMMA InitInv == Init => IInv
<1> SUFFICES ASSUME Init PROVE IInv
  OBVIOUS
<1>1. Absent \in Row
  BY DEF Absent, Row, Time
<1>2. TypeOK
  BY <1>1, IdleTyped DEF Init, TypeOK, Time
<1>3. \A s \in Session : row[s] = Absent
  BY DEF Init
<1>4. Past
  BY <1>3 DEF Init, Past, Absent
<1>5. \A q \in Actor : req[q].op = "idle"
  BY IdleTyped DEF Init
<1>6. OnBegun /\ Alone /\ Informed
  BY <1>5 DEF OnBegun, Alone, Informed, Knows, Busy
<1>7. RestartsMarked
  BY <1>3 DEF RestartsMarked, Absent
<1> QED BY <1>2, <1>4, <1>6, <1>7 DEF IInv

\* The time of a pause under way.
LEMMA PauseTyped == ASSUME IInv, NEW s \in Session PROVE PauseSoFar(s) \in Nat
<1>1. row[s].pausedAt # NoTime => row[s].pausedAt \in Nat /\ row[s].pausedAt <= now
  BY DEF IInv, Past, TypeOK, Row, Time
<1>2. now \in Nat
  BY DEF IInv, TypeOK, Time
<1> QED BY <1>1, <1>2 DEF PauseSoFar

LEMMA StartStep ==
  ASSUME IInv, NEW q \in Req, NEW op \in {"start", "restart"}, Start(q, op)
  PROVE  IInv'
<1> DEFINE r == [Idle EXCEPT !.op = op]
<1>1. r \in Request /\ r.op = op
  BY IdleTyped DEF Request
<1>2. q \in Actor /\ Begin(q, r) /\ \A s \in Session : ~Open(s)
  BY DEF Start, Actor
<1> HIDE DEF r
<1> QED BY <1>1, <1>2, BeginKeeps

\* Pause, Resume, Stop and Heartbeat begin alike.
LEMMA OnStep ==
  ASSUME IInv, NEW q \in Req, NEW s \in Session, Begun(s), NEW r \in Request,
         r.op \in {"pause", "resume", "beat", "stop"}, On(q, s, r)
  PROVE  IInv'
<1> DEFINE r2 == [r EXCEPT !.session = s]
<1>1. r2 \in Request /\ r2.op = r.op /\ r2.session = s
  BY DEF Request
<1>2. q \in Actor /\ Begin(q, r2)
  BY DEF On, Actor
<1> HIDE DEF r2
<1> QED BY <1>1, <1>2, BeginKeeps

LEMMA RequestsTyped ==
  /\ [Idle EXCEPT !.op = "pause"] \in Request /\ [Idle EXCEPT !.op = "pause"].op = "pause"
  /\ [Idle EXCEPT !.op = "beat"] \in Request /\ [Idle EXCEPT !.op = "beat"].op = "beat"
  /\ \A n \in Nat :
         /\ [Idle EXCEPT !.op = "resume", !.paused = n] \in Request
         /\ [Idle EXCEPT !.op = "resume", !.paused = n].op = "resume"
  /\ \A n, m \in Nat :
         /\ [Idle EXCEPT !.op = "stop", !.paused = n, !.active = m] \in Request
         /\ [Idle EXCEPT !.op = "stop", !.paused = n, !.active = m].op = "stop"
  BY DEF Idle, Request

LEMMA PeopleStep ==
  ASSUME IInv, NEW q \in Req, NEW s \in Session,
         Pause(q, s) \/ Resume(q, s) \/ Stop(q, s) \/ Heartbeat(q, s)
  PROVE  IInv'
<1>1. Begun(s)
  BY DEF Pause, Resume, Stop, Heartbeat, Open, Begun
<1>2. CASE Pause(q, s)
  BY <1>1, <1>2, RequestsTyped, OnStep DEF Pause
<1>3. CASE Resume(q, s)
  BY <1>1, <1>3, PauseTyped, RequestsTyped, OnStep DEF Resume
<1>4. CASE Stop(q, s)
  <2> DEFINE n == StoppedPaused(s)
             m == Less(now - row[s].start, StoppedPaused(s))
  <2>1. n \in Nat
    BY PauseTyped DEF StoppedPaused, IInv, TypeOK, Row
  <2>2. m \in Nat
    BY <2>1 DEF Less, IInv, TypeOK, Row, Time
  <2>3. On(q, s, [Idle EXCEPT !.op = "stop", !.paused = n, !.active = m])
    BY <1>4 DEF Stop
  <2> HIDE DEF n, m
  <2> DEFINE r == [Idle EXCEPT !.op = "stop", !.paused = n, !.active = m]
  <2>4. r \in Request /\ r.op = "stop"
    BY <2>1, <2>2 DEF Idle, Request
  <2>5. On(q, s, r)
    BY <2>3
  <2> HIDE DEF r
  <2> QED BY <1>1, <2>4, <2>5, OnStep
<1>5. CASE Heartbeat(q, s)
  BY <1>1, <1>5, RequestsTyped, OnStep DEF Heartbeat
<1> QED BY <1>2, <1>3, <1>4, <1>5

\* What the look-up has seen is still so for a request that met nobody.
LEMMA CheckStep == ASSUME IInv, NEW q \in Req, CheckStopped(q) PROVE IInv'
<1> DEFINE r == [req[q] EXCEPT !.op = "insert", !.restart = stoppedTodayAlready]
<1>1. q \in Actor
  BY DEF Actor
<1>2. req[q] \in Request /\ req[q].op \in {"start", "restart"}
  BY <1>1 DEF CheckStopped, IInv, TypeOK
<1>3. r \in Request /\ r.op = "insert" /\ r.restart = stoppedTodayAlready
  BY <1>2 DEF Request, stoppedTodayAlready
<1>4. req' = [req EXCEPT ![q] = r] /\ UNCHANGED <<now, row, spent, met, torn, faults>>
  BY DEF CheckStopped
<1>5. req' \in [Actor -> Request] /\ req'[q] = r /\ \A p \in Actor \ {q} : req'[p] = req[p]
  BY <1>1, <1>3, <1>4 DEF IInv, TypeOK
<1> HIDE DEF r
<1>6. TypeOK' /\ Past' /\ RestartsMarked'
  BY <1>4, <1>5 DEF IInv, TypeOK, Past, RestartsMarked
<1>7. OnBegun'
  BY <1>3, <1>4, <1>5 DEF IInv, OnBegun
<1>8. Alone'
  BY <1>2, <1>3, <1>4, <1>5 DEF IInv, Alone, Busy
<1>9. Informed'
  <2> SUFFICES ASSUME NEW p \in Actor, p \notin met PROVE Knows(p)'
    BY <1>4 DEF Informed
  <2>1. Knows(p)
    BY DEF IInv, Informed
  <2>2. CASE p # q
    BY <1>4, <1>5, <2>1, <2>2 DEF Knows, Open, Begun
  <2>3. CASE p = q
    <3>1. \A s \in Session : ~Open(s)
      BY <1>2, <2>1, <2>3 DEF Knows
    <3>2. ASSUME ~stoppedTodayAlready, NEW s \in Session, Begun(s)
          PROVE  dayOf(row[s].start) # dayOf(now)
      <4>1. row[s].status = "stopped"
        BY <3>1, <3>2 DEF Open, Begun, IInv, TypeOK, Row
      <4> QED BY <3>2, <4>1 DEF stoppedTodayAlready
    <3> QED BY <1>3, <1>4, <1>5, <2>3, <3>1, <3>2 DEF Knows, Open, Begun
  <2> QED BY <2>2, <2>3
<1> QED BY <1>6, <1>7, <1>8, <1>9 DEF IInv

LEMMA InsertStep == ASSUME IInv, NEW q \in Req, Insert(q) PROVE IInv'
<1>1. q \in Actor /\ req[q].op = "insert" /\ Busy(q)
  BY DEF Insert, Actor, Busy
<1> DEFINE r == [Absent EXCEPT !.status = "active", !.start = now, !.beat = now,
                               !.restart = req[q].restart]
<1>2. PICK s \in Session : row[s].status = "none" /\ Write(q, s, r)
  BY DEF Insert
<1>3. now \in Time /\ req[q].restart \in BOOLEAN /\ now \in Nat
  BY <1>1 DEF IInv, TypeOK, Request, Time
<1>4. r \in Row /\ r.status = "active" /\ r.start = now /\ r.pausedAt = NoTime
      /\ r.restart = req[q].restart
  BY <1>3 DEF Absent, Row, Time
<1> HIDE DEF r
<1>5. req' \in [Actor -> Request] /\ req'[q] = Idle /\ \A p \in Actor \ {q} : req'[p] = req[p]
  BY <1>1, <1>2, IdleTyped DEF Write, Ends, IInv, TypeOK
<1>6. met' = met \ {q} /\ UNCHANGED <<now, spent, faults>>
  BY <1>2 DEF Write, Ends
<1>7. row' \in [Session -> Row] /\ row'[s] \in {row[s], r}
      /\ \A k \in Session \ {s} : row'[k] = row[k]
  BY <1>2, <1>4 DEF Write, IInv, TypeOK
<1>8. torn \subseteq torn' /\ torn' \subseteq Session
  BY <1>2 DEF Write, IInv, TypeOK
<1>9. TypeOK'
  BY <1>5, <1>6, <1>7, <1>8 DEF IInv, TypeOK
<1>10. Past'
  <2> SUFFICES ASSUME NEW k \in Session
               PROVE  /\ row'[k].start <= now
                      /\ row'[k].pausedAt # NoTime => row'[k].pausedAt <= now
    BY <1>6 DEF Past
  <2>1. row[k].start <= now /\ (row[k].pausedAt # NoTime => row[k].pausedAt <= now)
    BY DEF IInv, Past
  <2> QED BY <1>3, <1>4, <1>7, <2>1
<1>11. OnBegun'
  <2> SUFFICES ASSUME NEW p \in Actor,
                      req'[p].op \in {"pause", "resume", "beat", "stop", "close"}
               PROVE  req'[p].session \in Session /\ row'[req'[p].session].status # "none"
    BY DEF OnBegun
  <2>1. p # q /\ req'[p] = req[p]
    BY <1>5, IdleTyped
  <2>2. req[p].session \in Session /\ row[req[p].session].status # "none"
    BY <2>1 DEF IInv, OnBegun
  <2>3. req[p].session # s
    BY <1>2, <2>2
  <2> QED BY <1>7, <2>1, <2>2, <2>3
<1>12. Alone'
  BY <1>5, <1>6, IdleTyped DEF IInv, Alone, Busy
<1>13. Informed'
  <2> SUFFICES ASSUME NEW p \in Actor, p \notin met' PROVE Knows(p)'
    BY DEF Informed
  <2>1. req'[p].op = "idle"
    <3>1. CASE p = q
      BY <1>5, <3>1, IdleTyped
    <3>2. CASE p # q
      <4>1. p \notin met
        BY <1>6, <3>2
      <4>2. ~Busy(p)
        BY <1>1, <3>2, <4>1 DEF IInv, Alone
      <4> QED BY <1>5, <3>2, <4>2 DEF Busy
    <3> QED BY <3>1, <3>2
  <2> QED BY <2>1 DEF Knows
<1>14. RestartsMarked'
  <2>1. CASE row'[s] = row[s]
    <3>1. row' = row
      BY <1>7, <2>1 DEF IInv, TypeOK
    <3> QED BY <1>8, <3>1 DEF IInv, RestartsMarked
  <2>2. CASE row'[s] = r /\ ~Fits(s, r)
    <3>1. row' = row
      BY <1>2, <2>2 DEF Write
    <3> QED BY <1>8, <3>1 DEF IInv, RestartsMarked
  <2>3. CASE row'[s] = r /\ Fits(s, r) /\ q \in met
    <3>1. s \in torn'
      BY <1>2, <2>3 DEF Write
    <3> QED BY <1>7, <1>8, <3>1 DEF IInv, RestartsMarked
  <2>4. CASE row'[s] = r /\ q \notin met
    <3>1. ASSUME NEW k \in Session \ {s}, row[k].status # "none",
                 dayOf(row[k].start) = dayOf(now)
          PROVE  r.restart
      <4>1. Knows(q)
        BY <1>1, <2>4 DEF IInv, Informed
      <4> QED BY <1>1, <1>4, <3>1, <4>1 DEF Knows, Begun
    <3> SUFFICES ASSUME NEW i \in Session \ torn', NEW k \in Session \ torn', i # k,
                        row'[i].status # "none", row'[k].status # "none",
                        dayOf(row'[i].start) = dayOf(row'[k].start)
                 PROVE  row'[i].restart \/ row'[k].restart
      BY DEF RestartsMarked, dayOf
    <3>2. CASE i = s
      BY <1>4, <1>7, <2>4, <3>1, <3>2
    <3>3. CASE k = s
      BY <1>4, <1>7, <2>4, <3>1, <3>3
    <3>4. CASE i # s /\ k # s
      BY <1>7, <1>8, <3>4 DEF IInv, RestartsMarked
    <3> QED BY <3>2, <3>3, <3>4
  <2> QED BY <1>7, <2>1, <2>2, <2>3, <2>4
<1> QED BY <1>9, <1>10, <1>11, <1>12, <1>13, <1>14 DEF IInv

LEMMA UpdateStep == ASSUME IInv, NEW q \in Req, Update(q) PROVE IInv'
<1> DEFINE s == req[q].session
           r == Written(q)
<1>1. q \in Actor /\ Busy(q) /\ s \in Session /\ Begun(s)
  BY DEF Update, Actor, Busy, Begun, IInv, OnBegun
<1>2. Write(q, s, r)
  BY DEF Update
<1>3. row[s] \in Row /\ req[q] \in Request /\ now \in Time /\ now \in Nat
  BY <1>1 DEF IInv, TypeOK, Time
<1>4. row[s].pausedAt # NoTime => row[s].pausedAt <= now
  BY <1>1 DEF IInv, Past
<1>5. /\ r \in Row /\ r.status # "none" /\ r.start = row[s].start
      /\ r.restart = row[s].restart /\ (r.pausedAt # NoTime => r.pausedAt <= now)
  <2>1. CASE req[q].op = "pause"
    <3>1. r = [row[s] EXCEPT !.status = "paused", !.pausedAt = now, !.beat = now]
      BY <2>1 DEF Written
    <3>2. r \in Row /\ r.status = "paused" /\ r.pausedAt = now
      BY <1>3, <3>1 DEF Row
    <3>3. r.start = row[s].start /\ r.restart = row[s].restart
      BY <1>3, <3>1 DEF Row
    <3>4. now <= now
      BY <1>3
    <3> QED BY <3>2, <3>3, <3>4
  <2>2. CASE req[q].op = "resume"
    <3>1. r = [row[s] EXCEPT !.status = "active", !.pausedAt = NoTime, !.beat = now,
                             !.paused = row[s].paused + req[q].paused]
      BY <1>3, <2>2 DEF Written, Row
    <3>2. row[s].paused + req[q].paused \in Nat
      BY <1>3 DEF Row, Request
    <3> QED BY <1>3, <3>1, <3>2 DEF Row
  <2>3. CASE req[q].op = "beat"
    <3>1. r = [row[s] EXCEPT !.beat = now]
      BY <2>3 DEF Written
    <3> QED BY <1>1, <1>3, <1>4, <3>1 DEF Row, Begun
  <2>4. CASE req[q].op = "stop"
    <3>1. r = [row[s] EXCEPT !.status = "stopped", !.end = now, !.pausedAt = NoTime,
                             !.paused = req[q].paused, !.active = req[q].active]
      BY <2>4 DEF Written
    <3> QED BY <1>3, <3>1 DEF Row, Request
  <2> QED BY <2>1, <2>2, <2>3, <2>4 DEF Update
<1> HIDE DEF s, r
<1> QED BY <1>1, <1>2, <1>5, WriteKeeps

LEMMA ReadStale ==
  ASSUME IInv, NEW s \in Session, findStaleOpenSessions(s)
  PROVE  IInv'
<1> DEFINE r == [Idle EXCEPT !.op = "close", !.session = s,
                             !.paused = computePausedSeconds(s),
                             !.active = computeActiveSeconds(s)]
<1>1. computePausedSeconds(s) \in Nat /\ computeActiveSeconds(s) \in Nat
  BY CloseTyped DEF IInv
<1>2. r \in Request /\ r.op = "close" /\ r.session = s
  BY <1>1 DEF Idle, Request
<1>3. Begin(Closer, r) /\ Begun(s) /\ Closer \in Actor
  BY DEF findStaleOpenSessions, Stale, Open, Begun, Actor
<1> HIDE DEF r
<1> QED BY <1>2, <1>3, BeginKeeps

LEMMA CloseStep == ASSUME IInv, closeSession PROVE IInv'
<1> DEFINE s == req[Closer].session
           r == [row[s] EXCEPT !.status = "stopped", !.end = midnight(s),
                               !.pausedAt = NoTime, !.auto = TRUE,
                               !.paused = req[Closer].paused,
                               !.active = req[Closer].active]
<1>1. Closer \in Actor /\ Busy(Closer) /\ s \in Session /\ Begun(s)
  BY DEF closeSession, Actor, Busy, Begun, IInv, OnBegun
<1>2. Write(Closer, s, r)
  BY DEF closeSession
<1>3. row[s] \in Row /\ req[Closer] \in Request /\ midnight(s) \in Nat
  BY <1>1, MidnightTyped DEF IInv, TypeOK
<1>4. /\ r \in Row /\ r.status # "none" /\ r.start = row[s].start
      /\ r.restart = row[s].restart /\ r.pausedAt = NoTime
  BY <1>3 DEF Row, Request
<1> HIDE DEF s, r
<1> QED BY <1>1, <1>2, <1>4, WriteKeeps

\* Yesterday's look-up says of today what is true of it: nothing began yet.
LEMMA ClockStep == ASSUME IInv, Clock PROVE IInv'
<1>1. now \in Nat /\ now' = now + 1 /\ now' \in Time /\ now' \in Nat
  BY DEF Clock, IInv, TypeOK, Time
<1>2. UNCHANGED <<row, req, torn, faults>> /\ met \subseteq met' /\ met' \subseteq Actor
  BY DEF Clock, IInv, TypeOK, Actor
<1>3. spent' \in [Session -> [active : SUBSET Time, paused : SUBSET Time]]
  BY DEF Clock, IInv, TypeOK
<1>4. TypeOK'
  BY <1>1, <1>2, <1>3 DEF IInv, TypeOK
<1>5. ASSUME NEW s \in Session
      PROVE  /\ row[s].start \in Nat /\ row[s].start <= now
             /\ row[s].pausedAt # NoTime => row[s].pausedAt \in Nat /\ row[s].pausedAt <= now
  BY DEF IInv, TypeOK, Past, Row, Time
<1>6. Past'
  BY <1>1, <1>2, <1>5 DEF Past
<1>7. OnBegun' /\ Alone' /\ RestartsMarked'
  BY <1>2 DEF IInv, OnBegun, Alone, Busy, RestartsMarked
<1>8. Informed'
  <2> SUFFICES ASSUME NEW q \in Actor, q \notin met' PROVE Knows(q)'
    BY DEF Informed
  <2>1. Knows(q)
    BY <1>2 DEF IInv, Informed
  <2>2. ASSUME NEW s \in Session, dayOf(row[s].start) = dayOf(now')
        PROVE  dayOf(row[s].start) = dayOf(now)
    <3>1. /\ dayOf(row[s].start) <= dayOf(now) /\ dayOf(now) <= dayOf(now')
          /\ dayOf(now) \in Nat /\ dayOf(row[s].start) \in Nat
      BY <1>1, <1>5, DayOrder, DayTyped
    <3> QED BY <2>2, <3>1
  <2> QED BY <1>2, <2>1, <2>2 DEF Knows, Open, Begun, dayOf
<1> QED BY <1>4, <1>6, <1>7, <1>8 DEF IInv

LEMMA EndStep ==
  ASSUME IInv, PassFails \/ \E q \in Req : Refuse(q) \/ Drop(q)
  PROVE  IInv'
<1>1. CASE PassFails
  <2>1. Closer \in Actor /\ Ends(Closer) /\ UNCHANGED <<now, row, spent, torn>>
    BY <1>1 DEF PassFails, Actor
  <2>2. faults' \in 0..MaxFaults
    BY <1>1 DEF PassFails, IInv, TypeOK
  <2> QED BY <2>1, <2>2, EndKeeps
<1>2. CASE \E q \in Req : Refuse(q) \/ Drop(q)
  <2>1. PICK q \in Req : Ends(q) /\ UNCHANGED <<now, row, spent, torn, faults>>
    BY <1>2 DEF Refuse, Drop
  <2>2. q \in Actor /\ faults' \in 0..MaxFaults
    BY <2>1 DEF Actor, IInv, TypeOK
  <2> QED BY <2>1, <2>2, EndKeeps
<1> QED BY <1>1, <1>2

LEMMA NextInv == ASSUME IInv, [Next]_vars PROVE IInv'
<1>1. CASE UNCHANGED vars
  <2>1. TypeOK' /\ Past' /\ OnBegun' /\ RestartsMarked'
    BY <1>1 DEF vars, IInv, TypeOK, Past, OnBegun, RestartsMarked
  <2>2. Alone' /\ Informed'
    BY <1>1 DEF vars, IInv, Alone, Informed, Knows, Busy, Open, Begun
  <2> QED BY <2>1, <2>2 DEF IInv
<1>2. CASE Clock
  BY <1>2, ClockStep
<1>3. CASE closeSession
  BY <1>3, CloseStep
<1>4. CASE PassFails
  BY <1>4, EndStep
<1>5. CASE \E s \in Session : findStaleOpenSessions(s)
  BY <1>5, ReadStale
<1>6. ASSUME NEW q \in Req, \E op \in {"start", "restart"} : Start(q, op)
      PROVE  IInv'
  BY <1>6, StartStep
<1>7. ASSUME NEW q \in Req,
             CheckStopped(q) \/ Refuse(q) \/ Insert(q) \/ Update(q) \/ Drop(q)
      PROVE  IInv'
  BY <1>7, CheckStep, InsertStep, UpdateStep, EndStep
<1>8. ASSUME NEW q \in Req,
             \E s \in Session : Pause(q, s) \/ Resume(q, s) \/ Stop(q, s) \/ Heartbeat(q, s)
      PROVE  IInv'
  BY <1>8, PeopleStep
<1> QED BY <1>1, <1>2, <1>3, <1>4, <1>5, <1>6, <1>7, <1>8 DEF Next

LEMMA Invariant == Spec => []IInv
<1>1. Init => IInv
  BY InitInv
<1>2. IInv /\ [Next]_vars => IInv'
  BY NextInv
<1> QED BY <1>1, <1>2, PTL DEF Spec

-----------------------------------------------------------------------------
(* Counting ticks *)

LEMMA IntervalSize ==
  ASSUME NEW a \in Nat, NEW b \in Nat, a <= b
  PROVE  IsFiniteSet(a..(b - 1)) /\ Cardinality(a..(b - 1)) = b - a
<1>1. a \in Int /\ b - 1 \in Int
  OBVIOUS
<1>2. /\ IsFiniteSet(a..(b - 1))
      /\ Cardinality(a..(b - 1)) = IF a > b - 1 THEN 0 ELSE (b - 1) - a + 1
  BY <1>1, FS_Interval
<1> QED BY <1>2

\* Two sets of ticks that share an interval out share out its beginnings.
Share(A, P, a, n) == A \cap P = {} /\ A \cup P = a..(n - 1)

LEMMA Shares ==
  ASSUME NEW a \in Nat, NEW n \in Nat, NEW u \in Nat, a <= u, u <= n,
         NEW A, NEW P, Share(A, P, a, n)
  PROVE  /\ IsFiniteSet(A) /\ IsFiniteSet(P)
         /\ Cardinality(A) \in Nat /\ Cardinality(P) \in Nat
         /\ Cardinality(Before(A, u)) \in Nat /\ Cardinality(Before(P, u)) \in Nat
         /\ Cardinality(Before(A, u)) + Cardinality(Before(P, u)) = u - a
         /\ Cardinality(Before(A, u)) <= Cardinality(A)
         /\ Cardinality(Before(P, u)) <= Cardinality(P)
<1>0. A \cap P = {} /\ A \cup P = a..(n - 1)
  BY DEF Share
<1>1. IsFiniteSet(a..(n - 1)) /\ A \in SUBSET (a..(n - 1)) /\ P \in SUBSET (a..(n - 1))
  BY <1>0, IntervalSize
<1>2. IsFiniteSet(A) /\ IsFiniteSet(P)
  BY <1>1, FS_Subset
<1>3. Before(A, u) \in SUBSET A /\ Before(P, u) \in SUBSET P
  BY DEF Before
<1>4. /\ IsFiniteSet(Before(A, u)) /\ IsFiniteSet(Before(P, u))
      /\ Cardinality(Before(A, u)) <= Cardinality(A)
      /\ Cardinality(Before(P, u)) <= Cardinality(P)
  BY <1>2, <1>3, FS_Subset
<1>5. /\ Cardinality(A) \in Nat /\ Cardinality(P) \in Nat
      /\ Cardinality(Before(A, u)) \in Nat /\ Cardinality(Before(P, u)) \in Nat
  BY <1>2, <1>4, FS_CardinalityType
<1>6. Before(A, u) \cap Before(P, u) = {}
  BY <1>0 DEF Before
<1>7. Before(A, u) \cup Before(P, u) = a..(u - 1)
  <2>1. \A k \in Int : k \in a..(u - 1) <=> k \in a..(n - 1) /\ k < u
    OBVIOUS
  <2> QED BY <1>0, <2>1 DEF Before
<1>8. Cardinality(Before(A, u) \cup Before(P, u)) =
        Cardinality(Before(A, u)) + Cardinality(Before(P, u))
                                  - Cardinality(Before(A, u) \cap Before(P, u))
  BY <1>4, FS_Union
<1>9. Cardinality(Before(A, u) \cap Before(P, u)) = 0
  BY <1>6, FS_EmptySet
<1>10. Cardinality(Before(A, u) \cup Before(P, u)) = u - a
  BY <1>7, IntervalSize
<1> QED BY <1>2, <1>4, <1>5, <1>8, <1>9, <1>10

\* Of an interval nothing is left out before its end.
LEMMA Whole ==
  ASSUME NEW a \in Nat, NEW n \in Nat, NEW P, P \subseteq a..(n - 1)
  PROVE  Before(P, n) = P
<1>1. \A k \in P : k \in Int /\ k < n
  OBVIOUS
<1> QED BY <1>1 DEF Before

\* A pause that goes on adds every tick.
LEMMA PauseGoesOn ==
  ASSUME NEW a \in Nat, NEW n \in Nat, NEW u \in Nat, NEW b \in Nat, b <= u, u <= n,
         NEW P, P \subseteq a..(n - 1), b..(n - 1) \subseteq P
  PROVE  Cardinality(Before(P, u)) = Cardinality(Before(P, b)) + (u - b)
<1>1. \A k \in P : k \in Int
  OBVIOUS
<1>2. Before(P, u) = Before(P, b) \cup (b..(u - 1))
  <2>1. ASSUME NEW k \in Before(P, u) PROVE k \in Before(P, b) \/ k \in b..(u - 1)
    <3>1. k \in P /\ k \in Int /\ k < u
      BY <1>1 DEF Before
    <3> QED BY <3>1 DEF Before
  <2>2. ASSUME NEW k \in Before(P, b) PROVE k \in Before(P, u)
    <3>1. k \in P /\ k \in Int /\ k < b
      BY <1>1 DEF Before
    <3> QED BY <3>1 DEF Before
  <2>3. ASSUME NEW k \in b..(u - 1) PROVE k \in Before(P, u)
    <3>1. k \in b..(n - 1) /\ k < u
      OBVIOUS
    <3> QED BY <3>1 DEF Before
  <2> QED BY <2>1, <2>2, <2>3
<1>3. Before(P, b) \cap (b..(u - 1)) = {}
  BY DEF Before
<1>4. IsFiniteSet(Before(P, b))
  <2>1. IsFiniteSet(a..(n - 1))
    BY FS_Interval
  <2>2. Before(P, b) \in SUBSET (a..(n - 1))
    BY DEF Before
  <2> QED BY <2>1, <2>2, FS_Subset
<1>5. IsFiniteSet(b..(u - 1)) /\ Cardinality(b..(u - 1)) = u - b
  BY IntervalSize
<1>6. Cardinality(Before(P, u)) =
        Cardinality(Before(P, b)) + Cardinality(b..(u - 1))
                                  - Cardinality(Before(P, b) \cap (b..(u - 1)))
  BY <1>2, <1>4, <1>5, FS_Union
<1>7. Cardinality(Before(P, b) \cap (b..(u - 1))) = 0
  BY <1>3, FS_EmptySet
<1> QED BY <1>4, <1>5, <1>6, <1>7, FS_CardinalityType

-----------------------------------------------------------------------------
(* What a tracked session comes to *)

\* The pauses up to now, of an open session.
LEMMA PausedSoFar ==
  ASSUME IInv, NEW s \in Session, Tracked(s), Open(s)
  PROVE  /\ StoppedPaused(s) = Cardinality(spent[s].paused)
         /\ IsFiniteSet(spent[s].paused)
         /\ Cardinality(spent[s].active) \in Nat /\ Cardinality(spent[s].paused) \in Nat
         /\ Cardinality(spent[s].active) + Cardinality(spent[s].paused)
              = now - row[s].start
<1> DEFINE A == spent[s].active
           P == spent[s].paused
           a == row[s].start
<1>1. a \in Nat /\ now \in Nat /\ a <= now /\ A \cap P = {} /\ A \cup P = a..(now - 1)
  BY DEF Tracked, IInv, TypeOK, Row, Time
<1>2. /\ IsFiniteSet(A) /\ IsFiniteSet(P) /\ Cardinality(A) \in Nat /\ Cardinality(P) \in Nat
      /\ Cardinality(Before(A, now)) + Cardinality(Before(P, now)) = now - a
  <2>1. Share(A, P, a, now) /\ now <= now
    BY <1>1 DEF Share
  <2> HIDE DEF A, P, a
  <2> QED BY <1>1, <2>1, Shares
<1>3. Before(A, now) = A /\ Before(P, now) = P
  BY <1>1, Whole
<1>4. CASE row[s].status = "active"
  BY <1>2, <1>3, <1>4 DEF StoppedPaused, PauseSoFar, Tracked
<1>5. CASE row[s].status = "paused"
  <2> DEFINE b == row[s].pausedAt
  <2>1. b \in a..now /\ b..(now - 1) \subseteq P /\ row[s].paused = Cardinality(Before(P, b))
    BY <1>5 DEF Tracked
  <2>2. b \in Nat /\ b <= now /\ b # NoTime
    BY <1>1, <2>1
  <2>3. Cardinality(Before(P, now)) = Cardinality(Before(P, b)) + (now - b)
    BY <1>1, <2>1, <2>2, PauseGoesOn
  <2> QED BY <1>2, <1>3, <1>5, <2>1, <2>2, <2>3 DEF StoppedPaused, PauseSoFar
<1> QED BY <1>2, <1>3, <1>4, <1>5 DEF Open

\* The worker's figures: the pauses before the instant it accounts up to, and at
\* most those that began later besides.
LEMMA ClosedFigures ==
  ASSUME IInv, NEW s \in Session, Tracked(s), Stale(s)
  PROVE  LET u == Lesser(midnight(s), row[s].beat + Grace)
             P == spent[s].paused
         IN  /\ u \in Nat /\ row[s].start <= u /\ u <= now
             /\ effectiveNow(s) = u /\ Elapsed(s) = u - row[s].start
             /\ Cardinality(Before(P, u)) <= computePausedSeconds(s)
             /\ computePausedSeconds(s) <= Cardinality(P)
             /\ computePausedSeconds(s) <= Elapsed(s)
<1> DEFINE A == spent[s].active
           P == spent[s].paused
           a == row[s].start
           u == Lesser(midnight(s), row[s].beat + Grace)
<1>1. a \in Nat /\ now \in Nat /\ a <= now /\ A \cap P = {} /\ A \cup P = a..(now - 1)
  BY DEF Tracked, Stale, IInv, TypeOK, Row, Time
<1>2. /\ row[s].end = NoTime /\ row[s].beat \in Nat /\ a <= row[s].beat
      /\ row[s].paused \in Nat /\ midnight(s) \in Nat /\ midnight(s) <= now
  BY MidnightTyped DEF Tracked, Stale, IInv, TypeOK, Row, Time
<1>3. a <= midnight(s)
  BY <1>1 DEF midnight, dayOf
<1>4. u \in Nat /\ a <= u /\ u <= now
  BY <1>1, <1>2, <1>3 DEF Lesser
<1>5. effectiveNow(s) = u
  BY <1>2 DEF effectiveNow, Reopened
<1> HIDE DEF u
<1>6. Elapsed(s) = u - a /\ Elapsed(s) \in Nat
  BY <1>1, <1>4, <1>5 DEF Elapsed, Less
<1>7. /\ IsFiniteSet(P) /\ Cardinality(P) \in Nat
      /\ Cardinality(Before(A, u)) \in Nat /\ Cardinality(Before(P, u)) \in Nat
      /\ Cardinality(Before(A, u)) + Cardinality(Before(P, u)) = u - a
      /\ Cardinality(Before(P, u)) <= Cardinality(P)
  <2>1. Share(A, P, a, now)
    BY <1>1 DEF Share
  <2> HIDE DEF A, P, a
  <2> QED BY <1>1, <1>4, <2>1, Shares
<1> DEFINE x == row[s].paused + (IF row[s].status = "paused" /\ row[s].pausedAt # NoTime
                                   THEN Less(u, row[s].pausedAt) ELSE 0)
<1>8. computePausedSeconds(s) = Lesser(Elapsed(s), x)
  BY <1>5 DEF computePausedSeconds
<1>9. x \in Nat /\ Cardinality(Before(P, u)) <= x /\ x <= Cardinality(P)
  <2>1. CASE row[s].status = "active"
    <3>1. row[s].paused = Cardinality(P)
      BY <2>1 DEF Tracked
    <3> QED BY <1>7, <2>1, <3>1
  <2>2. CASE row[s].status = "paused"
    <3> DEFINE b == row[s].pausedAt
    <3>1. /\ b \in a..now /\ b..(now - 1) \subseteq P
          /\ row[s].paused = Cardinality(Before(P, b))
      BY <2>2 DEF Tracked
    <3>2. b \in Nat /\ b <= now /\ b # NoTime
      BY <1>1, <3>1
    <3>3. x = Cardinality(Before(P, b)) + Less(u, b)
      BY <2>2, <3>1, <3>2
    <3>4. CASE b <= u
      <4>1. Cardinality(Before(P, u)) = Cardinality(Before(P, b)) + (u - b)
        BY <1>1, <1>4, <3>1, <3>2, <3>4, PauseGoesOn
      <4>2. Less(u, b) = u - b
        BY <1>4, <3>2, <3>4 DEF Less
      <4> QED BY <1>7, <3>3, <4>1, <4>2
    <3>5. CASE u < b
      <4>1. Less(u, b) = 0
        BY <1>4, <3>2, <3>5 DEF Less
      <4>2. Before(P, u) \in SUBSET Before(P, b) /\ Before(P, b) \in SUBSET P
        <5>1. \A k \in P : k \in Int
          BY <1>1
        <5>2. \A k \in P : k < u => k < b
          BY <1>4, <3>2, <3>5, <5>1
        <5> QED BY <5>2 DEF Before
      <4>3. IsFiniteSet(Before(P, b)) /\ Cardinality(Before(P, b)) <= Cardinality(P)
        BY <1>7, <4>2, FS_Subset
      <4>4. Cardinality(Before(P, u)) <= Cardinality(Before(P, b))
        BY <4>2, <4>3, FS_Subset
      <4>5. Cardinality(Before(P, b)) \in Nat
        BY <4>3, FS_CardinalityType
      <4> QED BY <3>3, <4>1, <4>3, <4>4, <4>5
    <3> QED BY <1>4, <3>2, <3>4, <3>5
  <2> QED BY <2>1, <2>2 DEF Stale, Open
<1> HIDE DEF x
<1>10. Cardinality(Before(P, u)) <= Elapsed(s)
  BY <1>6, <1>7
<1>11. /\ Cardinality(Before(P, u)) <= computePausedSeconds(s)
       /\ computePausedSeconds(s) <= Cardinality(P)
       /\ computePausedSeconds(s) <= Elapsed(s)
  BY <1>6, <1>7, <1>8, <1>9, <1>10 DEF Lesser
<1> QED BY <1>4, <1>5, <1>6, <1>11 DEF u

-----------------------------------------------------------------------------
(* The accounts *)

AInv == IInv /\ Ledger /\ FiguresExact /\ AccountsAgree

\* What a session and the figures read of it depend on.
LEMMA Unmoved ==
  ASSUME NEW s \in Session, row'[s] = row[s], UNCHANGED <<now, spent>>
  PROVE  /\ Tracked(s) => Tracked(s)'
         /\ Accounted(s) => Accounted(s)'
<1>1. Tracked(s) => Tracked(s)'
  BY DEF Tracked, Open, Before
<1>2. Accounted(s) => Accounted(s)'
  BY DEF Accounted, Upto, Before, Lesser, midnight, dayOf
<1> QED BY <1>1, <1>2

LEMMA FiguresStay ==
  ASSUME NEW q \in Actor, Exact(q, req[q]), UNCHANGED <<now, row>>, req'[q] = req[q]
  PROVE  Exact(q, req[q])'
<1>1. \A s : /\ Open(s)' <=> Open(s)
             /\ PauseSoFar(s)' = PauseSoFar(s)
             /\ midnight(s)' = midnight(s)
  BY DEF Open, PauseSoFar, midnight, dayOf
<1>2. \A s : effectiveNow(s)' = effectiveNow(s)
  BY <1>1 DEF effectiveNow, Reopened
<1>3. \A s : Elapsed(s)' = Elapsed(s)
  BY <1>2 DEF Elapsed
<1>4. \A s : /\ StoppedPaused(s)' = StoppedPaused(s)
             /\ computePausedSeconds(s)' = computePausedSeconds(s)
             /\ Stale(s)' <=> Stale(s)
  BY <1>1, <1>2, <1>3 DEF StoppedPaused, computePausedSeconds, Stale
<1>5. \A s : computeActiveSeconds(s)' = computeActiveSeconds(s)
  BY <1>3, <1>4 DEF computeActiveSeconds
<1> QED BY <1>1, <1>4, <1>5 DEF Exact

\* A request begins with figures it has just read.
LEMMA BeginAccounts ==
  ASSUME AInv, NEW q \in Actor, NEW r \in Request, Begin(q, r), Exact(q, r)
  PROVE  Ledger' /\ FiguresExact' /\ AccountsAgree'
<1>1. req' = [req EXCEPT ![q] = r] /\ UNCHANGED <<now, row, spent, torn>>
  BY DEF Begin
<1>2. req'[q] = r /\ \A p \in Actor \ {q} : req'[p] = req[p]
  BY <1>1 DEF AInv, IInv, TypeOK
<1>3. Ledger' /\ AccountsAgree'
  BY <1>1, Unmoved DEF AInv, Ledger, AccountsAgree
<1>4. FiguresExact'
  <2> SUFFICES ASSUME NEW p \in Actor, p \notin met' PROVE Exact(p, req[p])'
    BY DEF FiguresExact
  <2>1. CASE p = q
    <3>1. Exact(q, r)'
      BY <1>1 DEF Exact, Open, PauseSoFar, StoppedPaused, Stale, midnight, dayOf,
             computePausedSeconds, computeActiveSeconds, Elapsed, effectiveNow, Reopened
    <3> QED BY <1>2, <2>1, <3>1 DEF Exact
  <2>2. CASE p # q
    <3>1. CASE p \in met
      <4>1. ~Busy(p)
        BY <2>2, <3>1 DEF Begin
      <4> QED BY <1>2, <2>2, <4>1 DEF Busy, Exact
    <3>2. CASE p \notin met
      BY <1>1, <1>2, <2>2, <3>2, FiguresStay DEF AInv, FiguresExact
    <3> QED BY <3>1, <3>2
  <2> QED BY <2>1, <2>2
<1> QED BY <1>3, <1>4

\* A request that ends without a write takes its figures along.
LEMMA EndAccounts ==
  ASSUME AInv, NEW q \in Actor, Ends(q), UNCHANGED <<now, row, spent, torn>>
  PROVE  Ledger' /\ FiguresExact' /\ AccountsAgree'
<1>1. /\ req'[q] = Idle /\ \A p \in Actor \ {q} : req'[p] = req[p]
      /\ met' = met \ {q}
  BY DEF Ends, AInv, IInv, TypeOK
<1>2. Ledger' /\ AccountsAgree'
  BY Unmoved DEF AInv, Ledger, AccountsAgree
<1>3. FiguresExact'
  <2> SUFFICES ASSUME NEW p \in Actor, p \notin met' PROVE Exact(p, req[p])'
    BY DEF FiguresExact
  <2>1. CASE p = q
    BY <1>1, <2>1, IdleTyped DEF Exact
  <2>2. CASE p # q
    BY <1>1, <2>2, FiguresStay DEF AInv, FiguresExact
  <2> QED BY <2>1, <2>2
<1> QED BY <1>2, <1>3

\* A write by one that met nobody is answerable for its session; one by another
\* tears it.
LEMMA WriteAccounts ==
  ASSUME AInv, NEW q \in Actor, NEW s \in Session, NEW r \in Row, Write(q, s, r), Busy(q),
         /\ q \notin met /\ s \notin torn /\ row' = [row EXCEPT ![s] = r] =>
              Tracked(s)' /\ (r.status = "stopped" => Accounted(s)')
  PROVE  Ledger' /\ FiguresExact' /\ AccountsAgree'
<1>1. Ends(q) /\ UNCHANGED <<now, spent>>
  BY DEF Write
<1>2. CASE ~Fits(s, r)
  <2>1. UNCHANGED <<now, row, spent, torn>>
    BY <1>2 DEF Write
  <2> QED BY <1>1, <2>1, EndAccounts
<1>3. CASE Fits(s, r)
  <2>1. row' = [row EXCEPT ![s] = r] /\ (q \in met => s \in torn') /\ torn \subseteq torn'
    BY <1>3 DEF Write
  <2>2. row'[s] = r /\ \A k \in Session \ {s} : row'[k] = row[k]
    BY <2>1 DEF AInv, IInv, TypeOK
  <2>3. Ledger' /\ AccountsAgree'
    <3> SUFFICES ASSUME NEW k \in Session, k \notin torn'
                 PROVE  Tracked(k)' /\ (row'[k].status = "stopped" => Accounted(k)')
      BY DEF Ledger, AccountsAgree
    <3>1. CASE k = s
      BY <2>1, <2>2, <3>1
    <3>2. CASE k # s
      <4>1. k \notin torn /\ row'[k] = row[k]
        BY <2>1, <2>2, <3>2
      <4> QED BY <1>1, <4>1, Unmoved DEF AInv, Ledger, AccountsAgree
    <3> QED BY <3>1, <3>2
  <2>4. FiguresExact'
    <3> SUFFICES ASSUME NEW p \in Actor, p \notin met' PROVE Exact(p, req[p])'
      BY DEF FiguresExact
    <3>1. /\ req'[q] = Idle /\ \A o \in Actor \ {q} : req'[o] = req[o]
          /\ met' = met \ {q}
      BY <1>1 DEF Ends, AInv, IInv, TypeOK
    <3>2. req'[p].op = "idle"
      <4>1. CASE p = q
        BY <3>1, <4>1, IdleTyped
      <4>2. CASE p # q
        <5>1. ~Busy(p)
          BY <3>1, <4>2 DEF AInv, IInv, Alone
        <5> QED BY <3>1, <4>2, <5>1 DEF Busy
      <4> QED BY <4>1, <4>2
    <3> QED BY <3>2 DEF Exact
  <2> QED BY <2>3, <2>4
<1> QED BY <1>2, <1>3

-----------------------------------------------------------------------------
(* The writes *)

LEMMA InsertAccounts ==
  ASSUME AInv, NEW q \in Req, Insert(q)
  PROVE  Ledger' /\ FiguresExact' /\ AccountsAgree'
<1> DEFINE r == [Absent EXCEPT !.status = "active", !.start = now, !.beat = now,
                               !.restart = req[q].restart]
<1>1. PICK s \in Session : row[s].status = "none" /\ Write(q, s, r)
  BY DEF Insert
<1>2. q \in Actor /\ Busy(q) /\ now \in Time /\ now \in Nat /\ req[q].restart \in BOOLEAN
  BY DEF Insert, Actor, Busy, AInv, IInv, TypeOK, Request, Time
<1>3. /\ r \in Row /\ r.status = "active" /\ r.start = now /\ r.beat = now
      /\ r.end = NoTime /\ ~r.auto /\ r.paused = 0
  BY <1>2 DEF Absent, Row, Time
<1> HIDE DEF r
<1>4. ASSUME s \notin torn, row' = [row EXCEPT ![s] = r] PROVE Tracked(s)'
  <2>1. row'[s] = r /\ UNCHANGED <<now, spent>>
    BY <1>1, <1>4 DEF Write, AInv, IInv, TypeOK
  <2>2. spent[s].active = {} /\ spent[s].paused = {}
    BY <1>1, <1>4 DEF AInv, Ledger, Tracked
  <2>3. now..(now - 1) = {} /\ now <= now
    BY <1>2
  <2>4. Cardinality(spent[s].paused) = 0
    BY <2>2, FS_EmptySet
  <2> QED BY <1>3, <2>1, <2>2, <2>3, <2>4 DEF Tracked, Open
<1> QED BY <1>1, <1>2, <1>3, <1>4, WriteAccounts

\* A pause that begins now has taken no tick yet.
LEMMA PauseAccounts ==
  ASSUME AInv, NEW q \in Req, Update(q), req[q].op = "pause"
  PROVE  Ledger' /\ FiguresExact' /\ AccountsAgree'
<1>s. PICK s : s = req[q].session
  OBVIOUS
<1>r. PICK r : r = [row[s] EXCEPT !.status = "paused", !.pausedAt = now, !.beat = now]
  OBVIOUS
<1>1. q \in Actor /\ Busy(q) /\ s \in Session
  BY <1>s DEF Actor, Busy, AInv, IInv, OnBegun
<1>2. Write(q, s, r)
  BY <1>s, <1>r DEF Update, Written
<1>3. row[s] \in Row /\ now \in Time /\ now \in Nat
  BY <1>1 DEF AInv, IInv, TypeOK, Time
<1>4. /\ r \in Row /\ r.status = "paused" /\ r.pausedAt = now /\ r.beat = now
      /\ r.start = row[s].start /\ r.end = row[s].end /\ r.auto = row[s].auto
      /\ r.paused = row[s].paused
  BY <1>r, <1>3 DEF Row
<1>5. q \notin met => row[s].status = "active"
  BY <1>s, <1>1 DEF AInv, FiguresExact, Exact
<1>6. ASSUME q \notin met, s \notin torn, row' = [row EXCEPT ![s] = r] PROVE Tracked(s)'
  <2>1. row'[s] = r /\ UNCHANGED <<now, spent>>
    BY <1>1, <1>2, <1>6 DEF Write, AInv, IInv, TypeOK
  <2>2. Tracked(s) /\ row[s].status = "active"
    BY <1>1, <1>5, <1>6 DEF AInv, Ledger
  <2>3. row[s].start \in Nat /\ row[s].start <= now
    BY <1>3, <2>2 DEF Tracked, Open, Row, Time
  <2>4. Before(spent[s].paused, now) = spent[s].paused
    <3>1. spent[s].paused \subseteq row[s].start..(now - 1)
      BY <2>2 DEF Tracked, Open
    <3> QED BY <1>3, <2>3, <3>1, Whole
  <2>5. now \in row[s].start..now /\ now..(now - 1) = {}
    BY <1>3, <2>3
  <2> QED BY <1>4, <2>1, <2>2, <2>3, <2>4, <2>5 DEF Tracked, Open
<1> QED BY <1>1, <1>2, <1>4, <1>6, WriteAccounts

\* A resume adds the pause that is over, to the tick.
LEMMA ResumeAccounts ==
  ASSUME AInv, NEW q \in Req, Update(q), req[q].op = "resume"
  PROVE  Ledger' /\ FiguresExact' /\ AccountsAgree'
<1>s. PICK s : s = req[q].session
  OBVIOUS
<1>r. PICK r : r = [row[s] EXCEPT !.status = "active", !.pausedAt = NoTime, !.beat = now,
                        !.paused = row[s].paused + req[q].paused]
  OBVIOUS
<1>1. q \in Actor /\ Busy(q) /\ s \in Session
  BY <1>s DEF Actor, Busy, AInv, IInv, OnBegun
<1>2. row[s] \in Row /\ now \in Time /\ now \in Nat /\ req[q] \in Request
  BY <1>1 DEF AInv, IInv, TypeOK, Time
<1>3. Write(q, s, r)
  BY <1>s, <1>r, <1>2 DEF Update, Written, Row
<1>4. row[s].paused + req[q].paused \in Nat
  BY <1>r, <1>2 DEF Row, Request
<1>5. /\ r \in Row /\ r.status = "active" /\ r.beat = now
      /\ r.start = row[s].start /\ r.end = row[s].end /\ r.auto = row[s].auto
      /\ r.paused = row[s].paused + req[q].paused
  BY <1>r, <1>2, <1>4 DEF Row
<1>6. q \notin met => row[s].status = "paused" /\ req[q].paused = PauseSoFar(s)
  BY <1>s, <1>1 DEF AInv, FiguresExact, Exact
<1>7. ASSUME q \notin met, s \notin torn, row' = [row EXCEPT ![s] = r] PROVE Tracked(s)'
  <2>1. row'[s] = r /\ UNCHANGED <<now, spent>>
    BY <1>1, <1>3, <1>7 DEF Write, AInv, IInv, TypeOK
  <2>2. Tracked(s) /\ row[s].status = "paused"
    BY <1>1, <1>6, <1>7 DEF AInv, Ledger
  <2>3. row[s].start \in Nat /\ row[s].start <= now
    BY <1>2, <2>2 DEF Tracked, Open, Row, Time
  <2>4. r.paused = Cardinality(spent[s].paused)
    <3>1. StoppedPaused(s) = Cardinality(spent[s].paused)
      BY <1>1, <2>2, PausedSoFar DEF Open, AInv
    <3> QED BY <1>5, <1>6, <1>7, <3>1 DEF StoppedPaused
  <2> QED BY <1>5, <2>1, <2>2, <2>3, <2>4 DEF Tracked, Open
<1> QED BY <1>1, <1>3, <1>5, <1>7, WriteAccounts

LEMMA BeatAccounts ==
  ASSUME AInv, NEW q \in Req, Update(q), req[q].op = "beat"
  PROVE  Ledger' /\ FiguresExact' /\ AccountsAgree'
<1>s. PICK s : s = req[q].session
  OBVIOUS
<1>r. PICK r : r = [row[s] EXCEPT !.beat = now]
  OBVIOUS
<1>1. q \in Actor /\ Busy(q) /\ s \in Session
  BY <1>s DEF Actor, Busy, AInv, IInv, OnBegun
<1>2. Write(q, s, r)
  BY <1>s, <1>r DEF Update, Written
<1>3. row[s] \in Row /\ now \in Time /\ now \in Nat
  BY <1>1 DEF AInv, IInv, TypeOK, Time
<1>4. /\ r \in Row /\ r.status = row[s].status /\ r.beat = now
      /\ r.start = row[s].start /\ r.end = row[s].end /\ r.auto = row[s].auto
      /\ r.paused = row[s].paused /\ r.pausedAt = row[s].pausedAt
  BY <1>r, <1>3 DEF Row
<1>5. q \notin met => Open(s)
  BY <1>s, <1>1 DEF AInv, FiguresExact, Exact
<1>6. ASSUME q \notin met, s \notin torn, row' = [row EXCEPT ![s] = r]
      PROVE  Tracked(s)' /\ r.status # "stopped"
  <2>1. row'[s] = r /\ UNCHANGED <<now, spent>>
    BY <1>1, <1>2, <1>6 DEF Write, AInv, IInv, TypeOK
  <2>2. Tracked(s) /\ Open(s)
    BY <1>1, <1>5, <1>6 DEF AInv, Ledger
  <2> QED BY <1>4, <2>1, <2>2 DEF Tracked, Open
<1> QED BY <1>1, <1>2, <1>4, <1>6, WriteAccounts

\* A stop writes what the ticks say.
LEMMA StopAccounts ==
  ASSUME AInv, NEW q \in Req, Update(q), req[q].op = "stop"
  PROVE  Ledger' /\ FiguresExact' /\ AccountsAgree'
<1>s. PICK s : s = req[q].session
  OBVIOUS
<1>r. PICK r : r = [row[s] EXCEPT !.status = "stopped", !.end = now, !.pausedAt = NoTime,
                        !.paused = req[q].paused, !.active = req[q].active]
  OBVIOUS
<1>1. q \in Actor /\ Busy(q) /\ s \in Session
  BY <1>s DEF Actor, Busy, AInv, IInv, OnBegun
<1>2. row[s] \in Row /\ now \in Time /\ now \in Nat /\ req[q] \in Request
  BY <1>1 DEF AInv, IInv, TypeOK, Time
<1>3. Write(q, s, r)
  BY <1>s, <1>r DEF Update, Written
<1>4. /\ r \in Row /\ r.status = "stopped" /\ r.end = now
      /\ r.start = row[s].start /\ r.auto = row[s].auto
      /\ r.paused = req[q].paused /\ r.active = req[q].active
  BY <1>r, <1>2 DEF Row, Request
<1>5. q \notin met => /\ Open(s) /\ req[q].paused = StoppedPaused(s)
                      /\ req[q].active = Less(now - row[s].start, StoppedPaused(s))
  BY <1>s, <1>1 DEF AInv, FiguresExact, Exact
<1>6. ASSUME q \notin met, s \notin torn, row' = [row EXCEPT ![s] = r]
      PROVE  Tracked(s)' /\ Accounted(s)'
  <2>1. row'[s] = r /\ UNCHANGED <<now, spent>>
    BY <1>1, <1>3, <1>6 DEF Write, AInv, IInv, TypeOK
  <2>2. Tracked(s) /\ Open(s)
    BY <1>1, <1>5, <1>6 DEF AInv, Ledger
  <2>3. row[s].start \in Nat /\ row[s].start <= now /\ ~row[s].auto
    BY <1>2, <2>2 DEF Tracked, Row, Time
  <2>4. /\ StoppedPaused(s) = Cardinality(spent[s].paused)
        /\ Cardinality(spent[s].active) \in Nat /\ Cardinality(spent[s].paused) \in Nat
        /\ Cardinality(spent[s].active) + Cardinality(spent[s].paused) = now - row[s].start
    BY <1>1, <2>2, PausedSoFar DEF AInv
  <2>5. r.paused = Cardinality(spent[s].paused) /\ r.active = Cardinality(spent[s].active)
    BY <1>2, <1>4, <1>5, <1>6, <2>3, <2>4 DEF Less
  <2>6. /\ Before(spent[s].paused, now) = spent[s].paused
        /\ Before(spent[s].active, now) = spent[s].active
    <3>1. /\ spent[s].paused \subseteq row[s].start..(now - 1)
          /\ spent[s].active \subseteq row[s].start..(now - 1)
      BY <2>2 DEF Tracked
    <3> QED BY <1>2, <2>3, <3>1, Whole
  <2>7. Tracked(s)'
    BY <1>4, <2>1 DEF Tracked, Open
  <2>8. Upto(s)' = now
    BY <1>4, <2>1, <2>3 DEF Upto
  <2>9. Accounted(s)'
    <3>1. /\ r.active + r.paused = now - r.start
          /\ r.active <= Cardinality(spent[s].active)
          /\ Cardinality(spent[s].active) <=
               r.active + (Cardinality(spent[s].paused) - Cardinality(spent[s].paused))
      BY <1>4, <2>4, <2>5
    <3> QED BY <2>1, <2>6, <2>8, <3>1 DEF Accounted, Before
  <2> QED BY <2>7, <2>9
<1> QED BY <1>1, <1>3, <1>4, <1>6, WriteAccounts

\* The worker writes the figures of the row it read.
LEMMA CloseAccounts ==
  ASSUME AInv, closeSession
  PROVE  Ledger' /\ FiguresExact' /\ AccountsAgree'
<1>s. PICK s : s = req[Closer].session
  OBVIOUS
<1>r. PICK r : r = [row[s] EXCEPT !.status = "stopped", !.end = midnight(s),
                        !.pausedAt = NoTime, !.auto = TRUE,
                        !.paused = req[Closer].paused,
                        !.active = req[Closer].active]
  OBVIOUS
<1>1. Closer \in Actor /\ Busy(Closer) /\ s \in Session
  BY <1>s DEF closeSession, Actor, Busy, AInv, IInv, OnBegun
<1>2. row[s] \in Row /\ req[Closer] \in Request /\ midnight(s) \in Nat
  BY <1>1, MidnightTyped DEF AInv, IInv, TypeOK
<1>3. Write(Closer, s, r)
  BY <1>s, <1>r DEF closeSession
<1>4. /\ r \in Row /\ r.status = "stopped" /\ r.auto
      /\ r.start = row[s].start /\ r.beat = row[s].beat
      /\ r.paused = req[Closer].paused /\ r.active = req[Closer].active
  BY <1>r, <1>2 DEF Row, Request
<1>5. Closer \notin met => /\ Stale(s) /\ req[Closer].paused = computePausedSeconds(s)
                           /\ req[Closer].active = computeActiveSeconds(s)
  BY <1>s, <1>1 DEF closeSession, AInv, FiguresExact, Exact
<1>6. ASSUME Closer \notin met, s \notin torn, row' = [row EXCEPT ![s] = r]
      PROVE  Tracked(s)' /\ Accounted(s)'
  <2>d. PICK u, A, P, a, cp :
              /\ u = Lesser(midnight(s), row[s].beat + Grace)
              /\ A = spent[s].active /\ P = spent[s].paused /\ a = row[s].start
              /\ cp = computePausedSeconds(s)
    OBVIOUS
  <2>1. row'[s] = r /\ UNCHANGED <<now, spent>>
    BY <1>1, <1>3, <1>6 DEF Write, AInv, IInv, TypeOK
  <2>2. Tracked(s) /\ Stale(s) /\ Open(s)
    BY <1>1, <1>5, <1>6 DEF AInv, Ledger, Stale
  <2>3. /\ u \in Nat /\ a <= u /\ u <= now /\ Elapsed(s) = u - a
        /\ Cardinality(Before(P, u)) <= cp /\ cp <= Cardinality(P) /\ cp <= Elapsed(s)
    BY <1>1, <2>2, <2>d, ClosedFigures DEF AInv
  <2>4. r.paused = cp /\ r.active = Elapsed(s) - cp
    BY <1>4, <1>5, <1>6, <2>d DEF computeActiveSeconds
  <2>5. Tracked(s)'
    BY <1>4, <2>1 DEF Tracked, Open
  <2>6. Upto(s)' = u
    BY <1>4, <2>1, <2>d DEF Upto, midnight, dayOf, Lesser
  <2>7. a \in Nat /\ now \in Nat /\ cp \in Nat /\ Share(A, P, a, now)
    <3>1. cp \in Nat
      BY <1>1, <2>d, CloseTyped DEF AInv, IInv
    <3> QED BY <1>2, <2>2, <2>d, <3>1 DEF Tracked, Share, Row, Time, AInv, IInv, TypeOK
  <2>8. /\ Cardinality(P) \in Nat
        /\ Cardinality(Before(A, u)) \in Nat /\ Cardinality(Before(P, u)) \in Nat
        /\ Cardinality(Before(A, u)) + Cardinality(Before(P, u)) = u - a
    BY <2>3, <2>7, Shares
  <2>9. /\ r.active + r.paused = u - a
        /\ r.active <= Cardinality(Before(A, u))
        /\ Cardinality(Before(A, u)) <=
             r.active + (Cardinality(P) - Cardinality(Before(P, u)))
    BY <2>3, <2>4, <2>7, <2>8
  <2>10. Accounted(s)'
    <3>1. r.start = a /\ spent'[s].active = A /\ spent'[s].paused = P
      BY <1>4, <2>1, <2>d
    <3> QED BY <2>1, <2>6, <2>9, <3>1 DEF Accounted, Before
  <2> QED BY <2>5, <2>10
<1> QED BY <1>1, <1>3, <1>4, <1>6, WriteAccounts

\* A tick that passes is active or paused for a session that is.
LEMMA ClockAccounts ==
  ASSUME AInv, Clock
  PROVE  Ledger' /\ FiguresExact' /\ AccountsAgree'
<1>1. /\ now \in Nat /\ now' = now + 1 /\ UNCHANGED <<row, req, torn>>
      /\ met' = met \cup {q \in Req : req[q].op \in {"resume", "stop"}}
  BY DEF Clock, AInv, IInv, TypeOK, Time
<1>2. ASSUME NEW s \in Session
      PROVE  /\ spent'[s].active = spent[s].active \cup
                   (IF row[s].status = "active" THEN {now} ELSE {})
             /\ spent'[s].paused = spent[s].paused \cup
                   (IF row[s].status = "paused" THEN {now} ELSE {})
  BY DEF Clock
<1>3. ASSUME NEW s \in Session, row[s].status \notin {"active", "paused"}
      PROVE  /\ Tracked(s) => Tracked(s)'
             /\ Accounted(s) => Accounted(s)'
  <2>1. spent'[s].active = spent[s].active /\ spent'[s].paused = spent[s].paused
    BY <1>2, <1>3
  <2>2. Tracked(s) => Tracked(s)'
    BY <1>1, <1>3, <2>1 DEF Tracked, Open
  <2>3. Accounted(s) => Accounted(s)'
    <3>1. Upto(s)' = Upto(s)
      BY <1>1 DEF Upto, Lesser, midnight, dayOf
    <3> QED BY <1>1, <2>1, <3>1 DEF Accounted, Before
  <2> QED BY <2>2, <2>3
<1>4. ASSUME NEW s \in Session, Tracked(s), row[s].status \in {"active", "paused"}
      PROVE  Tracked(s)'
  <2> DEFINE A == spent[s].active
             P == spent[s].paused
             a == row[s].start
  <2>1. /\ row[s].end = NoTime /\ ~row[s].auto /\ a <= row[s].beat /\ a <= now
        /\ A \cap P = {} /\ A \cup P = a..(now - 1) /\ a \in Nat
    BY <1>4 DEF Tracked, Open, AInv, IInv, TypeOK, Row, Time
  <2>2. now \notin A \cup P /\ (A \cup P) \cup {now} = a..now /\ a..(now' - 1) = a..now
        /\ a <= now'
    BY <1>1, <2>1
  <2>3. CASE row[s].status = "active"
    <3>1. spent'[s].active = A \cup {now} /\ spent'[s].paused = P
      BY <1>2, <2>3
    <3>2. row[s].paused = Cardinality(P)
      BY <1>4, <2>3 DEF Tracked
    <3>3. /\ (A \cup {now}) \cap P = {} /\ (A \cup {now}) \cup P = a..(now' - 1)
      BY <2>1, <2>2
    <3> HIDE DEF A, P
    <3> QED BY <1>1, <2>1, <2>2, <2>3, <3>1, <3>2, <3>3 DEF Tracked, Open
  <2>4. CASE row[s].status = "paused"
    <3> DEFINE b == row[s].pausedAt
    <3>1. spent'[s].active = A /\ spent'[s].paused = P \cup {now}
      BY <1>2, <2>4
    <3>2. b \in a..now /\ b..(now - 1) \subseteq P /\ row[s].paused = Cardinality(Before(P, b))
      BY <1>4, <2>4 DEF Tracked
    <3>3. A \cap (P \cup {now}) = {} /\ A \cup (P \cup {now}) = a..(now' - 1)
      BY <2>1, <2>2
    <3>4. b \in Nat /\ b <= now /\ b \in a..now'
      BY <1>1, <2>1, <3>2
    <3>5. Before(P \cup {now}, b) = Before(P, b)
      BY <1>1, <3>4 DEF Before
    <3>6. b..(now' - 1) \subseteq P \cup {now}
      <4>1. \A k \in b..(now' - 1) : k \in b..(now - 1) \/ k = now
        BY <1>1, <3>4
      <4> QED BY <3>2, <4>1
    <3> HIDE DEF A, P
    <3> QED BY <1>1, <2>1, <2>2, <2>4, <3>1, <3>2, <3>3, <3>4, <3>5, <3>6
            DEF Tracked, Open, Before
  <2> QED BY <1>4, <2>3, <2>4
<1>5. Ledger'
  BY <1>1, <1>3, <1>4 DEF AInv, Ledger
<1>6. AccountsAgree'
  BY <1>1, <1>3 DEF AInv, AccountsAgree
<1>7. FiguresExact'
  <2> SUFFICES ASSUME NEW q \in Actor, q \notin met' PROVE Exact(q, req[q])'
    BY DEF FiguresExact
  <2>1. q \notin met /\ ~(q \in Req /\ req[q].op \in {"resume", "stop"})
    BY <1>1
  <2>2. Exact(q, req[q])
    BY <2>1 DEF AInv, FiguresExact
  <2>3. \A s : /\ Open(s)' <=> Open(s)
               /\ computePausedSeconds(s)' = computePausedSeconds(s)
               /\ computeActiveSeconds(s)' = computeActiveSeconds(s)
    BY <1>1 DEF Open, computePausedSeconds, computeActiveSeconds, Elapsed, effectiveNow,
           Reopened, midnight, dayOf, Lesser, Less
  <2>4. CASE req[q].op = "close"
    <3> DEFINE s == req[q].session
    <3>1. s \in Session
      BY <2>4 DEF AInv, IInv, OnBegun
    <3>2. Stale(s)
      BY <2>2, <2>4 DEF Exact
    <3>3. midnight(s) \in Nat /\ midnight(s)' = midnight(s)
      BY <1>1, <3>1, MidnightTyped DEF AInv, IInv, midnight, dayOf
    <3>4. Stale(s)'
      BY <1>1, <2>3, <3>2, <3>3 DEF Stale
    <3> QED BY <1>1, <2>2, <2>3, <2>4, <3>4 DEF Exact
  <2>5. CASE req[q].op # "close"
    BY <1>1, <2>1, <2>2, <2>3, <2>5 DEF Exact
  <2> QED BY <2>4, <2>5
<1> QED BY <1>5, <1>6, <1>7

-----------------------------------------------------------------------------
(* The invariant of the accounts *)

LEMMA InitAInv == Init => AInv
<1> SUFFICES ASSUME Init PROVE AInv
  OBVIOUS
<1>1. IInv
  BY InitInv
<1>2. \A s \in Session : row[s] = Absent /\ spent[s].active = {} /\ spent[s].paused = {}
  BY DEF Init
<1>3. Ledger /\ AccountsAgree
  BY <1>2 DEF Ledger, Tracked, Open, AccountsAgree, Absent
<1>4. FiguresExact
  BY IdleTyped DEF Init, FiguresExact, Exact
<1> QED BY <1>1, <1>3, <1>4 DEF AInv

LEMMA PeopleAccounts ==
  ASSUME AInv, NEW q \in Req,
         \/ \E op \in {"start", "restart"} : Start(q, op)
         \/ \E s \in Session : Pause(q, s) \/ Resume(q, s) \/ Stop(q, s) \/ Heartbeat(q, s)
  PROVE  Ledger' /\ FiguresExact' /\ AccountsAgree'
<1>0. q \in Actor
  BY DEF Actor
<1>1. ASSUME NEW op \in {"start", "restart"}, Start(q, op)
      PROVE  Ledger' /\ FiguresExact' /\ AccountsAgree'
  <2>1. PICK r : r = [Idle EXCEPT !.op = op]
    OBVIOUS
  <2>2. r \in Request /\ r.op \in {"start", "restart"} /\ Begin(q, r)
    BY <1>1, <2>1 DEF Start, Idle, Request
  <2>3. Exact(q, r)
    BY <2>2 DEF Exact
  <2> QED BY <1>0, <2>2, <2>3, BeginAccounts
<1>2. ASSUME NEW s \in Session, Pause(q, s)
      PROVE  Ledger' /\ FiguresExact' /\ AccountsAgree'
  <2>1. PICK r : r = [Idle EXCEPT !.op = "pause", !.session = s]
    OBVIOUS
  <2>2. r \in Request /\ r.op = "pause" /\ r.session = s /\ Begin(q, r)
    BY <1>2, <2>1 DEF Pause, On, Idle, Request
  <2>3. Exact(q, r)
    BY <1>2, <2>2 DEF Exact, Pause
  <2> QED BY <1>0, <2>2, <2>3, BeginAccounts
<1>3. ASSUME NEW s \in Session, Resume(q, s)
      PROVE  Ledger' /\ FiguresExact' /\ AccountsAgree'
  <2>1. PICK r : r = [Idle EXCEPT !.op = "resume", !.session = s, !.paused = PauseSoFar(s)]
    OBVIOUS
  <2>2. PauseSoFar(s) \in Nat
    BY PauseTyped DEF AInv
  <2>3. /\ r \in Request /\ r.op = "resume" /\ r.session = s /\ r.paused = PauseSoFar(s)
        /\ Begin(q, r)
    BY <1>3, <2>1, <2>2 DEF Resume, On, Idle, Request
  <2>4. Exact(q, r)
    BY <1>3, <2>3 DEF Exact, Resume
  <2> QED BY <1>0, <2>3, <2>4, BeginAccounts
<1>4. ASSUME NEW s \in Session, Stop(q, s)
      PROVE  Ledger' /\ FiguresExact' /\ AccountsAgree'
  <2>1. PICK r : r = [Idle EXCEPT !.op = "stop", !.session = s, !.paused = StoppedPaused(s),
                                  !.active = Less(now - row[s].start, StoppedPaused(s))]
    OBVIOUS
  <2>2. /\ StoppedPaused(s) \in Nat
        /\ Less(now - row[s].start, StoppedPaused(s)) \in Nat
    <3>1. row[s].paused \in Nat /\ row[s].start \in Nat /\ now \in Nat
      BY DEF AInv, IInv, TypeOK, Row, Time
    <3>2. PauseSoFar(s) \in Nat
      BY PauseTyped DEF AInv
    <3> QED BY <3>1, <3>2 DEF StoppedPaused, Less
  <2>3. /\ r \in Request /\ r.op = "stop" /\ r.session = s /\ r.paused = StoppedPaused(s)
        /\ r.active = Less(now - row[s].start, StoppedPaused(s))
        /\ Begin(q, r)
    BY <1>4, <2>1, <2>2 DEF Stop, On, Idle, Request
  <2>4. Exact(q, r)
    BY <1>4, <2>3 DEF Exact, Stop
  <2> QED BY <1>0, <2>3, <2>4, BeginAccounts
<1>5. ASSUME NEW s \in Session, Heartbeat(q, s)
      PROVE  Ledger' /\ FiguresExact' /\ AccountsAgree'
  <2>1. PICK r : r = [Idle EXCEPT !.op = "beat", !.session = s]
    OBVIOUS
  <2>2. r \in Request /\ r.op = "beat" /\ r.session = s /\ Begin(q, r)
    BY <1>5, <2>1 DEF Heartbeat, On, Idle, Request
  <2>3. Exact(q, r)
    BY <1>5, <2>2 DEF Exact, Heartbeat
  <2> QED BY <1>0, <2>2, <2>3, BeginAccounts
<1> QED BY <1>1, <1>2, <1>3, <1>4, <1>5

LEMMA WorkerReads ==
  ASSUME AInv, NEW s \in Session, findStaleOpenSessions(s)
  PROVE  Ledger' /\ FiguresExact' /\ AccountsAgree'
<1>1. PICK r : r = [Idle EXCEPT !.op = "close", !.session = s,
                                !.paused = computePausedSeconds(s),
                                !.active = computeActiveSeconds(s)]
  OBVIOUS
<1>2. computePausedSeconds(s) \in Nat /\ computeActiveSeconds(s) \in Nat
  BY CloseTyped DEF AInv, IInv
<1>3. /\ r \in Request /\ r.op = "close" /\ r.session = s
      /\ r.paused = computePausedSeconds(s) /\ r.active = computeActiveSeconds(s)
  BY <1>1, <1>2 DEF Idle, Request
<1>4. Begin(Closer, r) /\ Closer \in Actor /\ Stale(s)
  BY <1>1 DEF findStaleOpenSessions, Actor
<1>5. Exact(Closer, r)
  BY <1>3, <1>4 DEF Exact
<1> QED BY <1>3, <1>4, <1>5, BeginAccounts

LEMMA CheckAccounts ==
  ASSUME AInv, NEW q \in Req, CheckStopped(q)
  PROVE  Ledger' /\ FiguresExact' /\ AccountsAgree'
<1>1. UNCHANGED <<now, row, spent, met, torn>>
  BY DEF CheckStopped
<1>2. req'[q].op = "insert" /\ \A p \in Actor \ {q} : req'[p] = req[p]
  BY DEF CheckStopped, AInv, IInv, TypeOK, Actor, Request
<1>3. Ledger' /\ AccountsAgree'
  BY <1>1, Unmoved DEF AInv, Ledger, AccountsAgree
<1>4. FiguresExact'
  <2> SUFFICES ASSUME NEW p \in Actor, p \notin met' PROVE Exact(p, req[p])'
    BY DEF FiguresExact
  <2>1. CASE p = q
    BY <1>2, <2>1 DEF Exact
  <2>2. CASE p # q
    BY <1>1, <1>2, <2>2, FiguresStay DEF AInv, FiguresExact
  <2> QED BY <2>1, <2>2
<1> QED BY <1>3, <1>4

LEMMA EndsAccounts ==
  ASSUME AInv, PassFails \/ \E q \in Req : Refuse(q) \/ Drop(q)
  PROVE  Ledger' /\ FiguresExact' /\ AccountsAgree'
<1>1. PICK q \in Actor : Ends(q) /\ UNCHANGED <<now, row, spent, torn>>
  BY DEF PassFails, Refuse, Drop, Actor
<1> QED BY <1>1, EndAccounts

LEMMA UpdateAccounts ==
  ASSUME AInv, NEW q \in Req, Update(q)
  PROVE  Ledger' /\ FiguresExact' /\ AccountsAgree'
<1>1. req[q].op \in {"pause", "resume", "beat", "stop"}
  BY DEF Update
<1> QED BY <1>1, PauseAccounts, ResumeAccounts, BeatAccounts, StopAccounts

LEMMA StillAccounts ==
  ASSUME AInv, UNCHANGED vars
  PROVE  Ledger' /\ FiguresExact' /\ AccountsAgree'
<1>1. UNCHANGED <<now, row, req, spent, met, torn>>
  BY DEF vars
<1>2. Ledger' /\ AccountsAgree'
  BY <1>1, Unmoved DEF AInv, Ledger, AccountsAgree
<1>3. FiguresExact'
  BY <1>1, FiguresStay DEF AInv, FiguresExact
<1> QED BY <1>2, <1>3

LEMMA NextAInv == ASSUME AInv, [Next]_vars PROVE AInv'
<1>1. IInv'
  BY NextInv DEF AInv
<1>2. Ledger' /\ FiguresExact' /\ AccountsAgree'
  <2>1. CASE UNCHANGED vars
    BY <2>1, StillAccounts
  <2>2. CASE Clock
    BY <2>2, ClockAccounts
  <2>3. CASE closeSession
    BY <2>3, CloseAccounts
  <2>4. CASE \E s \in Session : findStaleOpenSessions(s)
    BY <2>4, WorkerReads
  <2>5. CASE PassFails \/ \E q \in Req : Refuse(q) \/ Drop(q)
    BY <2>5, EndsAccounts
  <2>6. ASSUME NEW q \in Req, CheckStopped(q) \/ Insert(q) \/ Update(q)
        PROVE  Ledger' /\ FiguresExact' /\ AccountsAgree'
    BY <2>6, CheckAccounts, InsertAccounts, UpdateAccounts
  <2>7. ASSUME NEW q \in Req,
               \/ \E op \in {"start", "restart"} : Start(q, op)
               \/ \E s \in Session : Pause(q, s) \/ Resume(q, s) \/ Stop(q, s) \/ Heartbeat(q, s)
        PROVE  Ledger' /\ FiguresExact' /\ AccountsAgree'
    BY <2>7, PeopleAccounts
  <2> QED BY <2>1, <2>2, <2>3, <2>4, <2>5, <2>6, <2>7 DEF Next
<1> QED BY <1>1, <1>2 DEF AInv

-----------------------------------------------------------------------------
\* Every write of a route or the worker keeps the sessions well typed: no time is
\* negative, and no request works on a session that does not exist.
THEOREM TypeCorrect == Spec => []TypeOK
<1>1. IInv => TypeOK
  BY DEF IInv
<1> QED BY <1>1, Invariant, PTL

\* However the clock, the worker and other requests go on between the look-up and
\* the insert: of two sessions of one day begun by requests that met nobody,
\* one carries the marker of a restart (POST /start, POST /restart-day).
THEOREM RestartsAreMarked == Spec => []RestartsMarked
<1>1. IInv => RestartsMarked
  BY DEF IInv
<1> QED BY <1>1, Invariant, PTL

\* Whatever is started, paused, resumed, stopped, beaten and forgotten: a session
\* that no two requests met on is credited with the ticks it was active, up to its
\* stop or, when the worker closed it, up to the last sign of life (POST /stop,
\* computeActiveSeconds).
THEOREM AccountsAlwaysAgree == Spec => []AccountsAgree
<1>1. Init => AInv
  BY InitAInv
<1>2. AInv /\ [Next]_vars => AInv'
  BY NextAInv
<1>3. AInv => AccountsAgree
  BY DEF AInv
<1> QED BY <1>1, <1>2, <1>3, PTL DEF Spec
=============================================================================
