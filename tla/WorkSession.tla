----------------------------- MODULE WorkSession -----------------------------
(***************************************************************************)
(* The work sessions of one member of staff: clocking in and out, pausing, *)
(* the heartbeat, and the worker that closes at midnight what was          *)
(* forgotten.                                                              *)
(*                                                                         *)
(* Every route reads the open session, decides, and writes it by its id    *)
(* alone; the worker does the same.  Requests, from two tabs say, and the  *)
(* worker interleave between the two.  Times are ticks, and what a tick    *)
(* holds of seconds is left out.  The database's day is the tenant's       *)
(* (db/tenant.js pins the time zone of its connections).                   *)
(***************************************************************************)
EXTENDS Integers, FiniteSets

CONSTANTS
    Rows,      \* bound on the person's rows of work_sessions
    NoTime,
    Req, Closer,
    Day,       \* ticks in a day
    Grace,     \* STALE_GRACE_MS
    Horizon,   \* bound on the clock
    MaxFaults, \* bound on passes of the worker that fail
    FollowTorn \* bound: whether requests still begin on a torn session

ASSUME WorkSessionConstants ==
    /\ Rows \in Nat /\ NoTime \notin Nat /\ Closer \notin Req
    /\ Day \in Nat \ {0} /\ Grace \in Nat
    /\ Horizon \in Nat /\ MaxFaults \in Nat /\ FollowTorn \in BOOLEAN

VARIABLES
    now,
    row,     \* work_sessions
    req,     \* requests under way, and the worker's pass
    spent,   \* history: the ticks each session spent active and paused
    met,     \* history: who of those under way was not alone all the time
    torn,    \* history: sessions written by one that was not
    faults

vars == <<now, row, req, spent, met, torn, faults>>

-----------------------------------------------------------------------------
Time == 0..Horizon
Actor == Req \cup {Closer}
Session == 1..Rows
NoSession == 0

\* "none": not inserted yet.  start, end, pausedAt and beat are started_at,
\* ended_at, last_paused_at and last_heartbeat_at.
Row == [status : {"none", "active", "paused", "stopped"}, start : Time,
        end : Nat \cup {NoTime}, paused : Nat, active : Nat,
        pausedAt : Time \cup {NoTime}, beat : Time, restart : BOOLEAN, auto : BOOLEAN]
Absent == [status |-> "none", start |-> 0, end |-> NoTime, paused |-> 0, active |-> 0,
           pausedAt |-> NoTime, beat |-> 0, restart |-> FALSE, auto |-> FALSE]

Request == [op : {"idle", "start", "restart", "insert", "pause", "resume", "beat",
                  "stop", "close"},
            session : Session \cup {NoSession}, paused : Nat, active : Nat,
            restart : BOOLEAN]
Idle == [op |-> "idle", session |-> NoSession, paused |-> 0, active |-> 0,
         restart |-> FALSE]

Init ==
    /\ now = 0
    /\ row = [s \in Session |-> Absent]
    /\ req = [q \in Actor |-> Idle]
    /\ spent = [s \in Session |-> [active |-> {}, paused |-> {}]]
    /\ met = {} /\ torn = {} /\ faults = 0

Busy(q) == req[q].op # "idle"
Begin(q, r) ==
    /\ ~Busy(q)
    /\ req' = [req EXCEPT ![q] = r]
    /\ met' = IF \E p \in Actor : Busy(p) THEN {p \in Actor : p = q \/ Busy(p)} ELSE met
    /\ UNCHANGED <<now, row, spent, torn, faults>>

\* A request on an open session.
On(q, s, r) == (FollowTorn \/ s \notin torn) /\ Begin(q, [r EXCEPT !.session = s])

Ends(q) == req' = [req EXCEPT ![q] = Idle] /\ met' = met \ {q}

Open(s) == row[s].status \in {"active", "paused"}
dayOf(t) == t \div Day
midnight(s) == (dayOf(row[s].start) + 1) * Day

\* An UPDATE by id.  The unique index on open sessions may refuse it.
Fits(s, r) == r.status = "stopped" \/ \A k \in Session \ {s} : ~Open(k)
Write(q, s, r) ==
    /\ row' = IF Fits(s, r) THEN [row EXCEPT ![s] = r] ELSE row
    /\ torn' = IF Fits(s, r) /\ q \in met THEN torn \cup {s} ELSE torn
    /\ Ends(q)
    /\ UNCHANGED <<now, spent, faults>>

-----------------------------------------------------------------------------
(* Clocking in *)

\* findOpenSession has found none.
Start(q, op) ==
    /\ \A s \in Session : ~Open(s)
    /\ Begin(q, [Idle EXCEPT !.op = op])

\* Mutant: a session that began at midnight sharp is not of the day.
StoppedAfterMidnight ==
    \E s \in Session : row[s].status = "stopped" /\ row[s].start > dayOf(now) * Day

stoppedTodayAlready ==
    \E s \in Session : row[s].status = "stopped" /\ dayOf(row[s].start) = dayOf(now)

\* POST /start is refused on a day that was ended; POST /restart-day marks the
\* new session instead.
CheckStopped(q) ==
    /\ \/ req[q].op = "start" /\ ~stoppedTodayAlready
       \/ req[q].op = "restart"
    /\ req' = [req EXCEPT ![q].op = "insert", ![q].restart = stoppedTodayAlready]
    /\ UNCHANGED <<now, row, spent, met, torn, faults>>

Refuse(q) ==
    /\ req[q].op = "start" /\ stoppedTodayAlready
    /\ Ends(q)
    /\ UNCHANGED <<now, row, spent, torn, faults>>

Insert(q) ==
    /\ req[q].op = "insert"
    /\ \E s \in Session :
           /\ row[s].status = "none" /\ \A k \in 1..(s - 1) : row[k].status # "none"
           /\ Write(q, s, [Absent EXCEPT !.status = "active", !.start = now, !.beat = now,
                                         !.restart = req[q].restart])

-----------------------------------------------------------------------------
(* The open session *)

Pause(q, s) ==
    /\ row[s].status = "active"
    /\ On(q, s, [Idle EXCEPT !.op = "pause"])

\* How long a paused session has been paused when the request reads it.
PauseSoFar(s) ==
    IF row[s].status = "paused" /\ row[s].pausedAt # NoTime THEN now - row[s].pausedAt ELSE 0

Resume(q, s) ==
    /\ row[s].status = "paused"
    /\ On(q, s, [Idle EXCEPT !.op = "resume", !.paused = PauseSoFar(s)])

\* Math.max(0, a - b) and Math.min.
Less(a, b) == IF a >= b THEN a - b ELSE 0
Lesser(a, b) == IF a <= b THEN a ELSE b

\* Mutant: the pause under way is forgotten.
StoppedPausedOnly(s) == row[s].paused

StoppedPaused(s) == row[s].paused + PauseSoFar(s)

Stop(q, s) ==
    /\ Open(s)
    /\ On(q, s, [Idle EXCEPT !.op = "stop", !.paused = StoppedPaused(s),
                             !.active = Less(now - row[s].start, StoppedPaused(s))])

Heartbeat(q, s) ==
    /\ Open(s)
    /\ On(q, s, [Idle EXCEPT !.op = "beat"])

\* The UPDATE of each route.
Written(q) ==
    LET r == row[req[q].session]
    IN  CASE req[q].op = "pause" -> [r EXCEPT !.status = "paused", !.pausedAt = now, !.beat = now]
          [] req[q].op = "resume" -> [r EXCEPT !.status = "active", !.pausedAt = NoTime, !.beat = now,
                                               !.paused = @ + req[q].paused]
          [] req[q].op = "beat" -> [r EXCEPT !.beat = now]
          [] OTHER -> [r EXCEPT !.status = "stopped", !.end = now, !.pausedAt = NoTime,
                                !.paused = req[q].paused, !.active = req[q].active]

Update(q) ==
    /\ req[q].op \in {"pause", "resume", "beat", "stop"}
    /\ Write(q, req[q].session, Written(q))

-----------------------------------------------------------------------------
(* The worker, every five minutes.  The user has one open session at most, so
   that a pass has one of his at most. *)

\* A row that was reopened keeps its ended_at, and is accounted up to then.
Reopened(s) == row[s].end # NoTime

effectiveNow(s) ==
    IF Reopened(s) THEN row[s].end
    ELSE Lesser(midnight(s), row[s].beat + Grace)

Elapsed(s) == Less(effectiveNow(s), row[s].start)

computePausedSeconds(s) ==
    Lesser(Elapsed(s),
           row[s].paused + (IF row[s].status = "paused" /\ row[s].pausedAt # NoTime
                              THEN Less(effectiveNow(s), row[s].pausedAt) ELSE 0))

computeActiveSeconds(s) == Elapsed(s) - computePausedSeconds(s)

\* Mutant: sessions that are paused are left open.
StaleActive(s) == row[s].status = "active" /\ midnight(s) <= now

Stale(s) == Open(s) /\ midnight(s) <= now

findStaleOpenSessions(s) ==
    /\ Stale(s)
    /\ Begin(Closer, [Idle EXCEPT !.op = "close", !.session = s,
                                  !.paused = computePausedSeconds(s),
                                  !.active = computeActiveSeconds(s)])

closeSession ==
    LET s == req[Closer].session
    IN  /\ req[Closer].op = "close"
        /\ Write(Closer, s, [row[s] EXCEPT !.status = "stopped", !.end = midnight(s),
                                           !.pausedAt = NoTime, !.auto = TRUE,
                                           !.paused = req[Closer].paused,
                                           !.active = req[Closer].active])

PassFails ==
    /\ faults < MaxFaults /\ Busy(Closer)
    /\ faults' = faults + 1
    /\ Ends(Closer)
    /\ UNCHANGED <<now, row, spent, torn>>

-----------------------------------------------------------------------------
\* A request dies, or its client does not wait for the answer.
Drop(q) == Busy(q) /\ Ends(q) /\ UNCHANGED <<now, row, spent, torn, faults>>

\* A time computed before the tick is written after it: that is not exact either.
Clock ==
    /\ now < Horizon /\ now' = now + 1
    /\ spent' = [s \in Session |->
           [active |-> spent[s].active \cup IF row[s].status = "active" THEN {now} ELSE {},
            paused |-> spent[s].paused \cup IF row[s].status = "paused" THEN {now} ELSE {}]]
    /\ met' = met \cup {q \in Req : req[q].op \in {"resume", "stop"}}
    /\ UNCHANGED <<row, req, torn, faults>>

Next ==
    \/ Clock \/ closeSession \/ PassFails
    \/ \E s \in Session : findStaleOpenSessions(s)
    \/ \E q \in Req :
           \/ \E op \in {"start", "restart"} : Start(q, op)
           \/ CheckStopped(q) \/ Refuse(q) \/ Insert(q) \/ Update(q) \/ Drop(q)
           \/ \E s \in Session : Pause(q, s) \/ Resume(q, s) \/ Stop(q, s) \/ Heartbeat(q, s)

Spec == Init /\ [][Next]_vars

\* The worker's timer keeps firing, and its pass goes on.
FairSpec ==
    Spec /\ WF_vars(\E s \in Session : findStaleOpenSessions(s)) /\ WF_vars(closeSession)

-----------------------------------------------------------------------------
(* Properties *)

\* The type invariant of work_sessions and of the requests.
TypeOK ==
    /\ now \in Time
    /\ row \in [Session -> Row]
    /\ req \in [Actor -> Request]
    /\ spent \in [Session -> [active : SUBSET Time, paused : SUBSET Time]]
    /\ met \subseteq Actor /\ torn \subseteq Session /\ faults \in 0..MaxFaults

\* The instant up to which a stopped session is accounted.
Upto(s) == IF row[s].auto THEN Lesser(midnight(s), row[s].beat + Grace) ELSE row[s].end

Before(ticks, t) == {k \in ticks : k < t}

\* The account of a session adds up to its length and credits the ticks it was
\* active: never more, and less only by pauses that began later than the instant
\* up to which it is accounted.
Accounted(s) ==
    LET Until(ticks) == Cardinality(Before(ticks, Upto(s)))
        late == Cardinality(spent[s].paused) - Until(spent[s].paused)
    IN  /\ row[s].active + row[s].paused = Upto(s) - row[s].start
        /\ row[s].active <= Until(spent[s].active)
        /\ Until(spent[s].active) <= row[s].active + late

\* So it is for every session that no two requests met on, up to its stop or, when
\* it was forgotten, up to midnight or the last sign of life ("stop accruing
\* active time").
AccountsAgree ==
    \A s \in Session \ torn : row[s].status = "stopped" => Accounted(s)

\* What makes it inductive.  The columns of an open session follow its ticks: all
\* of them since its start are active or paused, and total_paused_seconds
\* holds the pauses that are over.
Tracked(s) ==
    /\ row[s].status = "none" => spent[s].active = {} /\ spent[s].paused = {}
    /\ Open(s) =>
           /\ row[s].end = NoTime /\ ~row[s].auto
           /\ row[s].start <= row[s].beat /\ row[s].start <= now
           /\ spent[s].active \cap spent[s].paused = {}
           /\ spent[s].active \cup spent[s].paused = row[s].start..(now - 1)
    /\ row[s].status = "active" => row[s].paused = Cardinality(spent[s].paused)
    /\ row[s].status = "paused" =>
           /\ row[s].pausedAt \in row[s].start..now
           /\ row[s].pausedAt..(now - 1) \subseteq spent[s].paused
           /\ row[s].paused = Cardinality(Before(spent[s].paused, row[s].pausedAt))
Ledger == \A s \in Session \ torn : Tracked(s)

\* What a request that met nobody has read is still what the row says.
Exact(q, r) ==
    LET s == r.session
    IN  /\ r.op = "pause" => row[s].status = "active"
        /\ r.op = "beat" => Open(s)
        /\ q \in Req /\ r.op = "resume" =>
               row[s].status = "paused" /\ r.paused = PauseSoFar(s)
        /\ q \in Req /\ r.op = "stop" =>
               /\ Open(s) /\ r.paused = StoppedPaused(s)
               /\ r.active = Less(now - row[s].start, StoppedPaused(s))
        /\ r.op = "close" =>
               /\ Stale(s) /\ r.paused = computePausedSeconds(s)
               /\ r.active = computeActiveSeconds(s)
FiguresExact == \A q \in Actor \ met : Exact(q, req[q])

\* Of two sessions of one day, neither begun beside another request, one carries
\* the marker "so admins can see this was a manual restart".
RestartsMarked ==
    \A s, k \in Session \ torn :
        /\ s # k /\ row[s].status # "none" /\ row[k].status # "none"
        /\ dayOf(row[s].start) = dayOf(row[k].start)
        => row[s].restart \/ row[k].restart

\* "The real, server-side backstop": whatever overlaps, a session still open past
\* its day is closed, by its owner or by the worker.
EndsWithDay ==
    \A s \in Session : (Open(s) /\ midnight(s) <= now) ~> ~Open(s)
=============================================================================
