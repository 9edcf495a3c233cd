--------------------------- MODULE LeadAssignment ---------------------------
(***************************************************************************)
(* Who owns a lead, twice over: leads.assigned_to, and the ledger          *)
(* lead_assignments with at most one active row per lead.                  *)
(*                                                                         *)
(* Every writer of the owner is a program of SQL statements over one lead; *)
(* requests interleave between statements.  Some run in a transaction,     *)
(* others commit each statement.  PostgreSQL's part is READ COMMITTED: an  *)
(* UPDATE finds its rows in a snapshot taken when it starts, waits for the *)
(* row locks of other transactions and tests its rows again; the unique    *)
(* index one_active_assignment_per_lead looks at uncommitted rows too.     *)
(* Who may be chosen as an owner is left out: any user.                    *)
(***************************************************************************)
EXTENDS Naturals, Sequences, FiniteSets

CONSTANTS
    User, NoUser,
    Req,      \* requests that can be under way together
    Kinds,    \* the writers in play
    Failing,  \* writers that may die between two statements
    MaxRows   \* bound on the rows, the requests and the strays together

\* The statements of each writer, in the order of the code.  "read" is the
\* SELECT of the current owner, "scan" the start of the UPDATE that closes the
\* active row, "set" the UPDATE of leads.
Program ==
    [ reassign |-> <<"read", "scan", "close", "insert", "set", "commit">>,
      refer    |-> <<"read", "scan", "close", "insert", "set", "commit">>,
      bulk     |-> <<"read", "set", "scan", "close", "insert", "commit">>,
      put      |-> <<"set", "commit">>,
      auto     |-> <<"read", "set", "scan", "close", "insert">>,
      sla      |-> <<"set", "scan", "close", "insert">>,
      create   |-> <<"set", "insert">>,
      workflow |-> <<"set", "insert">> ]

\* Mutant: the bulk path runs its statements outside a transaction.
InTransactionButBulk == {"reassign", "refer", "put"}

InTransaction == {"reassign", "refer", "bulk", "put"}

\* The writers that commit each statement, and those that do not close the
\* active row before they insert theirs.
OneByOne == {"auto", "sla", "create", "workflow"}
NeverClose == {"create", "workflow"}

ASSUME AssignmentConstants ==
    /\ NoUser \notin User
    /\ Kinds \subseteq DOMAIN Program
    /\ Failing \subseteq Kinds
    /\ MaxRows \in Nat \ {0}

VARIABLES
    owner,   \* leads.assigned_to, as committed
    ledger,  \* the lead's rows of lead_assignments, as committed
    fresh,   \* createLead has inserted the lead and not yet routed it
    req,
    torn,    \* history: the owner and the ledger may tell two stories
    stray    \* history: who was made owner beside the ledger

vars == <<owner, ledger, fresh, req, torn, stray>>

-----------------------------------------------------------------------------
Owners == User \cup {NoUser}
Row == [from : Owners, to : User, active : BOOLEAN]

\* "closed", "inserted" and "set" are the uncommitted writes of a transaction:
\* the rows it closed, whether it appended its row, whether it set the owner.
Request == [kind : DOMAIN Program \cup {"none"}, at : 0..6, target : Owners,
            from : Owners, seen : Nat, closed : SUBSET Nat,
            inserted : BOOLEAN, set : BOOLEAN]
Idle == [kind |-> "none", at |-> 0, target |-> NoUser, from |-> NoUser,
         seen |-> 0, closed |-> {}, inserted |-> FALSE, set |-> FALSE]
Started(k, u, f) == [kind |-> k, at |-> 1, target |-> u, from |-> f,
                     seen |-> 0, closed |-> {}, inserted |-> FALSE, set |-> FALSE]

\* insertLead: with the owner picked in the form, and its row, or without.
Init ==
    /\ \/ owner = NoUser /\ ledger = <<>>
       \/ \E u \in User :
             /\ owner = u
             /\ ledger = <<[from |-> NoUser, to |-> u, active |-> TRUE]>>
    /\ fresh = TRUE
    /\ req = [q \in Req |-> Idle]
    /\ torn = FALSE /\ stray = {}

-----------------------------------------------------------------------------
Busy(q) == req[q].at # 0
Tx(q) == Busy(q) /\ req[q].kind \in InTransaction
Statement(q) == IF Busy(q) THEN Program[req[q].kind][req[q].at] ELSE "none"

\* Request r when its statement is done.
After(r) == IF r.at = Len(Program[r.kind]) THEN Idle ELSE [r EXCEPT !.at = @ + 1]

ActiveRows == {i \in DOMAIN ledger : ledger[i].active}
Closed(rows) == [i \in DOMAIN ledger |->
                    [ledger[i] EXCEPT !.active = @ /\ i \notin rows]]

\* Mutant: the ledger row names the people the wrong way round.
NewRowSwapped(r) == [from |-> r.target, to |-> r.from, active |-> TRUE]

NewRow(r) == [from |-> r.from, to |-> r.target, active |-> TRUE]

\* The rows the closing UPDATE of q finds: active, and in its snapshot.
ToClose(q) == {i \in ActiveRows : i <= req[q].seen}

\* Transaction p holds the lock the statement of q needs: of the row to close,
\* of the key in the unique index, of the lead's row.
WaitsFor(q, p) ==
    /\ p # q /\ Tx(p)
    /\ \/ Statement(q) = "close" /\ req[p].closed \cap ToClose(q) # {}
       \/ Statement(q) = "insert" /\ (req[p].inserted \/ req[p].closed # {})
       \/ Statement(q) = "set" /\ req[p].set

Runs(q, statement) ==
    /\ Statement(q) = statement
    /\ \A p \in Req : ~WaitsFor(q, p)

\* Each of these became the owner, or may become it, with no row of his in time.
Tears(owners) == stray' = stray \cup owners /\ torn' = (torn \/ owners # {})

\* A writer that commits each statement, and one that has set the owner.
Single(q) == Busy(q) /\ req[q].kind \in OneByOne
HasSet(q) == Single(q) /\ Statement(q) \notin {"read", "set"}

\* Whom the writers that commit each statement set, when kind k begins to set u
\* beside them or as one of them beside others.
Overlapping(k, u) ==
    {req[p].target : p \in {r \in Req : Single(r)}}
    \cup {v \in {u} : k \in OneByOne /\ \E p \in Req : Busy(p)}

\* Whom the ledger or the history knows.
Known == {ledger[i].to : i \in DOMAIN ledger} \cup stray

-----------------------------------------------------------------------------
(* Requests *)

\* A sla request carries the owner its alert was raised for; only PUT may clear
\* the owner.
Begin(q, k, u) ==
    /\ ~Busy(q) /\ k \in Kinds
    /\ u = NoUser => k = "put"
    /\ Len(ledger) + Cardinality(stray) + Cardinality({p \in Req : Busy(p)}) < MaxRows
    /\ k = "create" => fresh
    /\ fresh' = (fresh /\ k # "create")
    /\ \E f \in IF k = "sla" THEN Known \ {NoUser} ELSE {NoUser} :
          req' = [req EXCEPT ![q] = Started(k, u, f)]
    /\ Tears(Overlapping(k, u))
    /\ UNCHANGED <<owner, ledger>>

\* Nothing to do: the bulk paths skip an unchanged owner, automatic routing
\* keeps the owner a lead has.
Skips(r) ==
    \/ r.kind \in {"bulk", "refer"} /\ owner = r.target
    \/ r.kind = "auto" /\ owner # NoUser

ReadOwner(q) ==
    /\ Runs(q, "read")
    /\ req' = [req EXCEPT ![q] = IF Skips(req[q]) THEN Idle
                                 ELSE After([req[q] EXCEPT !.from = owner])]
    /\ UNCHANGED <<owner, ledger, fresh, torn, stray>>

ScanActive(q) ==
    /\ Runs(q, "scan")
    /\ req' = [req EXCEPT ![q] = After([req[q] EXCEPT !.seen = Len(ledger)])]
    /\ UNCHANGED <<owner, ledger, fresh, torn, stray>>

CloseActive(q) ==
    /\ Runs(q, "close")
    /\ IF Tx(q)
       THEN /\ req' = [req EXCEPT ![q] = After([req[q] EXCEPT !.closed = ToClose(q)])]
            /\ ledger' = ledger
       ELSE /\ req' = [req EXCEPT ![q] = After(req[q])]
            /\ ledger' = Closed(ToClose(q))
    /\ UNCHANGED <<owner, fresh, torn, stray>>

Conflicts(q) == ActiveRows \ req[q].closed # {}

InsertRow(q) ==
    /\ Runs(q, "insert") /\ ~Conflicts(q)
    /\ IF Tx(q)
       THEN /\ req' = [req EXCEPT ![q] = After([req[q] EXCEPT !.inserted = TRUE])]
            /\ ledger' = ledger
       ELSE /\ req' = [req EXCEPT ![q] = After(req[q])]
            /\ ledger' = Append(ledger, NewRow(req[q]))
    /\ UNCHANGED <<owner, fresh, torn, stray>>

\* Mutant: the request tries the same INSERT again.
InsertRetried(q) ==
    /\ Runs(q, "insert") /\ Conflicts(q)
    /\ UNCHANGED vars

\* 23505: a transaction rolls back, any other request leaves what it has done.
InsertFails(q) ==
    /\ Runs(q, "insert") /\ Conflicts(q)
    /\ req' = [req EXCEPT ![q] = Idle]
    /\ Tears({u \in {req[q].target} : req[q].kind \in NeverClose})
    /\ UNCHANGED <<owner, ledger, fresh>>

SetOwner(q) ==
    /\ Runs(q, "set")
    /\ req' = [req EXCEPT ![q] = After([req[q] EXCEPT !.set = Tx(q)])]
    /\ owner' = IF Tx(q) THEN owner ELSE req[q].target
    /\ UNCHANGED <<ledger, fresh, torn, stray>>

Commit(q) ==
    /\ Runs(q, "commit")
    /\ owner' = IF req[q].set THEN req[q].target ELSE owner
    /\ ledger' = IF req[q].inserted
                 THEN Append(Closed(req[q].closed), NewRow(req[q]))
                 ELSE ledger
    /\ req' = [req EXCEPT ![q] = Idle]
    /\ IF req[q].inserted
       THEN /\ torn' = (torn /\ \E p \in Req : Single(p))
            /\ stray' = stray
       ELSE Tears({owner'} \ {owner})
    /\ UNCHANGED fresh

\* Two transactions wait for each other and the server aborts one of them.
Victim(q) == \E p \in Req : WaitsFor(q, p) /\ WaitsFor(p, q)

Deadlocked(q) ==
    /\ Victim(q)
    /\ req' = [req EXCEPT ![q] = Idle]
    /\ UNCHANGED <<owner, ledger, fresh, torn, stray>>

Fail(q) ==
    /\ Busy(q) /\ req[q].kind \in Failing
    /\ req' = [req EXCEPT ![q] = Idle]
    /\ Tears({u \in {req[q].target} : HasSet(q)})
    /\ UNCHANGED <<owner, ledger, fresh>>

-----------------------------------------------------------------------------
Step(q) ==
    \/ ReadOwner(q) \/ ScanActive(q) \/ CloseActive(q)
    \/ InsertRow(q) \/ InsertFails(q) \/ SetOwner(q) \/ Commit(q)
    \/ Deadlocked(q)

Next == \E q \in Req :
           \/ Step(q) \/ Fail(q)
           \/ \E k \in Kinds, u \in Owners : Begin(q, k, u)

Spec == Init /\ [][Next]_vars

\* Row locks are granted in the order of their queue, so a statement that can
\* run again and again does run.
FairSpec == Spec /\ \A q \in Req : SF_vars(Step(q))

-----------------------------------------------------------------------------
(* Properties *)

\* Committed rows and requests keep their domains.
TypeOK ==
    /\ owner \in Owners
    /\ ledger \in Seq(Row)
    /\ fresh \in BOOLEAN
    /\ req \in [Req -> Request]
    /\ torn \in BOOLEAN /\ stray \subseteq Owners

Matches == {ledger[i].to : i \in ActiveRows} = {owner} \ {NoUser}

\* Whenever only transactions are under way, the lead's owner is the one the
\* active row of the ledger names, and an unowned lead has no active row: what
\* rule-processor.js:65-69 calls one assignment through every surface.  What
\* tears the two apart is a PUT, a writer that commits each statement and runs
\* beside another or dies half way, and one that cannot insert its row for not
\* having closed the active one; the next transaction that gives the lead away
\* mends them.
OwnerMatchesLedger == ~torn /\ (\A q \in Req : Busy(q) => Tx(q)) => Matches

\* The history names only people who had the lead before, although a request
\* may write the owner it read long ago: by an earlier row, or beside the ledger.
FromOwnedIt ==
    \A i \in DOMAIN ledger :
        ledger[i].from # NoUser =>
            ledger[i].from \in stray \/ \E j \in 1..(i - 1) : ledger[j].to = ledger[i].from

\* Every request ends, whatever the order in which the writers take the locks
\* of the lead and of its ledger.
Finishes == \A q \in Req : Busy(q) ~> ~Busy(q)

-----------------------------------------------------------------------------
(* The inductive invariant *)

\* Where each writer sets the owner and appends its row; a PUT never does.
SetAt == [reassign |-> 5, refer |-> 5, bulk |-> 2, put |-> 1,
          auto |-> 2, sla |-> 1, create |-> 1, workflow |-> 1]
InsertAt == [reassign |-> 4, refer |-> 4, bulk |-> 5, put |-> 7,
             auto |-> 5, sla |-> 4, create |-> 2, workflow |-> 2]

\* What a request has written is told by the place it has reached.
Shaped(r) ==
    IF r.at = 0 THEN r = Idle
    ELSE /\ r.kind \in Kinds /\ r.at <= Len(Program[r.kind])
         /\ r.kind # "put" => r.target \in User
         /\ r.set <=> r.kind \in InTransaction /\ r.at > SetAt[r.kind]
         /\ r.inserted <=> r.kind \in InTransaction /\ r.at > InsertAt[r.kind]
         /\ r.closed # {} => r.kind \in InTransaction /\ r.at >= InsertAt[r.kind]

\* One transaction at a time has the key of the index, and what it closed and
\* what is active then is the same.
HoldsKey(q) == req[q].inserted \/ req[q].closed # {}
KeyInv ==
    /\ ActiveRows \subseteq {Len(ledger)}
    /\ \A p, q \in Req : HoldsKey(p) /\ HoldsKey(q) => p = q
    /\ \A q \in Req : /\ req[q].closed \subseteq ActiveRows
                      /\ req[q].inserted => ActiveRows = req[q].closed

\* A writer that commits each statement is alone, or what it sets is told of as torn and as stray.
Undisturbed(q) == Single(q) /\ (~torn \/ req[q].target \notin stray)
AloneInv(q) ==
    /\ \A p \in Req : Busy(p) => p = q
    /\ HasSet(q) => owner = req[q].target
    /\ Statement(q) = "close" => req[q].seen = Len(ledger)
    /\ Statement(q) = "insert" /\ req[q].kind \notin NeverClose => ActiveRows = {}

\* The owner is known, or set by a writer whose row is still to come.
OwnerKnown ==
    owner \in Known \cup {NoUser} \/ \E q \in Req : HasSet(q) /\ owner = req[q].target

IInv ==
    /\ TypeOK
    /\ \A q \in Req : Shaped(req[q])
    /\ KeyInv
    /\ FromOwnedIt
    /\ \A q \in Req : req[q].from \in Known \cup {NoUser}
    /\ OwnerKnown
    /\ \A q \in Req : Undisturbed(q) => AloneInv(q)
    /\ ~torn /\ (\A q \in Req : ~HasSet(q)) => Matches
=============================================================================
