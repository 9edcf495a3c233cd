--------------------------- MODULE LeadConversion ---------------------------
(***************************************************************************)
(* One lead on its way through the pipeline: stage changes, the            *)
(* converted_at stamp that marks it as converted, and the discount that    *)
(* may hold its conversion until a manager has decided.                    *)
(*                                                                         *)
(* Source: src/src/modules/leads/{routes,service,repo}.js,                 *)
(* src/src/modules/lead-discounts/{service,repo}.js, and the other writers *)
(* of stage_id and converted_at.  Leads do not interact, so the module is  *)
(* about one.  A request is a sequence of statements; between two of them  *)
(* another request may run, and a SELECT takes no lock.                    *)
(***************************************************************************)
CONSTANTS
    Stage,       \* pipeline stages
    Success,     \* those flagged is_success
    Entry,       \* the first stage
    Follow,      \* the tenant's Followup stage
    NoStage,     \* no held conversion
    Req,         \* concurrent HTTP requests
    Writers,     \* which other writers run: "put", "bulk", "webhook", "followup"
    Crashes      \* whether the server process may crash

ASSUME ConversionConstants ==
    /\ Success \subseteq Stage /\ Entry \in Stage /\ Follow \in Stage
    /\ NoStage \notin Stage
    /\ Writers \subseteq {"put", "bulk", "webhook", "followup"}
    /\ Crashes \in BOOLEAN

VARIABLES
    stage,       \* leads.stage_id
    converted,   \* leads.converted_at is set
    disc,        \* the lead_discounts row of the lead
    req,         \* requests under way
    mixed        \* history: a request began beside another, or a writer of only
                 \* one of stage_id and converted_at ran

vars == <<stage, converted, disc, req, mixed>>

-----------------------------------------------------------------------------
Roles == {"counsellor", "manager", "admin"}
Managers == {"manager", "admin"}

\* A percentage matters only by which side of COUNSELLOR_MAX_PERCENT it is on.
Percent == {"none", "low", "high"}
Decisions == {"approved", "rejected"}

Discount == [status : {"none", "pending_approval"} \cup Decisions, pct : Percent,
             approver : Roles \cup {"nobody"}, held : Stage \cup {NoStage}]
NoDiscount == [status |-> "none", pct |-> "none", approver |-> "nobody",
               held |-> NoStage]

Request == [pc : {"idle", "read", "write", "upsert", "decide", "put", "followup"},
            role : Roles, to : Stage \cup {NoStage}, old : Stage, pct : Percent,
            hold : BOOLEAN]
Idle == [pc |-> "idle", role |-> "admin", to |-> NoStage, old |-> Entry,
         pct |-> "none", hold |-> FALSE]

Init ==
    /\ stage = Entry
    /\ converted = (Entry \in Success)
    /\ disc = NoDiscount
    /\ req = [q \in Req |-> Idle]
    /\ mixed = FALSE

Busy(q) == req[q].pc # "idle"
Begin(q, r) ==
    /\ ~Busy(q)
    /\ req' = [req EXCEPT ![q] = r]
    /\ mixed' = (mixed \/ \E p \in Req : Busy(p))
Done(q) == req' = [req EXCEPT ![q] = Idle]

\* discountNeedsApproval: any manager is its own approver.
NeedsApproval(role, p) == p = "high" /\ role \notin Managers

\* Mutant: the middleware is not mounted on the route.
MayEditAnyone(role) == role \in Roles

\* blockEditIfConverted: a read, in a middleware, long before the write.
MayEdit(role) == role = "admin" \/ ~converted

-----------------------------------------------------------------------------
(* POST /leads/:id/stage *)

\* service.changeStage: a discount above the cap holds the conversion and is
\* parked with the stage it was for; otherwise the stage moves first.
StageRequest(q, role, s, p) ==
    /\ MayEdit(role)
    /\ LET hold == s \in Success /\ NeedsApproval(role, p)
       IN  Begin(q, [Idle EXCEPT !.pc = IF hold THEN "upsert" ELSE "read",
                                 !.role = role, !.to = s, !.pct = p,
                                 !.hold = hold])
    /\ UNCHANGED <<stage, converted, disc>>

\* repo.changeStage, first statement of its transaction.
StageRead(q) ==
    /\ req[q].pc = "read"
    /\ req' = [req EXCEPT ![q] = [@ EXCEPT !.pc = "write", !.old = stage]]
    /\ UNCHANGED <<stage, converted, disc, mixed>>

\* Mutant: converted_at is stamped but never cleared.
ConvertedAfterKept(old, new) == converted \/ new \in Success

\* converted_at follows the stage across the success boundary, judged by the
\* stage that was read.
ConvertedAfter(old, new) ==
    IF old \notin Success /\ new \in Success THEN TRUE
    ELSE IF old \in Success /\ new \notin Success THEN FALSE ELSE converted

\* The UPDATE; skipped when neither stage nor sub-stage differs from what was
\* read.  A discount that needed no approval is recorded after the move.
StageWrite(q) ==
    /\ req[q].pc = "write"
    /\ \/ /\ stage' = req[q].to
          /\ converted' = ConvertedAfter(req[q].old, req[q].to)
       \/ req[q].old = req[q].to /\ UNCHANGED <<stage, converted>>
    /\ IF req[q].pct # "none" /\ req[q].to \in Success
       THEN req' = [req EXCEPT ![q] = [Idle EXCEPT !.pc = "upsert", !.role = req[q].role,
                                                   !.pct = req[q].pct]]
       ELSE Done(q)
    /\ UNCHANGED <<disc, mixed>>

-----------------------------------------------------------------------------
(* Discounts *)

\* POST /lead-discounts/:leadId, whatever stage the lead is in.
DiscountRequest(q, role, p) ==
    /\ Begin(q, [Idle EXCEPT !.pc = "upsert", !.role = role, !.pct = p])
    /\ UNCHANGED <<stage, converted, disc>>

\* Mutant: on conflict the status of the earlier request stays.
RequestedKeepsStatus(q) ==
    LET auto == ~NeedsApproval(req[q].role, req[q].pct)
    IN  [status |-> IF disc.status # "none" THEN disc.status
                    ELSE IF auto THEN "approved" ELSE "pending_approval",
         pct |-> req[q].pct,
         approver |-> IF auto THEN req[q].role ELSE "nobody",
         held |-> IF req[q].hold /\ ~auto THEN req[q].to ELSE NoStage]

\* The row as applyDiscount writes it.
Requested(q) ==
    LET auto == ~NeedsApproval(req[q].role, req[q].pct)
    IN  [status |-> IF auto THEN "approved" ELSE "pending_approval",
         pct |-> req[q].pct,
         approver |-> IF auto THEN req[q].role ELSE "nobody",
         held |-> IF req[q].hold /\ ~auto THEN req[q].to ELSE NoStage]

Upsert(q) ==
    /\ req[q].pc = "upsert"
    /\ disc' = Requested(q)
    /\ Done(q)
    /\ UNCHANGED <<stage, converted, mixed>>

\* decideDiscount: the row must be pending when it is read; the stage it holds
\* is remembered.
DecideRead(q, role) ==
    /\ role \in Managers /\ disc.status = "pending_approval"
    /\ Begin(q, [Idle EXCEPT !.pc = "decide", !.role = role, !.to = disc.held])
    /\ UNCHANGED <<stage, converted, disc>>

\* Mutant: an approved discount goes on holding the stage.
DecideStillHolds(q, v, p) ==
    /\ req[q].pc = "decide"
    /\ v = "rejected" => p = "none"
    /\ disc' = [disc EXCEPT !.status = v, !.approver = req[q].role,
                            !.pct = IF p = "none" THEN disc.pct ELSE p]
    /\ IF v = "approved" /\ req[q].to # NoStage
       THEN req' = [req EXCEPT ![q] = [@ EXCEPT !.pc = "read"]]
       ELSE Done(q)
    /\ UNCHANGED <<stage, converted, mixed>>

\* repo.decide updates by id alone.  An approval of a held conversion goes on
\* to move the lead into the stage that was read.
Decide(q, v, p) ==
    /\ req[q].pc = "decide"
    /\ v = "rejected" => p = "none"
    /\ disc' = [disc EXCEPT !.status = v, !.approver = req[q].role,
                            !.pct = IF p = "none" THEN disc.pct ELSE p,
                            !.held = NoStage]
    /\ IF v = "approved" /\ req[q].to # NoStage
       THEN req' = [req EXCEPT ![q] = [@ EXCEPT !.pc = "read"]]
       ELSE Done(q)
    /\ UNCHANGED <<stage, converted, mixed>>

\* The stage move of an approval fails; the error is swallowed.  Any other
\* request may fail there as well.
MoveFails(q) ==
    /\ req[q].pc \in {"read", "write"}
    /\ Done(q)
    /\ UNCHANGED <<stage, converted, disc, mixed>>

-----------------------------------------------------------------------------
(* The other writers *)

\* PUT /leads/:id with a stage: stage and converted_at in one transaction, the
\* row locked by the first UPDATE.
PutRequest(q, role, s) ==
    /\ "put" \in Writers /\ MayEdit(role)
    /\ Begin(q, [Idle EXCEPT !.pc = "put", !.role = role, !.to = s])
    /\ UNCHANGED <<stage, converted, disc>>

Put(q) ==
    /\ req[q].pc = "put"
    /\ stage' = req[q].to
    /\ converted' = (req[q].to \in Success)
    /\ Done(q)
    /\ UNCHANGED <<disc, mixed>>

\* POST /bulk/status-change: stage_id alone.
BulkStatus(s) ==
    /\ "bulk" \in Writers
    /\ stage' = s
    /\ mixed' = TRUE
    /\ UNCHANGED <<converted, disc, req>>

\* The payment provider reports a captured payment.
Captured ==
    /\ "webhook" \in Writers
    /\ converted' = TRUE
    /\ mixed' = TRUE
    /\ UNCHANGED <<stage, disc, req>>

\* A follow-up scheduled on a lead in the entry stage moves it on.
FollowRead(q) ==
    /\ "followup" \in Writers /\ stage = Entry
    /\ Begin(q, [Idle EXCEPT !.pc = "followup"])
    /\ UNCHANGED <<stage, converted, disc>>

FollowWrite(q) ==
    /\ req[q].pc = "followup"
    /\ stage' = Follow
    /\ Done(q)
    /\ UNCHANGED <<converted, disc, mixed>>

Crash ==
    /\ Crashes /\ \E q \in Req : req[q].pc # "idle"
    /\ req' = [q \in Req |-> Idle]
    /\ UNCHANGED <<stage, converted, disc, mixed>>

-----------------------------------------------------------------------------
Next ==
    \/ \E q \in Req, role \in Roles, s \in Stage, p \in Percent :
          StageRequest(q, role, s, p)
    \/ \E q \in Req : StageRead(q)
    \/ \E q \in Req : StageWrite(q)
    \/ \E q \in Req, role \in Roles, p \in Percent \ {"none"} :
          DiscountRequest(q, role, p)
    \/ \E q \in Req : Upsert(q)
    \/ \E q \in Req, role \in Managers : DecideRead(q, role)
    \/ \E q \in Req, v \in Decisions, p \in Percent : Decide(q, v, p)
    \/ \E q \in Req : MoveFails(q)
    \/ \E q \in Req, role \in Roles, s \in Stage : PutRequest(q, role, s)
    \/ \E q \in Req : Put(q)
    \/ \E s \in Stage : BulkStatus(s)
    \/ Captured
    \/ \E q \in Req : FollowRead(q)
    \/ \E q \in Req : FollowWrite(q)
    \/ Crash

Spec == Init /\ [][Next]_vars

-----------------------------------------------------------------------------
(* Properties *)

\* Every variable has its type.
TypeOK ==
    /\ stage \in Stage
    /\ converted \in BOOLEAN
    /\ disc \in Discount
    /\ req \in [Req -> Request]
    /\ mixed \in BOOLEAN

\* A discount above the counsellor's cap is approved only with a manager's
\* name on it, however requests, re-requests and decisions overlap (upsert
\* and decide write the same row without looking at it).
SignedOff ==
    disc.status = "approved" /\ disc.pct = "high" => disc.approver \in Managers

\* What a request under way knows: only managers decide, what it parks or took from
\* the row as a held stage is a conversion, and it moves the lead only to a stage.
Sound(r) ==
    /\ r.pc = "decide" => r.role \in Managers /\ r.to \in Success \cup {NoStage}
    /\ r.hold => r.to \in Success
    /\ r.pc \in {"read", "write", "put"} => r.to \in Stage

\* The inductive invariant behind SignedOff and HoldsConversion: the row and
\* every request under way (the handlers between two statements) are sound.
IInv ==
    /\ TypeOK /\ SignedOff
    /\ disc.held # NoStage =>
          disc.status = "pending_approval" /\ disc.held \in Success
    /\ \A q \in Req : Sound(req[q])

\* Only a pending discount above the cap holds a conversion, and what it holds
\* is a conversion: decided rows and re-requests leave no stale held stage that
\* a later decision would move the lead into.
HoldsConversion ==
    disc.held # NoStage =>
        disc.status = "pending_approval" /\ disc.held \in Success

\* converted_at says what the stage says: "flip converted_at on/off when the
\* lead crosses a "success" boundary" (leads/repo.js:874-875), unless requests
\* mixed.
ConvertedMatchesStage == ~mixed => (converted <=> stage \in Success)

\* "Once a lead has been converted ... the row is effectively closed. Only
\* super_admin can keep editing it" (leads/routes.js:19-20): unless requests
\* mixed, a conversion is undone by an administrator's request alone.
ConvertedIsClosed ==
    [][converted /\ ~converted' /\ ~mixed' =>
        \E q \in Req : req[q].role = "admin" /\ Busy(q) /\ req'[q] # req[q]]_vars

\* What a request that is alone knows, besides: the stage it read is the lead's,
\* and it does not reopen a conversion unless it is an administrator's.
Knows(r) ==
    /\ r.pc = "write" => r.old = stage
    /\ r.pc = "followup" => stage = Entry
    /\ r.pc \in {"read", "write", "put"} =>
           r.role = "admin" \/ ~converted \/ r.to \in Success

\* The inductive invariant behind ConvertedMatchesStage and ConvertedIsClosed.
StampInv ==
    ~mixed => /\ converted <=> stage \in Success
              /\ \A q \in Req : Knows(req[q])
              /\ \A p, q \in Req : Busy(p) /\ Busy(q) => p = q
=============================================================================
