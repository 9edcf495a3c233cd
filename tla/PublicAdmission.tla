-------------------------- MODULE PublicAdmission --------------------------
(***************************************************************************)
(* The unauthenticated admission form: accounts saves a fee offer for a    *)
(* converted lead, mints a share link, the student submits the form behind *)
(* the link, accounts approves or rejects what was submitted.              *)
(*                                                                         *)
(* Source: src/src/modules/public-admissions/{service,repo}.js,            *)
(* src/src/modules/lead-fee-offers/service.js, and the operations of       *)
(* admissions, of leads and of the admission importer that touch the same  *)
(* rows.                                                                   *)
(*                                                                         *)
(* Tokens live in the system database and everything else in the tenant's, *)
(* so a handler can only go from one statement to the next: a request q    *)
(* has a program counter, may be overtaken between two statements, and is  *)
(* lost if one of them fails or the server process dies.                   *)
(***************************************************************************)
EXTENDS Naturals, FiniteSets

CONSTANTS
    Lead,        \* leads
    Tok,         \* share links
    Adm,         \* admissions
    Req,         \* concurrent HTTP requests
    MaxOffer,    \* how many times the offer of a lead is saved
    Revivals     \* statuses accounts put a rejected admission back into

ASSUME PublicConstants ==
    /\ Lead # {} /\ Tok # {} /\ IsFiniteSet(Req) /\ IsFiniteSet(Adm)
    /\ Revivals \subseteq {"pending_approval", "attending", "on_break", "completed"}
    /\ MaxOffer \in Nat

VARIABLES
    gone,        \* leads deleted for good
    offer,       \* lead_fee_offers: the version the row has, 0 when there is none
    saved,       \* how many versions of the offer of a lead there ever were
    importing,   \* how far a row of the admission importer is with that offer
    token,       \* public_admission_tokens
    adm,         \* admissions
    lost,        \* requests through a link that failed between insert and burning
    req          \* requests under way

vars == <<gone, offer, saved, importing, token, adm, lost, req>>
offers == <<offer, saved, importing>>

Statuses == {"pending_approval", "attending", "on_break", "completed", "rejected"}

\* live: inserted; used/expired as stored.
NoToken == [live |-> FALSE, lead |-> CHOOSE l \in Lead : TRUE,
            used |-> FALSE, expired |-> FALSE]

\* lead: the lead the row was made for; its lead_id is null once that is gone.
\* tok: the link a submission came through (source "public"); stale: its plan was
\* no longer in force when that submit began; revived: a rejected row was put back
\* into another status.
NoAdmission == [row |-> "none", lead |-> CHOOSE l \in Lead : TRUE,
                status |-> "pending_approval", plan |-> 0, stale |-> FALSE,
                source |-> "staff", revived |-> FALSE,
                tok |-> CHOOSE t \in Tok : TRUE]

Idle == [pc |-> "idle", lead |-> CHOOSE l \in Lead : TRUE,
         tok |-> CHOOSE t \in Tok : TRUE, plan |-> 0, asof |-> 0]

Init ==
    /\ gone = {}
    /\ offer = [l \in Lead |-> 0]
    /\ saved = [l \in Lead |-> 0]
    /\ importing = [l \in Lead |-> "no"]
    /\ token = [t \in Tok |-> NoToken]
    /\ adm = [a \in Adm |-> NoAdmission]
    /\ lost = [t \in Tok |-> 0]
    /\ req = [q \in Req |-> Idle]

\* The admission rows that block a link or a submission for the lead.
Open(l) == {a \in Adm : /\ adm[a].row = "live" /\ adm[a].lead = l
                        /\ l \notin gone /\ adm[a].status # "rejected"}

Goto(q, pc) == req' = [req EXCEPT ![q].pc = pc]
Burn(q, pc) == req' = [req EXCEPT ![q] = [Idle EXCEPT !.pc = pc, !.tok = req[q].tok]]
Done(q) == req' = [req EXCEPT ![q] = Idle]

\* The upsert of an offer, a foreign key of the lead; versions are numbered in
\* the order they were saved.
Upsert(l) ==
    /\ l \notin gone /\ saved[l] < MaxOffer
    /\ saved' = [saved EXCEPT ![l] = @ + 1]
    /\ offer' = [offer EXCEPT ![l] = saved[l] + 1]

-----------------------------------------------------------------------------
(* The lead *)

\* The lead is deleted by an administrator, or by the importer that had just
\* inserted it: the offer goes with it, admissions forget it, links stay.
DeleteLead(l) ==
    /\ l \notin gone
    /\ gone' = gone \cup {l}
    /\ offer' = [offer EXCEPT ![l] = 0]
    /\ UNCHANGED <<saved, importing, token, adm, lost, req>>

-----------------------------------------------------------------------------
(* The fee offer *)

\* saveOffer, when converted_at, which stage changes set and clear at any time,
\* does not stop it.
SaveOffer(l) ==
    /\ Upsert(l)
    /\ UNCHANGED <<gone, importing, token, adm, lost, req>>

\* writeRow, for a lead on file: an offer is looked for, and when there is none
\* the row of the file makes one.
ImportLook(l) ==
    /\ importing[l] = "no" /\ l \notin gone /\ offer[l] = 0
    /\ importing' = [importing EXCEPT ![l] = "looked"]
    /\ UNCHANGED <<gone, offer, saved, token, adm, lost, req>>

ImportUpsert(l) ==
    /\ importing[l] = "looked"
    /\ Upsert(l)
    /\ importing' = [importing EXCEPT ![l] = "written"]
    /\ UNCHANGED <<gone, token, adm, lost, req>>

\* rollbackRow after the upsert, or anything later in the row, failed: whatever
\* offer the lead has by then is deleted.
ImportRollback(l) ==
    /\ importing[l] # "no"
    /\ offer' = [offer EXCEPT ![l] = 0]
    /\ importing' = [importing EXCEPT ![l] = "no"]
    /\ UNCHANGED <<gone, saved, token, adm, lost, req>>

\* The row is written, or its worker dies in it.
ImportEnds(l) ==
    /\ importing[l] # "no"
    /\ importing' = [importing EXCEPT ![l] = "no"]
    /\ UNCHANGED <<gone, offer, saved, token, adm, lost, req>>

-----------------------------------------------------------------------------
(* generateLink *)

\* The lead row is read (converted_at is among its columns, nothing looks at
\* it), then the open admissions; either may stop the request.
MintCheckOpen(q, l) ==
    /\ req[q].pc = "idle" /\ l \notin gone /\ Open(l) = {}
    /\ req' = [req EXCEPT ![q] = [Idle EXCEPT !.pc = "mint_offer", !.lead = l]]
    /\ UNCHANGED <<gone, offers, token, adm, lost>>

MintCheckOffer(q) ==
    /\ req[q].pc = "mint_offer"
    /\ IF offer[req[q].lead] > 0 THEN Goto(q, "mint_insert") ELSE Done(q)
    /\ UNCHANGED <<gone, offers, token, adm, lost>>

MintInsert(q, t) ==
    /\ req[q].pc = "mint_insert" /\ ~token[t].live
    /\ token' = [token EXCEPT ![t] = [live |-> TRUE, lead |-> req[q].lead,
                                      used |-> FALSE, expired |-> FALSE]]
    /\ Done(q)
    /\ UNCHANGED <<gone, offers, adm, lost>>

\* Twenty-four hours pass.
Expire(t) ==
    /\ token[t].live /\ ~token[t].expired
    /\ token' = [token EXCEPT ![t].expired = TRUE]
    /\ UNCHANGED <<gone, offers, adm, lost, req>>

-----------------------------------------------------------------------------
(* submitFromToken *)

\* Mutant: a link that was used is looked up like any other.
LookupIgnoresUsed(t) == token[t].live /\ ~token[t].expired

LookupOk(t) == token[t].live /\ ~token[t].used /\ ~token[t].expired

\* The oldest version that may still price a submission that begins now.
InForce(l) == IF offer[l] = 0 THEN saved[l] + 1 ELSE offer[l]

SubmitLookup(q, t) ==
    /\ req[q].pc = "idle" /\ LookupOk(t)
    /\ req' = [req EXCEPT ![q] =
                [Idle EXCEPT !.pc = "submit_open", !.lead = token[t].lead,
                             !.tok = t, !.asof = InForce(token[t].lead)]]
    /\ UNCHANGED <<gone, offers, token, adm, lost>>

\* Mutant: the admission is not looked for again after the link was minted.
SubmitCheckNothing(q) ==
    /\ req[q].pc = "submit_open"
    /\ Goto(q, "submit_offer")
    /\ UNCHANGED <<gone, offers, token, adm, lost>>

\* An open admission burns the link, in a later statement, and answers 409.
SubmitCheckOpen(q) ==
    /\ req[q].pc = "submit_open"
    /\ IF Open(req[q].lead) = {} THEN Goto(q, "submit_offer") ELSE Burn(q, "burn")
    /\ UNCHANGED <<gone, offers, token, adm, lost>>

\* Mutant: the plan is the one the student's form was loaded with.
SubmitTakesForm(q) ==
    /\ req[q].pc = "submit_offer"
    /\ \E p \in 1..saved[req[q].lead] :
          req' = [req EXCEPT ![q] = [@ EXCEPT !.pc = "submit_insert", !.plan = p]]
    /\ UNCHANGED <<gone, offers, token, adm, lost>>

\* The lead and then its offer are read; without either the request ends.
SubmitReadOffer(q) ==
    /\ req[q].pc = "submit_offer"
    /\ IF offer[req[q].lead] = 0
       THEN Done(q)
       ELSE req' = [req EXCEPT ![q] = [@ EXCEPT !.pc = "submit_insert",
                                           !.plan = offer[req[q].lead]]]
    /\ UNCHANGED <<gone, offers, token, adm, lost>>

\* The row a submission inserts.  lead_id is a foreign key, and nothing in the
\* schema makes it unique.
Submission(q) ==
    [row |-> "live", lead |-> req[q].lead, status |-> "pending_approval",
     plan |-> req[q].plan, stale |-> req[q].plan < req[q].asof,
     source |-> "public", revived |-> FALSE, tok |-> req[q].tok]

SubmitInsert(q, a) ==
    /\ req[q].pc = "submit_insert" /\ adm[a].row = "none"
    /\ req[q].lead \notin gone
    /\ adm' = [adm EXCEPT ![a] = Submission(q)]
    /\ Burn(q, "mark")
    /\ UNCHANGED <<gone, offers, token, lost>>

\* After the insert, or after the 409 of an open admission.
MarkUsed(q) ==
    /\ req[q].pc \in {"mark", "burn"}
    /\ token' = [token EXCEPT ![req[q].tok].used = TRUE]
    /\ Done(q)
    /\ UNCHANGED <<gone, offers, adm, lost>>

\* A statement of the request fails and it answers 500; when the server process
\* dies, that happens to every request under way.
Fail(q) ==
    /\ req[q].pc # "idle"
    /\ lost' = IF req[q].pc = "mark"
                 THEN [lost EXCEPT ![req[q].tok] = @ + 1] ELSE lost
    /\ Done(q)
    /\ UNCHANGED <<gone, offers, token, adm>>

-----------------------------------------------------------------------------
(* Accounts *)

\* POST /admissions for a lead, or a row of the importer: no check, in the
\* insert, for one already there.
StaffCreate(a, l) ==
    /\ adm[a].row = "none" /\ l \notin gone
    /\ adm' = [adm EXCEPT ![a] = [NoAdmission EXCEPT !.row = "live", !.lead = l]]
    /\ UNCHANGED <<gone, offers, token, lost, req>>

Decide(a, s) ==
    /\ adm[a].row = "live" /\ adm[a].status = "pending_approval"
    /\ s \in {"attending", "rejected"}
    /\ adm' = [adm EXCEPT ![a].status = s]
    /\ UNCHANGED <<gone, offers, token, lost, req>>

\* PUT /admissions/:id with a status, break, resume, complete: no guard on the
\* status the row had.  Only the revival of a rejected row matters here.
Revive(a, s) ==
    /\ s \in Revivals
    /\ adm[a].row = "live" /\ adm[a].status = "rejected"
    /\ adm' = [adm EXCEPT ![a].status = s, ![a].revived = TRUE]
    /\ UNCHANGED <<gone, offers, token, lost, req>>

\* By accounts, or a rollback of the importer.  Nothing reads the status of a
\* deleted row again.
SoftDelete(a) ==
    /\ adm[a].row = "live"
    /\ adm' = [adm EXCEPT ![a] = [@ EXCEPT !.row = "deleted", !.revived = FALSE,
                                           !.status = "pending_approval"]]
    /\ UNCHANGED <<gone, offers, token, lost, req>>

-----------------------------------------------------------------------------
Next ==
    \/ \E l \in Lead : DeleteLead(l)
    \/ \E l \in Lead : SaveOffer(l)
    \/ \E l \in Lead : ImportLook(l)
    \/ \E l \in Lead : ImportUpsert(l)
    \/ \E l \in Lead : ImportRollback(l)
    \/ \E l \in Lead : ImportEnds(l)
    \/ \E q \in Req, l \in Lead : MintCheckOpen(q, l)
    \/ \E q \in Req : MintCheckOffer(q)
    \/ \E q \in Req, t \in Tok : MintInsert(q, t)
    \/ \E t \in Tok : Expire(t)
    \/ \E q \in Req, t \in Tok : SubmitLookup(q, t)
    \/ \E q \in Req : SubmitCheckOpen(q)
    \/ \E q \in Req : SubmitReadOffer(q)
    \/ \E q \in Req, a \in Adm : SubmitInsert(q, a)
    \/ \E q \in Req : MarkUsed(q)
    \/ \E q \in Req : Fail(q)
    \/ \E a \in Adm, l \in Lead : StaffCreate(a, l)
    \/ \E a \in Adm, s \in {"attending", "rejected"} : Decide(a, s)
    \/ \E a \in Adm, s \in Revivals : Revive(a, s)
    \/ \E a \in Adm : SoftDelete(a)

Spec == Init /\ [][Next]_vars

-----------------------------------------------------------------------------
(* Properties *)

Pcs == {"idle", "mint_offer", "mint_insert",
        "submit_open", "submit_offer", "submit_insert", "mark", "burn"}

Token == [live : BOOLEAN, lead : Lead, used : BOOLEAN, expired : BOOLEAN]
Admission == [row : {"none", "live", "deleted"}, lead : Lead,
              status : Statuses, plan : 0..MaxOffer, stale : BOOLEAN,
              source : {"staff", "public"}, revived : BOOLEAN, tok : Tok]
Request == [pc : Pcs, lead : Lead, tok : Tok, plan : 0..MaxOffer,
            asof : 0..MaxOffer + 1]

\* Every variable has its type.
TypeOK ==
    /\ gone \in SUBSET Lead
    /\ offer \in [Lead -> 0..MaxOffer]
    /\ saved \in [Lead -> 0..MaxOffer]
    /\ importing \in [Lead -> {"no", "looked", "written"}]
    /\ token \in [Tok -> Token]
    /\ adm \in [Adm -> Admission]
    /\ lost \in [Tok -> Nat]
    /\ req \in [Req -> Request]

Public(a) == adm[a].row # "none" /\ adm[a].source = "public"

\* The submissions of a lead that are open as the student made them, and the
\* requests that have found none open and are on their way to insert one.
Submitted(l) == {a \in Open(l) : Public(a) /\ ~adm[a].revived}
Passed(l) == {q \in Req : /\ req[q].pc \in {"submit_offer", "submit_insert"}
                          /\ req[q].lead = l}

\* The "idempotent guard" of submitFromToken, through failures, expired and
\* reissued links, rejections and resubmissions: a lead never has more open
\* submissions than requests can be under way at once, so that a student who
\* retries one submit at a time never has two.
DuplicatesBounded ==
    \A l \in Lead : Cardinality(Submitted(l)) <= Cardinality(Req)

\* What makes it inductive: a request that has passed the check counts already.
PassedBounded ==
    \A l \in Lead :
        Cardinality(Submitted(l)) + Cardinality(Passed(l)) <= Cardinality(Req)

\* "Pin the admission's program + fees to the saved offer, NOT the student's
\* input": a submission is for the lead its link names and carries a version of
\* that lead's offer which was in force at some moment of the submit.  Offers are
\* replaced by accounts and made and deleted by the importer meanwhile: a version
\* that was replaced or taken back before the submit began never prices it.
PricedInForce ==
    \A a \in Adm : Public(a) =>
        /\ adm[a].lead = token[adm[a].tok].lead
        /\ adm[a].plan \in 1..saved[adm[a].lead] /\ ~adm[a].stale

\* What makes it inductive: a link exists before the request or the admission
\* that names it and keeps its lead; an offer is one of the versions saved; and
\* the one a submit has read, or may read, is not older than its beginning.
PricedOnTheWay ==
    /\ \A l \in Lead : offer[l] <= saved[l]
    /\ \A a \in Adm : Public(a) => token[adm[a].tok].live
    /\ \A q \in Req : req[q].pc \in {"submit_open", "submit_offer", "submit_insert"} =>
        /\ token[req[q].tok].live /\ token[req[q].tok].lead = req[q].lead
        /\ req[q].asof \in 1..InForce(req[q].lead)
        /\ req[q].pc = "submit_insert" =>
              req[q].plan \in req[q].asof..saved[req[q].lead]

\* "It's a 32-byte random string, 24h TTL, single-use" (service.js:3-4): no two
\* admissions are ever created through one link.  The code does not keep it.
SingleUse ==
    \A a, b \in Adm : Public(a) /\ Public(b) /\ adm[a].tok = adm[b].tok => a = b

\* How often a link is used.  The admissions created through it, the requests
\* that may still create one, and those that created one and are about to burn it:
Through(t) == {a \in Adm : Public(a) /\ adm[a].tok = t}
Inserting(t) ==
    {q \in Req : /\ req[q].pc \in {"submit_open", "submit_offer", "submit_insert"}
                  /\ req[q].tok = t}
Marking(t) == {q \in Req : req[q].pc = "mark" /\ req[q].tok = t}

\* What single use comes to when submits overlap and fail between the insert and
\* the burning, two statements on two databases.  While a link is unburnt, every
\* admission made through it has its own request on the way to burn it or lost
\* one there; hence, whatever accounts do to the rows, it never makes more
\* admissions than requests can be under way at once and requests were so lost.
LinkUses ==
    \A t \in Tok :
        /\ Cardinality(Through(t)) + Cardinality(Inserting(t))
              <= Cardinality(Req) + lost[t]
        /\ ~token[t].used =>
              Cardinality(Through(t)) <= Cardinality(Marking(t)) + lost[t]
=============================================================================
