---------------------------- MODULE QuoteLifecycle ----------------------------
(***************************************************************************)
(* The quote side of the workflow: the versions of one quote reference and *)
(* the HTTP requests that race on them.                                    *)
(*                                                                         *)
(*   server/src/services/quoteWorkflow.js  submit and decline, each in one *)
(*                                         transaction under FOR UPDATE    *)
(*   server/src/services/approvals.js      approve, NTU, return, recall:   *)
(*                                         checks on the pool, then an     *)
(*                                         unconditional UPDATE            *)
(*   server/src/routes/quoteLifecycle.js   amend and bind                  *)
(*   server/src/services/quoteBind.js      bind, under FOR UPDATE          *)
(*   server/src/services/assignments.js    handing a quote over            *)
(*                                                                         *)
(* As in ApprovalWorkflow a read on the pool is a step, a transaction that *)
(* reads nothing inside is one action, and every refusal, error or crash   *)
(* ends a request without effect (Fail). SELECT .. FOR UPDATE and COMMIT   *)
(* are two actions, so that what the row lock is good for can be seen.     *)
(***************************************************************************)
EXTENDS Naturals, FiniteSets

CONSTANTS
  Users,           \* everybody who may act
  Level,           \* hierarchy_level of a user's role, 1 (CE) .. 5 (AN)
  Quotes,          \* ids the versions may get: bounds the amendments
  Root,            \* the first version
  Targets,         \* the versions that requests address: bounds the races
  Creators,        \* those who may have opened the first version
  InitialStatuses, \* of the first version: DRAFT, or SIGNED by migration 157
  Requests,        \* concurrent requests the server has in flight
  EventReadsFail,  \* whether a query on the event table may fail
  NoUser,          \* SQL NULL in a user column
  NoRequest        \* the row is not locked

ASSUME QuoteUsersAssumption   == NoUser \notin Users /\ Creators \subseteq Users
ASSUME QuoteLevelAssumption   == Level \in [Users -> 1..5]
ASSUME QuoteFiniteAssumption  == IsFiniteSet(Quotes)
ASSUME QuoteRowsAssumption    == Root \in Targets /\ Targets \subseteq Quotes
ASSUME QuoteInitialAssumption == InitialStatuses \subseteq {"DRAFT", "SIGNED"}
ASSUME QuoteRequestAssumption == NoRequest \notin Requests
ASSUME QuoteReadsAssumption   == EventReadsFail \in BOOLEAN

VARIABLES
  quote,      \* the quote rows
  offer,      \* the quote_offer rows
  submitter,  \* actor of the latest SUBMITTED_FOR_APPROVAL event of a quote
  contracts,  \* how many contracts, with Finance entry, a quote was bound into
  lock,       \* the request whose open transaction holds a quote row
  req         \* what each request has read so far

vars == <<quote, offer, submitter, contracts, lock, req>>

Existing == {q \in Quotes : quote[q].status # "NONE"}
Live     == {q \in Existing : quote[q].status # "SUPERSEDED"}
LiveStatus ==
  IF Cardinality(Live) = 1 THEN quote[CHOOSE q \in Live : TRUE].status
  ELSE "SUPERSEDED"

Family == INSTANCE QuoteFamily WITH versions <- Cardinality(Existing),
                                    live <- LiveStatus
SM == INSTANCE StatusMachine WITH status <- LiveStatus
-----------------------------------------------------------------------------
(* Data *)

UserOrNull  == Users \cup {NoUser}
QuoteStatus == SM!UwStatuses \cup {"SUPERSEDED", "NONE"}
OfferStatus == {"ABSENT", "AWAITING_APPROVAL", "AWAITING_SIGNED_LINE",
                "RETURNED", "RECALLED", "SIGNED", "NTU", "DECLINED"}

\* `uw` is quote.uw_status, a column that no handler of a quote ever writes.
QuoteRow ==
  [status : QuoteStatus, uw : {"DRAFT", "SIGNED"}, version : Nat,
   creator : UserOrNull, owner : UserOrNull, nominee : UserOrNull,
   bound : BOOLEAN]
OfferRow == [status : OfferStatus, nominee : UserOrNull]

NoRow == [status |-> "NONE", uw |-> "DRAFT", version |-> 0, creator |-> NoUser,
          owner |-> NoUser, nominee |-> NoUser, bound |-> FALSE]
NoOffer == [status |-> "ABSENT", nominee |-> NoUser]

\* The row that the INSERT of an amendment, or of a new quote, creates.
NewVersion(u, version) ==
  [NoRow EXCEPT !.status = "DRAFT", !.version = version, !.creator = u,
                !.owner = u]

PcLabels ==
  {"idle", "submit_lock", "submit_write", "decline_lock", "decline_write",
   "approve_check", "approve_assert", "approve_write", "terminal_auth",
   "terminal_write", "mirror", "amend_write", "amended", "bind_lock", "bind_write",
   "assign_read", "assign_write"}

TerminalActions == {"NTU", "RETURN", "RECALL"}

\* What a request carries across its awaits: `other` is the nominee of a
\* submission or the next owner of a handover, `named` whether approveQuote found
\* its actor nominated, `late` whether a submission that began after this one has
\* committed before it.
Request ==
  [pc : PcLabels, quote : Quotes, actor : UserOrNull, other : UserOrNull,
   action : TerminalActions \cup {"APPROVE", "NONE"}, named : BOOLEAN,
   late : BOOLEAN]

Idle == [pc |-> "idle", quote |-> Root, actor |-> NoUser, other |-> NoUser,
         action |-> "NONE", named |-> FALSE, late |-> FALSE]

At(r, pc)    == req[r].pc = pc
Goto(r, now) == req' = [req EXCEPT ![r] = now]
Finish(r)    == Goto(r, Idle)

\* Mutant: the row is read without FOR UPDATE.
PlainSelect(r, q) == q \in Quotes

\* A statement that writes or locks the row waits for the holder of its lock.
RowFree(r, q) == lock[q] \in {NoRequest, r}

Hold(r, q)       == lock' = [lock EXCEPT ![q] = r]
Release(q)       == lock' = [lock EXCEPT ![q] = NoRequest]
SetStatus(q, to) == quote' = [quote EXCEPT ![q].status = to]
-----------------------------------------------------------------------------
(* Authority *)

HoldsAuthority(u) == Level[u] <= 4      \* APPROVAL_AUTHORITY_MAX_LEVEL

\* quoteSubmittedBy swallows the error of its query and answers null.
SubmitEvent(q) ==
  {submitter[q]} \cup (IF EventReadsFail THEN {NoUser} ELSE {})

\* loadTerminalContext: the submit event wins, the creator is the fallback.
SubmittedBy(q) ==
  {IF event = NoUser THEN quote[q].creator ELSE event : event \in SubmitEvent(q)}

\* isEligibleQuoteApprover.
EligibleApprover(u, q) ==
  /\ SubmittedBy(q) # {u}
  /\ quote[q].nominee = u \/ HoldsAuthority(u)

\* The edit lock (assertCanEdit): the current assignee only.
MayEdit(u, q) == q \in Existing /\ quote[q].owner = u

\* authorizeTerminalAction for a quote.
Authorized(u, action, q) ==
  CASE action = "NTU"    -> u = quote[q].owner \/ EligibleApprover(u, q)
    [] action = "RETURN" -> EligibleApprover(u, q)
    [] action = "RECALL" -> u \in SubmittedBy(q)

\* TERMINAL_ACTIONS; DISPUTE_PENDING is no state of a quote.
PriorStates(action) ==
  IF action = "NTU" THEN {"AWAITING_SIGNED_LINE"}
  ELSE {"AWAITING_APPROVAL", "AWAITING_SIGNED_LINE"}

Target(action) == IF action = "NTU" THEN "NTU" ELSE "DRAFT"

-----------------------------------------------------------------------------
(* submitQuoteForApprovalAction *)

\* The edit lock, then the nominee: nobody, or another user with authority.
NomineeAllowed(u, nominee) ==
  nominee # NoUser => nominee # u /\ HoldsAuthority(nominee)

PlanSubmission(r, q, u, nominee) ==
  /\ At(r, "idle")
  /\ MayEdit(u, q)
  /\ NomineeAllowed(u, nominee)
  /\ Goto(r, [Idle EXCEPT !.pc = "submit_lock", !.quote = q, !.actor = u,
                          !.other = nominee])
  /\ UNCHANGED <<quote, offer, submitter, contracts, lock>>

\* lockQuoteStatus and assertLegalTransition.
LockForSubmission(r) ==
  LET q == req[r].quote
  IN /\ At(r, "submit_lock")
     /\ RowFree(r, q)
     /\ SM!IsLegal(quote[q].status, "AWAITING_APPROVAL")
     /\ Hold(r, q)
     /\ Goto(r, [req[r] EXCEPT !.pc = "submit_write"])
     /\ UNCHANGED <<quote, offer, submitter, contracts>>

\* The event's created_at is the time of BEGIN, which may be before that of a
\* submission that got the lock first: the latest event is then the other one's.
CommitSubmission(r) ==
  LET me == req[r]
      q  == me.quote
  IN /\ At(r, "submit_write")
     /\ quote' = [quote EXCEPT ![q].status = "AWAITING_APPROVAL",
                               ![q].nominee = me.other]
     /\ offer' = [offer EXCEPT ![q] = [status |-> "AWAITING_APPROVAL",
                                       nominee |-> me.other]]
     /\ \E who \in {me.actor} \cup (IF me.late THEN {submitter[q]} ELSE {}) :
          submitter' = [submitter EXCEPT ![q] = who]
     /\ Release(q)
     /\ req' = [s \in Requests |->
           IF s = r THEN Idle
           ELSE [req[s] EXCEPT !.late =
                   @ \/ (req[s].pc = "submit_lock" /\ req[s].quote = q)]]
     /\ UNCHANGED <<contracts>>

-----------------------------------------------------------------------------
(* declineQuoteAction *)

\* getTerminalPermissions.can_ntu, on the pool.
AuthorizeDecline(r, q, u) ==
  /\ At(r, "idle")
  /\ q \in Existing
  /\ Authorized(u, "NTU", q)
  /\ Goto(r, [Idle EXCEPT !.pc = "decline_lock", !.quote = q, !.actor = u])
  /\ UNCHANGED <<quote, offer, submitter, contracts, lock>>

LockForDecline(r) ==
  LET q == req[r].quote
  IN /\ At(r, "decline_lock")
     /\ RowFree(r, q)
     /\ SM!IsLegal(quote[q].status, "DECLINED")
     /\ Hold(r, q)
     /\ Goto(r, [req[r] EXCEPT !.pc = "decline_write"])
     /\ UNCHANGED <<quote, offer, submitter, contracts>>

CommitDecline(r) ==
  LET q == req[r].quote
  IN /\ At(r, "decline_write")
     /\ SetStatus(q, "DECLINED")
     /\ offer' = [offer EXCEPT ![q].status =
                    IF @ = "ABSENT" THEN @ ELSE "DECLINED"]
     /\ Release(q)
     /\ Finish(r)
     /\ UNCHANGED <<submitter, contracts>>

-----------------------------------------------------------------------------
(* approveQuote *)

\* Creator and nominee are read from quote and quote_offer ...
ReadForApproval(r, q, u) ==
  /\ At(r, "idle")
  /\ q \in Existing
  /\ Goto(r, [Idle EXCEPT !.pc = "approve_check", !.quote = q, !.actor = u,
                          !.action = "APPROVE", !.named = offer[q].nominee = u])
  /\ UNCHANGED <<quote, offer, submitter, contracts, lock>>

\* Mutant: four eyes against the submitter is left out.
NotCreator(u, q, named) ==
  u # quote[q].creator /\ (HoldsAuthority(u) \/ named)

\* ... and the submitter from the events; then four eyes and authority.
MayApprove(u, q, named) ==
  /\ u # quote[q].creator
  /\ SubmitEvent(q) # {u}
  /\ HoldsAuthority(u) \/ named

CheckApprover(r) ==
  /\ At(r, "approve_check")
  /\ MayApprove(req[r].actor, req[r].quote, req[r].named)
  /\ Goto(r, [req[r] EXCEPT !.pc = "approve_assert", !.named = FALSE])
  /\ UNCHANGED <<quote, offer, submitter, contracts, lock>>

\* Mutant: the target is guarded, the edge is not.
AnyStatus(status) == status \in QuoteStatus

\* assertWorkflowTransition: the status as it is now, the self edge included.
Approvable(status) == SM!IsLegal(status, "AWAITING_SIGNED_LINE")

AssertApproval(r) ==
  /\ At(r, "approve_assert")
  /\ Approvable(quote[req[r].quote].status)
  /\ Goto(r, [req[r] EXCEPT !.pc = "approve_write"])
  /\ UNCHANGED <<quote, offer, submitter, contracts, lock>>

\* UPDATE .. WHERE quote_id: whatever the quote has become since.
CommitApproval(r) ==
  /\ At(r, "approve_write")
  /\ RowFree(r, req[r].quote)
  /\ SetStatus(req[r].quote, "AWAITING_SIGNED_LINE")
  /\ Goto(r, [req[r] EXCEPT !.pc = "mirror", !.actor = NoUser])
  /\ UNCHANGED <<offer, submitter, contracts, lock>>

-----------------------------------------------------------------------------
(* markNotTakenUp, returnToUnderwriter, recallOffer *)

AssertTransition(r, q, u, action) ==
  /\ At(r, "idle")
  /\ q \in Existing
  /\ quote[q].status \in PriorStates(action)
  /\ Goto(r, [Idle EXCEPT !.pc = "terminal_auth", !.quote = q, !.actor = u,
                          !.action = action])
  /\ UNCHANGED <<quote, offer, submitter, contracts, lock>>

AuthorizeTerminal(r) ==
  /\ At(r, "terminal_auth")
  /\ Authorized(req[r].actor, req[r].action, req[r].quote)
  /\ Goto(r, [req[r] EXCEPT !.pc = "terminal_write", !.actor = NoUser])
  /\ UNCHANGED <<quote, offer, submitter, contracts, lock>>

CommitTerminal(r) ==
  /\ At(r, "terminal_write")
  /\ RowFree(r, req[r].quote)
  /\ SetStatus(req[r].quote, Target(req[r].action))
  /\ Goto(r, [req[r] EXCEPT !.pc = "mirror"])
  /\ UNCHANGED <<offer, submitter, contracts, lock>>

\* Mutants: whatever is not an approval is mirrored as not taken up; the mirror
\* takes the status of the quote.
ApprovedOrNtu(action) ==
  IF action = "APPROVE" THEN "AWAITING_SIGNED_LINE" ELSE "NTU"
AsQuote(action) ==
  IF action = "APPROVE" THEN "AWAITING_SIGNED_LINE" ELSE Target(action)

\* The best-effort mirror on quote_offer, after COMMIT and on the pool; it is
\* late behind whatever happened meanwhile, and may get lost (Fail).
OfferMirror(action) ==
  CASE action = "APPROVE" -> "AWAITING_SIGNED_LINE"
    [] action = "NTU"     -> "NTU"
    [] action = "RETURN"  -> "RETURNED"
    [] action = "RECALL"  -> "RECALLED"

MirrorOffer(r) ==
  /\ At(r, "mirror")
  /\ offer' = [offer EXCEPT ![req[r].quote].status = OfferMirror(req[r].action)]
  /\ Finish(r)
  /\ UNCHANGED <<quote, submitter, contracts, lock>>

-----------------------------------------------------------------------------
(* POST /quotes/:id/amend *)

\* Mutant: every state may be amended.
AmendAnything == QuoteStatus

Amendable == Family!Amendable

\* The edit lock, then status and version on the pool.
ReadForAmendment(r, q, u) ==
  /\ At(r, "idle")
  /\ MayEdit(u, q)
  /\ quote[q].status \in Amendable
  /\ Goto(r, [Idle EXCEPT !.pc = "amend_write", !.quote = q, !.actor = u])
  /\ UNCHANGED <<quote, offer, submitter, contracts, lock>>

\* The original becomes SUPERSEDED whatever it is by now; the next version is a
\* draft of the actor.
CommitAmendment(r) ==
  LET q == req[r].quote
  IN /\ At(r, "amend_write")
     /\ RowFree(r, q)
     /\ \E new \in Quotes \ Existing :
          quote' = [quote EXCEPT
            ![q].status = "SUPERSEDED",
            ![new] = NewVersion(req[r].actor, quote[q].version + 1)]
     /\ Goto(r, [Idle EXCEPT !.pc = "amended"])
     /\ UNCHANGED <<offer, submitter, contracts, lock>>

\* One of the two event inserts fails and its error is swallowed inside the
\* transaction: the database turns COMMIT into a rollback and reports no error,
\* so the handler answers 201 all the same.
AbortedAmendment(r) ==
  /\ At(r, "amend_write")
  /\ RowFree(r, req[r].quote)
  /\ Goto(r, [Idle EXCEPT !.pc = "amended"])
  /\ UNCHANGED <<quote, offer, submitter, contracts, lock>>

\* "amended": the client has its 201 with the id of the new version.
AnswerAmendment(r) ==
  /\ At(r, "amended")
  /\ Finish(r)
  /\ UNCHANGED <<quote, offer, submitter, contracts, lock>>

-----------------------------------------------------------------------------
(* POST /quotes/:id/bind, bindQuoteToContract *)

AuthorizeBind(r, q, u) ==
  /\ At(r, "idle")
  /\ MayEdit(u, q)
  /\ Goto(r, [Idle EXCEPT !.pc = "bind_lock", !.quote = q, !.actor = u])
  /\ UNCHANGED <<quote, offer, submitter, contracts, lock>>

LockForBind(r) ==
  LET q == req[r].quote
  IN /\ At(r, "bind_lock")
     /\ RowFree(r, q)
     /\ ~quote[q].bound
     /\ quote[q].status = "SIGNED"
     /\ Hold(r, q)
     /\ Goto(r, [req[r] EXCEPT !.pc = "bind_write"])
     /\ UNCHANGED <<quote, offer, submitter, contracts>>

\* The contract, born SIGNED, its copies, the link and the Finance entry.
CommitBind(r) ==
  LET q == req[r].quote
  IN /\ At(r, "bind_write")
     /\ contracts' = [contracts EXCEPT ![q] = @ + 1]
     /\ quote' = [quote EXCEPT ![q].bound = TRUE]
     /\ Release(q)
     /\ Finish(r)
     /\ UNCHANGED <<offer, submitter>>

-----------------------------------------------------------------------------
(* POST /quotes/:id/reassign and /allocate *)

\* The app-level edit guard takes the two routes for edits of the quote.
GuardHandOver(r, q, u, to) ==
  /\ At(r, "idle")
  /\ MayEdit(u, q)
  /\ Goto(r, [Idle EXCEPT !.pc = "assign_read", !.quote = q, !.actor = u,
                          !.other = to])
  /\ UNCHANGED <<quote, offer, submitter, contracts, lock>>

\* Owner and uw_status on the pool: only a draft, and only from one's own level
\* or below. An allocate (other = actor) of one's own work changes nothing.
ReadForHandOver(r) ==
  LET row == quote[req[r].quote]
  IN /\ At(r, "assign_read")
     /\ row.uw = "DRAFT"
     /\ Level[req[r].actor] <= Level[row.owner]
     /\ req[r].other = req[r].actor => row.owner # req[r].actor
     /\ Goto(r, [req[r] EXCEPT !.pc = "assign_write", !.actor = NoUser])
     /\ UNCHANGED <<quote, offer, submitter, contracts, lock>>

CommitHandOver(r) ==
  LET q == req[r].quote
  IN /\ At(r, "assign_write")
     /\ RowFree(r, q)
     /\ quote' = [quote EXCEPT ![q].owner = req[r].other]
     /\ Finish(r)
     /\ UNCHANGED <<offer, submitter, contracts, lock>>

-----------------------------------------------------------------------------
\* Any request may end here: refused by a guard, an error, a deadlock victim, a
\* lost connection or a dead process. Its open transaction rolls back.
Fail(r) ==
  /\ ~At(r, "idle")
  /\ lock' = [q \in Quotes |-> IF lock[q] = r THEN NoRequest ELSE lock[q]]
  /\ Finish(r)
  /\ UNCHANGED <<quote, offer, submitter, contracts>>

\* Of a signed quote the migration may have marked uw_status as well.
Init ==
  /\ \E status \in InitialStatuses, u \in Creators, uw \in {"DRAFT", "SIGNED"} :
       /\ uw = "SIGNED" => status = "SIGNED"
       /\ quote = [q \in Quotes |->
            IF q = Root
            THEN [NewVersion(u, 1) EXCEPT !.status = status, !.uw = uw]
            ELSE NoRow]
  /\ offer = [q \in Quotes |-> NoOffer]
  /\ submitter = [q \in Quotes |-> NoUser]
  /\ contracts = [q \in Quotes |-> 0]
  /\ lock = [q \in Quotes |-> NoRequest]
  /\ req = [r \in Requests |-> Idle]

Submitting(r) ==
  \/ \E q \in Targets, u \in Users, nominee \in UserOrNull :
       PlanSubmission(r, q, u, nominee)
  \/ LockForSubmission(r)
  \/ CommitSubmission(r)

Declining(r) ==
  \/ \E q \in Targets, u \in Users : AuthorizeDecline(r, q, u)
  \/ LockForDecline(r)
  \/ CommitDecline(r)

Approving(r) ==
  \/ \E q \in Targets, u \in Users : ReadForApproval(r, q, u)
  \/ CheckApprover(r)
  \/ AssertApproval(r)
  \/ CommitApproval(r)

Terminating(r) ==
  \/ \E q \in Targets, u \in Users, action \in TerminalActions :
       AssertTransition(r, q, u, action)
  \/ AuthorizeTerminal(r)
  \/ CommitTerminal(r)
  \/ MirrorOffer(r)

Amending(r) ==
  \/ \E q \in Targets, u \in Users : ReadForAmendment(r, q, u)
  \/ CommitAmendment(r)
  \/ AbortedAmendment(r)
  \/ AnswerAmendment(r)

Binding(r) ==
  \/ \E q \in Targets, u \in Users : AuthorizeBind(r, q, u)
  \/ LockForBind(r)
  \/ CommitBind(r)

HandingOver(r) ==
  \/ \E q \in Targets, u \in Users, to \in Users : GuardHandOver(r, q, u, to)
  \/ ReadForHandOver(r)
  \/ CommitHandOver(r)

Next ==
  \E r \in Requests :
    Submitting(r) \/ Declining(r) \/ Approving(r) \/ Terminating(r)
      \/ Amending(r) \/ Binding(r) \/ HandingOver(r) \/ Fail(r)

Spec == Init /\ [][Next]_vars
-----------------------------------------------------------------------------
(* Properties *)

\* Every row and every request stays in its domain.
TypeOK ==
  /\ quote \in [Quotes -> QuoteRow]
  /\ offer \in [Quotes -> OfferRow]
  /\ submitter \in [Quotes -> UserOrNull]
  /\ contracts \in [Quotes -> Nat]
  /\ lock \in [Quotes -> Requests \cup {NoRequest}]
  /\ req \in [Requests -> Request]

\* Two binds never both succeed, whatever else races with them: a quote is bound
\* into at most one contract (and one Finance entry), the link on the quote says
\* so, and only a signed quote was ever bound; an amendment may supersede it.
BoundOnce ==
  \A q \in Quotes :
    /\ contracts[q] = IF quote[q].bound THEN 1 ELSE 0
    /\ quote[q].bound => quote[q].status \in {"SIGNED", "SUPERSEDED"}

\* The two handlers that read under FOR UPDATE never move a quote along an edge
\* that the status machine does not have, even though the other handlers write
\* without a lock or a condition between their own checks.
LockedMovesLegal ==
  [][\A q \in Quotes :
       /\ quote'[q].status # quote[q].status
       /\ quote'[q].status \in {"AWAITING_APPROVAL", "DECLINED"}
       => SM!IsLegal(quote[q].status, quote'[q].status)]_vars

Approves(r, q) == At(r, "approve_write") /\ req'[r].pc = "mirror"
                    /\ req[r].quote = q

\* What is left of four eyes when everything races: no handler but approveQuote
\* takes a quote to its signed line, and its actor is never the creator.
CreatorNeverApproves ==
  [][\A q \in Quotes :
       quote'[q].status = "AWAITING_SIGNED_LINE"
         /\ quote[q].status # "AWAITING_SIGNED_LINE" =>
           \E r \in Requests :
             Approves(r, q) /\ req[r].actor # quote[q].creator]_vars

\* ---- one request at a time ----

\* A chain of versions with one live end, which follows the status machine.
FamilyRefinement == Family!Spec

\* The newest version is the live one, versions are numbered without a gap, and
\* a version that has been superseded never comes back.
NewestIsLive ==
  /\ {quote[q].version : q \in Existing} = 1..Cardinality(Existing)
  /\ \A q \in Existing :
       quote[q].status # "SUPERSEDED" <=> quote[q].version = Cardinality(Existing)

\* Whoever takes a quote to its signed line is neither its creator nor the one
\* who submitted it last, also after it has changed hands ("the submitter must
\* never self-approve"): true as long as the event table can be read.
ApproverIndependent ==
  [][\A q \in Quotes, r \in Requests :
       Approves(r, q) =>
         req[r].actor \notin {quote[q].creator, submitter[q]}]_vars

\* The offer row tells the story of its quote: a pending quote has a pending
\* offer, an offer closed, returned or recalled is one of a quote that is so too.
\* A lost mirror (Fail) may leave the offer behind, never ahead.
OfferFollows ==
  \A q \in Existing :
    /\ quote[q].status = "AWAITING_APPROVAL" =>
         offer[q].status = "AWAITING_APPROVAL"
    /\ quote[q].status = "DECLINED" => offer[q].status \in {"ABSENT", "DECLINED"}
    /\ offer[q].status \in {"NTU", "DECLINED"} =>
         quote[q].status = offer[q].status
    /\ offer[q].status \in {"RETURNED", "RECALLED"} =>
         quote[q].status \in {"DRAFT", "SUPERSEDED"}

\* ---- what a comment says and the code does not keep ----

\* "Audit-event tables are best-effort: a transient failure here shouldn't roll
\* back a valid business operation": an amendment answered with 201 exists.
AmendmentsKept ==
  [][\A r \in Requests :
       At(r, "amend_write") /\ req'[r].pc = "amended" =>
         Existing' # Existing]_vars

\* "Once an item has moved past DRAFT its ownership is frozen".
OwnershipFrozen ==
  [][\A q \in Existing :
       quote'[q].owner # quote[q].owner => quote[q].status = "DRAFT"]_vars
=============================================================================
