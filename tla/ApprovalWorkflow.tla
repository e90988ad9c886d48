-------------------------- MODULE ApprovalWorkflow --------------------------
(***************************************************************************)
(* The treaty approval engine: one contract row, its contract_offer row,   *)
(* and the HTTP requests that race on them.                                *)
(*                                                                         *)
(*   server/src/services/approvals.js      submit, peer and arbiter        *)
(*                                         decisions, sign, NTU, return,   *)
(*                                         recall                          *)
(*   server/src/services/workflow.js       changeUwStatus                  *)
(*   server/src/modules/pricing/...        saveOffer (replaceOffer) and    *)
(*                                         decline (markDeclined)          *)
(*   server/src/routes/treaties.js         the header of a treaty save     *)
(*                                                                         *)
(* A request reads on the pool (committed data, no lock, one await after   *)
(* another), keeps what it read, and then runs a transaction. The database *)
(* is READ COMMITTED: a transaction that reads nothing inside is one       *)
(* action, taken when it holds its row locks; submit, decline and          *)
(* saveOffer read inside theirs without a lock, so those reads are steps   *)
(* of their own. Every refusal (4xx), error, deadlock victim or crash ends *)
(* a request with no effect: that is the action Fail.                      *)
(***************************************************************************)
EXTENDS Naturals

CONSTANTS
  Users,          \* everybody who may act
  Owners,         \* those who may hold the treaty's assignment (edit lock)
  Level,          \* hierarchy_level of a user's role, 1 (CE) .. 5 (AN)
  Routings,       \* the approver sets planSubmission may yield as the roster,
                  \* the mandates and the treaty's figures change
  Requests,       \* concurrent requests the server has in flight
  Lines,          \* line percentages a user enters
  InitialOffers,  \* offer statuses a fresh treaty may have: ABSENT, PENDING
  Headers,        \* header payloads that treaty saves carry: the statuses, or
                  \* "NONE", and the signed line, or 0, of a form that may be
                  \* long out of date
  MaxSubmissions, \* bound on the number of submissions
  NoUser,         \* SQL NULL in a user column
  NoRequest       \* the offer row is not locked

ASSUME UsersAssumption   == NoUser \notin Users /\ Owners \subseteq Users
ASSUME LevelAssumption   == Level \in [Users -> 1..5]
ASSUME RoutingAssumption ==
  /\ Routings # {}
  /\ Routings \subseteq SUBSET {u \in Users : Level[u] <= 4}
ASSUME RequestAssumption == NoRequest \notin Requests
ASSUME BoundAssumption   == MaxSubmissions \in Nat /\ Lines \subseteq Nat \ {0}
ASSUME InitialAssumption == InitialOffers \subseteq {"ABSENT", "PENDING"}

VARIABLES
  contract,   \* the contract row: uw_status, its mirror `status`, signed line,
              \* and whether Finance holds an entry for it
  offer,      \* the contract_offer row
  decisions,  \* approval_decision, keyed (request_id, decided_by)
  routing,    \* the approver set a live planSubmission would yield now
  lock,       \* the request whose open transaction holds the offer row
  req,        \* what each request has read so far
  subs        \* history: number of submissions so far

vars == <<contract, offer, decisions, routing, lock, req, subs>>

SM == INSTANCE StatusMachine WITH status <- contract.uw
-----------------------------------------------------------------------------
(* Data *)

\* PRIVILEGED_CONTRACT_STATUSES (less BOUND, which no treaty reaches) and
\* COMMERCIAL_CONTRACT_STATUSES of routes/treaties.js.
Privileged == {"APPROVED", "AWAITING_SIGNED_LINE", "SIGNED"}
Commercial == {"QUOTED", "OFFERED", "RENEWED", "CANCELLED"}

Verdicts   == {"APPROVED", "DECLINED"}
UwStatus   == SM!UwStatuses \cup {SM!Dispute}
Mirror     == SM!UwStatuses \cup Commercial
OfferStatus ==
  {"ABSENT", "PENDING", "AWAITING_APPROVAL", "AWAITING_SIGNED_LINE",
   "DISPUTE_PENDING", "RETURNED", "SIGNED", "NTU", "DECLINED"}
UserOrNull == Users \cup {NoUser}
Decision   == Verdicts \cup {"NONE"}
LineOrNull == Lines \cup {0}

ASSUME HeaderAssumption ==
  Headers \subseteq [uw : SM!UwStatuses \cup {"NONE"},
                     status : Mirror \cup {"NONE"}, line : LineOrNull]

\* `sub` and `fresh` are history: the submission the row belongs to (0: none),
\* and whether every decision on it came from a request that had read that very
\* submission.
Offer ==
  [status : OfferStatus, step : 0..1, submitter : UserOrNull,
   opts : SUBSET Users, line : LineOrNull,
   p1 : UserOrNull, p1d : Decision, p2 : UserOrNull, p2d : Decision,
   arb : UserOrNull, arbd : Decision,
   sub : Nat, fresh : BOOLEAN]

NewOffer(status, step, submitter, opts, line, sub) ==
  [status |-> status, step |-> step, submitter |-> submitter, opts |-> opts,
   line |-> line, p1 |-> NoUser, p1d |-> "NONE", p2 |-> NoUser,
   p2d |-> "NONE", arb |-> NoUser, arbd |-> "NONE", sub |-> sub, fresh |-> TRUE]

NoDecisions == [u \in Users |-> "NONE"]

PcLabels ==
  {"idle", "submit_upsert", "submit_write", "peer_route", "peer_claim",
   "arbiter_claim", "terminal_auth", "sign_line", "terminal_write",
   "ntu_mirror", "decline_read", "decline_write", "replace_check",
   "replace_write"}

OfferLoaded == {"peer_route", "peer_claim", "arbiter_claim"}

TerminalActions == {"SIGN", "NTU", "RETURN", "RECALL"}

\* Mutant: an open dispute may be dropped as not taken up.
NtuFromDispute(action) ==
  CASE action = "SIGN" -> {"AWAITING_SIGNED_LINE"}
    [] action = "NTU"  -> {"AWAITING_SIGNED_LINE", "DISPUTE_PENDING"}
    [] action \in {"RETURN", "RECALL"} ->
         {"AWAITING_APPROVAL", "AWAITING_SIGNED_LINE", "DISPUTE_PENDING"}

\* TERMINAL_ACTIONS: the prior states each action accepts.
PriorStates(action) ==
  CASE action \in {"SIGN", "NTU"}      -> {"AWAITING_SIGNED_LINE"}
    [] action \in {"RETURN", "RECALL"} ->
         {"AWAITING_APPROVAL", "AWAITING_SIGNED_LINE", "DISPUTE_PENDING"}

\* What a request carries across its awaits. `held` says that the offer_id it
\* loaded still names the row: a replaced offer has a new one.
Request ==
  [pc : PcLabels, action : TerminalActions \cup {"NONE"}, actor : UserOrNull,
   dec : Decision, from : UwStatus \cup {"NONE"}, opts : SUBSET Users,
   submitter : UserOrNull, p1 : UserOrNull, p1d : Decision,
   line : LineOrNull, sub : Nat, held : BOOLEAN]

Idle == [pc |-> "idle", action |-> "NONE", actor |-> NoUser, dec |-> "NONE",
         from |-> "NONE", opts |-> {}, submitter |-> NoUser, p1 |-> NoUser,
         p1d |-> "NONE", line |-> 0, sub |-> 0, held |-> TRUE]

\* The request r, idle or at `pc`, goes on with the record `now`.
At(r, pc)    == req[r].pc = pc
Goto(r, now) == req' = [req EXCEPT ![r] = now]
Finish(r)    == Goto(r, Idle)

-----------------------------------------------------------------------------
(* Routing and authority *)

\* getEligibleApprovers over the live roster: the submitter is never in it.
\* Without a submitter there is no mandate to plan from, hence nobody.
Eligible(submitter) ==
  IF submitter = NoUser THEN {} ELSE routing \ {submitter}

FinalAuthority(u) == Level[u] <= 2      \* FINAL_AUTH: CE, CU, CA
ArbiterTier(u)    == Level[u] <= 3      \* ARBITER_MAX_LEVEL

Verdict(dec) ==
  IF dec = "APPROVED" THEN "AWAITING_SIGNED_LINE" ELSE "DECLINED"

\* Mutant: a final authority in a split does not override the other peer.
NoOverride(actor, dec, p1, p1d) ==
  IF p1d = dec THEN Verdict(dec) ELSE "DISPUTE_PENDING"

\* applyPeerOutcome. The second form works on the p1, p1d the request LOADED.
Peer1Outcome(actor, dec) ==
  IF FinalAuthority(actor) THEN Verdict(dec) ELSE "AWAITING_APPROVAL"

Peer2Outcome(actor, dec, p1, p1d) ==
  IF p1d = dec               THEN Verdict(dec)
  ELSE IF FinalAuthority(p1)    THEN Verdict(p1d)
  ELSE IF FinalAuthority(actor) THEN Verdict(dec)
  ELSE "DISPUTE_PENDING"

\* Mutant: the mirror takes states that contract_status does not have.
MirrorEverything(row, to) == [row EXCEPT !.uw = to, !.status = to]

\* changeUwStatus: uw_status always, the mirror only for a contract_status
\* value. The UPDATE names the contract id alone, never the state it leaves.
Moved(row, to) ==
  [row EXCEPT !.uw = to, !.status = IF to = SM!Dispute THEN @ ELSE to]
ChangeUwStatus(to) == Moved(contract, to)

\* Mutant: recordApprovalDecision keeps an earlier decision of the same user.
KeepFirstDecision(u, dec) ==
  IF decisions[u] = "NONE" THEN [decisions EXCEPT ![u] = dec] ELSE decisions

\* recordApprovalDecision upserts on (request_id, decided_by).
RecordDecision(u, dec) == [decisions EXCEPT ![u] = dec]

\* Mutants: the row lock is ignored (a check without FOR UPDATE); a statement
\* inside a transaction goes to the pool and waits for the lock of its own.
NoRowLock(r)    == lock \in Requests \cup {NoRequest}
OnThePool(r)    == lock = NoRequest
NotMirrored(status) == offer

\* A statement on the offer row waits for the transaction that holds it. An
\* UPDATE or DELETE by contract_id that finds no committed row waits for nobody.
OfferFree(r)     == lock \in {NoRequest, r}
OfferWritable(r) == offer.status = "ABSENT" \/ OfferFree(r)
Mirrored(status) ==
  IF offer.status = "ABSENT" THEN offer ELSE [offer EXCEPT !.status = status]

-----------------------------------------------------------------------------
(* submitForApproval *)

\* The edit lock found u to be the assignee and the plan was computed on the
\* pool; when planning itself fails the submit goes on with no approver at all.
PlanSubmission(r, u, line) ==
  /\ At(r, "idle")
  /\ u \in Owners
  /\ \E opts \in {Eligible(u), {}} :
       Goto(r, [Idle EXCEPT !.pc = "submit_upsert", !.actor = u,
                            !.opts = opts, !.line = line])
  /\ UNCHANGED <<contract, offer, decisions, routing, lock, subs>>

\* INSERT .. ON CONFLICT: the row, or its unique key, is ours until COMMIT. The
\* same transaction then reads uw_status with a plain SELECT.
UpsertOffer(r) ==
  /\ At(r, "submit_upsert")
  /\ OfferFree(r)
  /\ SM!PassesGuard(contract.uw, "AWAITING_APPROVAL")
  /\ subs < MaxSubmissions
  /\ lock' = r
  /\ Goto(r, [req[r] EXCEPT !.pc = "submit_write", !.from = contract.uw])
  /\ UNCHANGED <<contract, offer, decisions, routing, subs>>

\* changeUwStatus writes over whatever the contract has become since the SELECT.
CommitSubmission(r) ==
  /\ At(r, "submit_write")
  /\ offer' = NewOffer("AWAITING_APPROVAL", 1, req[r].actor, req[r].opts,
                       req[r].line, subs + 1)
  /\ decisions' = IF offer.status = "ABSENT" THEN NoDecisions ELSE decisions
  /\ contract' = ChangeUwStatus("AWAITING_APPROVAL")
  /\ subs' = subs + 1
  /\ lock' = NoRequest
  /\ Finish(r)
  /\ UNCHANGED routing

-----------------------------------------------------------------------------
(* recordDecision: peer1, peer2, arbiter *)

\* loadOfferById and its guards; recordPeerDecision has just picked the slot
\* from the same columns, and any change in between fails one of these guards.
LoadOffer(r, u, dec) ==
  /\ At(r, "idle")
  /\ offer.status = "AWAITING_APPROVAL"
  /\ offer.p1d = "NONE" \/ offer.p2d = "NONE"
  /\ u \notin {offer.submitter, offer.p1}
  /\ Goto(r, [Idle EXCEPT !.pc = "peer_route", !.actor = u, !.dec = dec,
                          !.opts = offer.opts, !.submitter = offer.submitter,
                          !.p1 = offer.p1, !.p1d = offer.p1d,
                          !.sub = offer.sub])
  /\ UNCHANGED <<contract, offer, decisions, routing, lock, subs>>

\* deriveLiveApproverOptions: the live set must equal the stored one.
CheckRouting(r) ==
  /\ At(r, "peer_route")
  /\ Eligible(req[r].submitter) = req[r].opts
  /\ req[r].actor \in req[r].opts
  /\ Goto(r, [req[r] EXCEPT !.pc = "peer_claim", !.opts = {},
                            !.submitter = NoUser])
  /\ UNCHANGED <<contract, offer, decisions, routing, lock, subs>>

\* Mutants: the slot is not checked; one person may take both; order is free.
Peer1Unchecked(u) ==
  offer.status = "AWAITING_APPROVAL" /\ u \in offer.opts
Peer2SamePeer(u) ==
  /\ offer.status = "AWAITING_APPROVAL" /\ u \in offer.opts
  /\ offer.p2 = NoUser /\ offer.p2d = "NONE" /\ offer.p1d # "NONE"
Peer2First(u) ==
  /\ offer.status = "AWAITING_APPROVAL" /\ u \in offer.opts
  /\ offer.p2 = NoUser /\ offer.p2d = "NONE" /\ offer.p1 # u

\* The WHERE clauses of claimPeerSlot.
Peer1Open(u) ==
  /\ offer.status = "AWAITING_APPROVAL" /\ u \in offer.opts
  /\ offer.p1 = NoUser /\ offer.p1d = "NONE"
Peer2Open(u) ==
  /\ offer.status = "AWAITING_APPROVAL" /\ u \in offer.opts
  /\ offer.p2 = NoUser /\ offer.p2d = "NONE"
  /\ offer.p1d # "NONE" /\ offer.p1 # u

\* claimPeerSlot's conditional UPDATE, then applyPeerOutcome, which decides on
\* the p1d that was loaded and writes both statuses unconditionally.
ClaimPeer1(r) ==
  LET me == req[r]
      outcome == Peer1Outcome(me.actor, me.dec)
  IN /\ At(r, "peer_claim")
     /\ me.p1d = "NONE"
     /\ OfferFree(r) /\ me.held
     /\ Peer1Open(me.actor)
     /\ offer' = [offer EXCEPT !.status = outcome, !.p1 = me.actor,
                               !.p1d = me.dec,
                               !.fresh = @ /\ me.sub = offer.sub]
     /\ decisions' = RecordDecision(me.actor, me.dec)
     /\ contract' = ChangeUwStatus(outcome)
     /\ Finish(r)
     /\ UNCHANGED <<routing, lock, subs>>

ClaimPeer2(r) ==
  LET me == req[r]
      outcome == Peer2Outcome(me.actor, me.dec, me.p1, me.p1d)
  IN /\ At(r, "peer_claim")
     /\ me.p1d # "NONE"
     /\ OfferFree(r) /\ me.held
     /\ Peer2Open(me.actor)
     /\ offer' = [offer EXCEPT !.status = outcome, !.p2 = me.actor,
                               !.p2d = me.dec,
                               !.fresh = @ /\ me.sub = offer.sub]
     /\ decisions' = RecordDecision(me.actor, me.dec)
     /\ contract' = ChangeUwStatus(outcome)
     /\ Finish(r)
     /\ UNCHANGED <<routing, lock, subs>>

\* recordArbiterSlot: its guards look at the offer loaded before the
\* transaction, its UPDATE at status and arbiter_user_id only.
LoadDispute(r, u, dec) ==
  /\ At(r, "idle")
  /\ offer.status = "DISPUTE_PENDING"
  /\ u \notin {offer.submitter, offer.p1, offer.p2}
  /\ ArbiterTier(u)
  /\ Goto(r, [Idle EXCEPT !.pc = "arbiter_claim", !.actor = u, !.dec = dec,
                          !.sub = offer.sub])
  /\ UNCHANGED <<contract, offer, decisions, routing, lock, subs>>

ClaimArbiter(r) ==
  LET me == req[r]
      outcome == Verdict(me.dec)
  IN /\ At(r, "arbiter_claim")
     /\ OfferFree(r) /\ me.held
     /\ offer.status = "DISPUTE_PENDING" /\ offer.arb = NoUser
     /\ offer' = [offer EXCEPT !.status = outcome, !.arb = me.actor,
                               !.arbd = me.dec,
                               !.fresh = @ /\ me.sub = offer.sub]
     /\ decisions' = RecordDecision(me.actor, me.dec)
     /\ contract' = ChangeUwStatus(outcome)
     /\ Finish(r)
     /\ UNCHANGED <<routing, lock, subs>>

-----------------------------------------------------------------------------
(* assertWorkflowTransition and the four terminal actions *)

\* The status read of assertWorkflowTransition (pool, verify only).
AssertTransition(r, u, action, line) ==
  /\ At(r, "idle")
  /\ contract.uw \in PriorStates(action)
  /\ line # 0 => action = "SIGN"
  /\ Goto(r, [Idle EXCEPT !.pc = "terminal_auth", !.action = action,
                          !.actor = u, !.from = contract.uw, !.line = line])
  /\ UNCHANGED <<contract, offer, decisions, routing, lock, subs>>

\* authorizeTerminalAction: loadTerminalContext and the live approver set.
Authorized(u, action) ==
  CASE action \in {"SIGN", "RETURN"} -> u \in Eligible(offer.submitter)
    [] action = "NTU"    -> u \in Owners \cup Eligible(offer.submitter)
    [] action = "RECALL" -> u = offer.submitter

AuthorizeTerminal(r) ==
  /\ At(r, "terminal_auth")
  /\ Authorized(req[r].actor, req[r].action)
  /\ Goto(r, [req[r] EXCEPT
       !.pc = IF req[r].action = "SIGN" THEN "sign_line" ELSE "terminal_write"])
  /\ UNCHANGED <<contract, offer, decisions, routing, lock, subs>>

\* Mutant: the signed line is only checked to be a percentage.
AnyPercentage(line) == line \in LineOrNull

LineAllowed(line) == offer.line # 0 => line <= offer.line

\* markContractSigned's line check reads the written line once more.
CheckSignedLine(r) ==
  /\ At(r, "sign_line")
  /\ LineAllowed(req[r].line)
  /\ Goto(r, [req[r] EXCEPT !.pc = "terminal_write"])
  /\ UNCHANGED <<contract, offer, decisions, routing, lock, subs>>

\* changeUwStatus checks the edge from the state that was read, not from the
\* state the row is in by now.
Writes(r, action, to) ==
  /\ At(r, "terminal_write")
  /\ req[r].action = action
  /\ SM!PassesGuard(req[r].from, to)

\* The signing transaction: status, line, offer mirror and Finance entry.
Sign(r) ==
  /\ Writes(r, "SIGN", "SIGNED")
  /\ OfferWritable(r)
  /\ contract' = [ChangeUwStatus("SIGNED") EXCEPT !.line = req[r].line,
                                                  !.financed = TRUE]
  /\ offer' = IF offer.status = "ABSENT" THEN offer
              ELSE [offer EXCEPT !.status = "SIGNED",
                                 !.line = IF @ = 0 THEN req[r].line ELSE @]
  /\ Finish(r)
  /\ UNCHANGED <<decisions, routing, lock, subs>>

\* The NTU transaction touches the contract only; the offer mirror follows on
\* the pool after COMMIT and may get lost (Fail).
MarkNotTakenUp(r) ==
  /\ Writes(r, "NTU", "NTU")
  /\ contract' = ChangeUwStatus("NTU")
  /\ Goto(r, [Idle EXCEPT !.pc = "ntu_mirror"])
  /\ UNCHANGED <<offer, decisions, routing, lock, subs>>

MirrorNtu(r) ==
  /\ At(r, "ntu_mirror")
  /\ OfferWritable(r)
  /\ offer' = Mirrored("NTU")
  /\ Finish(r)
  /\ UNCHANGED <<contract, decisions, routing, lock, subs>>

\* RESET_CONTRACT_OFFER clears every slot and keeps submitter, options, line.
ResetOffer ==
  [offer EXCEPT !.status = "RETURNED", !.step = 0, !.p1 = NoUser,
                !.p1d = "NONE", !.p2 = NoUser, !.p2d = "NONE",
                !.arb = NoUser, !.arbd = "NONE"]

SendBack(r) ==
  /\ Writes(r, "RETURN", "DRAFT") \/ Writes(r, "RECALL", "DRAFT")
  /\ OfferWritable(r)
  /\ offer' = IF offer.status = "ABSENT" THEN offer ELSE ResetOffer
  /\ contract' = ChangeUwStatus("DRAFT")
  /\ Finish(r)
  /\ UNCHANGED <<decisions, routing, lock, subs>>

-----------------------------------------------------------------------------
(* declineTreatyAction / markDeclined *)

\* getTerminalPermissions.can_ntu, on the pool.
AuthorizeDecline(r, u) ==
  /\ At(r, "idle")
  /\ Authorized(u, "NTU")
  /\ Goto(r, [Idle EXCEPT !.pc = "decline_read", !.actor = u])
  /\ UNCHANGED <<contract, offer, decisions, routing, lock, subs>>

\* markDeclined reads the status inside its transaction, without FOR UPDATE.
ReadForDecline(r) ==
  /\ At(r, "decline_read")
  /\ SM!IsLegal(contract.uw, "DECLINED")
  /\ Goto(r, [req[r] EXCEPT !.pc = "decline_write", !.from = contract.uw])
  /\ UNCHANGED <<contract, offer, decisions, routing, lock, subs>>

CommitDecline(r) ==
  /\ At(r, "decline_write")
  /\ OfferWritable(r)
  /\ contract' = ChangeUwStatus("DECLINED")
  /\ offer' = Mirrored("DECLINED")
  /\ Finish(r)
  /\ UNCHANGED <<decisions, routing, lock, subs>>

-----------------------------------------------------------------------------
(* saveOfferAction / replaceOffer *)

\* Edit lock, BEGIN, then the unlocked status read and its guard.
ReadForReplace(r, u, line) ==
  /\ At(r, "idle")
  /\ u \in Owners
  /\ SM!IsLegal(contract.uw, "AWAITING_APPROVAL")
  /\ Goto(r, [Idle EXCEPT !.pc = "replace_check", !.actor = u,
                          !.line = line])
  /\ UNCHANGED <<contract, offer, decisions, routing, lock, subs>>

\* Mutant: the guard is left to the status of the contract.
AnyOffer == offer.status \in OfferStatus

Replaceable == offer.status \in {"PENDING", "RETURNED"} /\ offer.step = 0

\* SELECT .. FOR UPDATE: locks the row if there is one, and nothing otherwise.
LockForReplace(r) ==
  /\ At(r, "replace_check")
  /\ IF offer.status = "ABSENT"
       THEN lock' = lock
       ELSE OfferFree(r) /\ Replaceable /\ lock' = r
  /\ Goto(r, [req[r] EXCEPT !.pc = "replace_write"])
  /\ UNCHANGED <<contract, offer, decisions, routing, subs>>

\* DELETE whatever row is there by now, INSERT a fresh one with a new offer id.
CommitReplace(r) ==
  /\ At(r, "replace_write")
  /\ OfferFree(r)
  /\ offer' = NewOffer("PENDING", 0, NoUser, {}, req[r].line, 0)
  /\ decisions' = NoDecisions
  /\ contract' = [contract EXCEPT !.status = "OFFERED"]
  /\ lock' = NoRequest
  /\ req' = [q \in Requests |->
        IF q = r THEN Idle
        ELSE [req[q] EXCEPT !.held = @ /\ req[q].pc \notin OfferLoaded]]
  /\ UNCHANGED <<routing, subs>>

-----------------------------------------------------------------------------
(* PUT /treaties/:id *)

\* Mutant: any move the machine allows, the engine's own ones included.
AnyLegalMove(from, to) == SM!PassesGuard(from, to)

\* The engine's states are out of reach; changeUwStatus guards the rest.
HeaderMove(from, to) ==
  to \in {from} \cup (SM!UwStatuses \ Privileged) /\ SM!PassesGuard(from, to)

\* One transaction that holds the contract row from its first UPDATE on: the
\* signed line, then uw_status, then the mirror `status`, which is a canonical
\* move of its own or a commercial label. The offer row is not touched.
EditHeader(u, h) ==
  LET lined == [contract EXCEPT !.line = IF h.line = 0 THEN @ ELSE h.line]
      moved == IF h.uw = "NONE" THEN lined ELSE Moved(lined, h.uw)
  IN /\ u \in Owners
     /\ h.uw = "NONE" \/ HeaderMove(contract.uw, h.uw)
     /\ \/ /\ h.status \in {"NONE", moved.status}
           /\ contract' = moved
        \/ /\ h.status \in SM!UwStatuses \ (Privileged \cup {moved.status})
           /\ SM!PassesGuard(moved.uw, h.status)
           /\ contract' = Moved(moved, h.status)
        \/ /\ h.status \in Commercial \ {moved.status}
           /\ moved.uw \notin SM!Terminal
           /\ contract' = [moved EXCEPT !.status = h.status]
     /\ UNCHANGED <<offer, decisions, routing, lock, req, subs>>

-----------------------------------------------------------------------------
(* Refusals, crashes and the world outside *)

\* Any request may end here: refused by a guard, an error, a deadlock victim,
\* a lost connection or a dead process. Its open transaction rolls back.
Fail(r) ==
  /\ ~At(r, "idle")
  /\ lock' = IF lock = r THEN NoRequest ELSE lock
  /\ Finish(r)
  /\ UNCHANGED <<contract, offer, decisions, routing, subs>>

\* Users, mandates, exclusions and programme figures change under the engine.
Reroute ==
  /\ \E set \in Routings \ {routing} : routing' = set
  /\ UNCHANGED <<contract, offer, decisions, lock, req, subs>>

Init ==
  /\ contract = [uw |-> "DRAFT", status |-> "DRAFT", line |-> 0,
                 financed |-> FALSE]
  /\ \E status \in InitialOffers :
       offer = NewOffer(status, 0, NoUser, {}, 0, 0)
  /\ decisions = NoDecisions
  /\ routing \in Routings
  /\ lock = NoRequest
  /\ req = [r \in Requests |-> Idle]
  /\ subs = 0

Submitting(r) ==
  \/ \E u \in Users, line \in LineOrNull : PlanSubmission(r, u, line)
  \/ UpsertOffer(r)
  \/ CommitSubmission(r)

Deciding(r) ==
  \/ \E u \in Users, dec \in Verdicts : LoadOffer(r, u, dec)
  \/ CheckRouting(r)
  \/ ClaimPeer1(r)
  \/ ClaimPeer2(r)
  \/ \E u \in Users, dec \in Verdicts : LoadDispute(r, u, dec)
  \/ ClaimArbiter(r)

Terminating(r) ==
  \/ \E u \in Users, action \in TerminalActions, line \in LineOrNull :
       AssertTransition(r, u, action, line)
  \/ AuthorizeTerminal(r)
  \/ CheckSignedLine(r)
  \/ Sign(r)
  \/ MarkNotTakenUp(r)
  \/ MirrorNtu(r)
  \/ SendBack(r)

Declining(r) ==
  \/ \E u \in Users : AuthorizeDecline(r, u)
  \/ ReadForDecline(r)
  \/ CommitDecline(r)

Replacing(r) ==
  \/ \E u \in Users, line \in LineOrNull : ReadForReplace(r, u, line)
  \/ LockForReplace(r)
  \/ CommitReplace(r)

Next ==
  \/ \E r \in Requests :
       Submitting(r) \/ Deciding(r) \/ Terminating(r) \/ Declining(r)
         \/ Replacing(r) \/ Fail(r)
  \/ \E u \in Users, h \in Headers : EditHeader(u, h)
  \/ Reroute

Spec == Init /\ [][Next]_vars
-----------------------------------------------------------------------------
(* Properties *)

\* Every row and every request stays in its domain.
TypeOK ==
  /\ contract \in [uw : UwStatus, status : Mirror, line : LineOrNull,
                   financed : BOOLEAN]
  /\ offer \in Offer
  /\ decisions \in [Users -> Decision]
  /\ routing \in Routings
  /\ lock \in Requests \cup {NoRequest}
  /\ req \in [Requests -> Request]
  /\ subs \in Nat

\* Four eyes: the submitter never sits in a peer slot, one person never sits in
\* both, and whoever sits in one was on the list stored with the submission.
\* Every check recordDecision makes before its transaction may be stale by then;
\* claimPeerSlot's WHERE clause is what is left.
SeparationOfDuties ==
  /\ offer.submitter \notin {offer.p1, offer.p2} \/ offer.submitter = NoUser
  /\ offer.p1 = offer.p2 => offer.p1 = NoUser
  /\ {offer.p1, offer.p2} \ {NoUser} \subseteq offer.opts

\* The slots fill in order, with a verdict each: no second opinion without a
\* first, no arbiter without a second, and an offer in dispute has both peers'
\* verdicts and is still open for its arbiter.
SlotsInOrder ==
  /\ (offer.p1 = NoUser) = (offer.p1d = "NONE")
  /\ (offer.p2 = NoUser) = (offer.p2d = "NONE")
  /\ (offer.arb = NoUser) = (offer.arbd = "NONE")
  /\ offer.p2 # NoUser => offer.p1 # NoUser
  /\ offer.arb # NoUser => offer.p2 # NoUser
  /\ offer.status = "DISPUTE_PENDING" =>
       offer.p2 # NoUser /\ offer.arb = NoUser
  /\ offer.status = "AWAITING_APPROVAL" => offer.p2 = NoUser

\* When every decision was made on the submission it had read, the outcome is
\* the five-tier rule of applyPeerOutcome: an offer gets to its signed line by
\* a final authority, by two peers who agree or by an arbiter, a dispute is a
\* split between two peers below final authority, and the arbiter is a third
\* party of the right tier.
DecisionRule ==
  offer.fresh =>
    /\ offer.status = "AWAITING_SIGNED_LINE" =>
         \/ offer.p1d = "APPROVED" /\ FinalAuthority(offer.p1)
         \/ offer.p2d = "APPROVED" /\ FinalAuthority(offer.p2)
         \/ offer.p1d = "APPROVED" /\ offer.p2d = "APPROVED"
         \/ offer.arbd = "APPROVED"
    /\ offer.arb # NoUser \/ offer.status = "DISPUTE_PENDING" =>
         /\ offer.p1d # offer.p2d
         /\ ~FinalAuthority(offer.p1) /\ ~FinalAuthority(offer.p2)
    /\ offer.arb # NoUser =>
         /\ ArbiterTier(offer.arb)
         /\ offer.arb \notin {offer.submitter, offer.p1, offer.p2}

\* approval_decision is the record of truth: unless a stale decision came in,
\* it says of everybody in a slot what the slot says.
RecordAgrees ==
  offer.fresh =>
    /\ offer.p1 # NoUser => decisions[offer.p1] = offer.p1d
    /\ offer.p2 # NoUser => decisions[offer.p2] = offer.p2d
    /\ offer.arb # NoUser => decisions[offer.arb] = offer.arbd

\* A treaty in approval can always be recalled: with an offer row saved before
\* the first submission, no race of saveOffer, submit and the terminal actions
\* leaves a pending treaty with no submitter on record.
PendingRecoverable ==
  contract.uw \in PriorStates("RECALL") =>
    offer.status # "ABSENT" /\ offer.submitter \in Users

Slots == <<<<offer.p1, offer.p1d>>, <<offer.p2, offer.p2d>>,
           <<offer.arb, offer.arbd>>>>
EmptySlot == <<NoUser, "NONE">>

SlotStep ==
  \/ \A i \in 1..3 : Slots'[i] = EmptySlot
  \/ \E i \in 1..3 :
       /\ \A j \in 1..3 \ {i} : Slots'[j] = Slots[j]
       /\ Slots[i] \in {EmptySlot, Slots'[i]}

\* A filled slot is never overwritten, however many approvers race for it, and
\* two are never filled at once: the slot keeps its user and verdict until a
\* submission, return or replacement empties all three.
SlotsNeverRewritten == [][SlotStep]_vars

ApprovalStep ==
  contract.uw' = "AWAITING_SIGNED_LINE" /\ contract.uw # contract.uw' =>
    /\ offer.status' = "AWAITING_SIGNED_LINE"
    /\ \E i \in 1..3 : Slots[i] = EmptySlot /\ Slots'[i][2] = "APPROVED"

\* A treaty enters AWAITING_SIGNED_LINE only together with its offer and in a
\* step that records an APPROVED verdict in a slot: no other handler leads
\* there, no edit of the header, and no outcome computed from a stale verdict.
Provenance == [][ApprovalStep]_vars

\* ---- one request at a time: what the code promises when nothing races and
\* ---- no header edit moves uw_status behind the back of the offer

\* The treaty and its offer tell one story: each pending state is the state of
\* both, no decided offer belongs to a draft, and a terminal treaty has its
\* mirror and offer in the same state (the NTU mirror may be lost or late).
RowsAgree ==
  /\ \A s \in {"AWAITING_APPROVAL", "DISPUTE_PENDING", "SIGNED"} :
       contract.uw = s <=> offer.status = s
  /\ contract.uw = "AWAITING_SIGNED_LINE" =>
       offer.status = "AWAITING_SIGNED_LINE"
  /\ contract.uw = "DRAFT" => offer.status \in {"ABSENT", "PENDING", "RETURNED"}
  /\ contract.uw \in SM!Terminal => contract.status = contract.uw
  /\ contract.financed <=> contract.uw = "SIGNED"

\* The signed line of a signed treaty never exceeds the written line that was
\* approved, when one is on record.
SignedWithinWritten ==
  contract.uw = "SIGNED" /\ offer.line # 0 => contract.line <= offer.line

\* The lifecycle the code implements, one request at a time, is the machine
\* that lib/statusMachine.js declares (terminal states included), plus the
\* dispute state of the engine.
StatusRefinement == SM!Spec

\* "Never destroy an approval in flight": saveOffer leaves a submitted offer
\* alone until a return or a recall has reset it.
ApprovalNeverDestroyed ==
  [][offer.status \in {"AWAITING_APPROVAL", "DISPUTE_PENDING"} =>
       offer.status' # "PENDING"]_vars

\* ---- what a comment says and the code does not keep ----

\* "SIGNED / NTU / DECLINED : terminal - no outbound edges".
TerminalIsFinal ==
  [][contract.uw \in SM!Terminal => contract.uw' = contract.uw]_vars

\* "The arbiter must be a THIRD party".
ArbiterIsThirdParty ==
  offer.arb # NoUser => offer.arb \notin {offer.p1, offer.p2}

-----------------------------------------------------------------------------
(* Progress *)

\* Once the statement that waits for it is granted, COMMIT follows: the two
\* transactions that hold the offer row across an await go on to their end.
FairSpec ==
  Spec /\ \A r \in Requests : WF_vars(CommitSubmission(r) \/ CommitReplace(r))

\* The row lock is always given back: neither transaction ever waits for the
\* other one, or for a state that a third request took away meanwhile.
LockReleased == \A r \in Requests : lock = r ~> lock = NoRequest
=============================================================================
