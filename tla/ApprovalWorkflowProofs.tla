----------------------- MODULE ApprovalWorkflowProofs -----------------------
(***************************************************************************)
(* What holds of the approval engine for every set of users, requests,     *)
(* lines and routings: its type invariant, the order of the slots, the     *)
(* separation of duties, that a filled slot is never overwritten and that  *)
(* the outcome follows the five-tier rule; what the row lock of saveOffer  *)
(* is good for once there is a row; and, when nothing races, that the      *)
(* engine implements StatusMachine and keeps its two rows in step.         *)
(***************************************************************************)
EXTENDS ApprovalWorkflow, TLAPS

(* What a request still knows when it reaches its write. *)

\* A submission carries no list that names its own submitter, and a decision
\* carries a verdict of a user: the two facts the writes take from the reads.
CarriedFacts ==
  \A r \in Requests :
    /\ req[r].pc \in {"submit_upsert", "submit_write"} =>
         req[r].actor \in Users \ req[r].opts
    /\ req[r].pc \in OfferLoaded =>
         req[r].actor \in Users /\ req[r].dec \in Verdicts

\* The stored list never names the stored submitter.
ListExcludesSubmitter == offer.submitter \notin offer.opts

\* The inductive invariant. SlotsInOrder is part of it because a peer who
\* takes the first slot must find the second one empty.
IInv ==
  TypeOK /\ CarriedFacts /\ ListExcludesSubmitter /\ SlotsInOrder
    /\ SeparationOfDuties
-----------------------------------------------------------------------------
(* Types of what the actions are built from *)

LEMMA IdleType == Idle \in Request
BY DEF Idle, Request, PcLabels, UserOrNull, Decision, LineOrNull

LEMMA NewOfferType ==
  ASSUME NEW status \in OfferStatus, NEW step \in 0..1,
         NEW submitter \in UserOrNull, NEW opts \in SUBSET Users,
         NEW line \in LineOrNull, NEW sub \in Nat
  PROVE  NewOffer(status, step, submitter, opts, line, sub) \in Offer
BY DEF NewOffer, Offer, UserOrNull, Decision

LEMMA EligibleType ==
  ASSUME TypeOK, NEW u
  PROVE  Eligible(u) \in SUBSET Users /\ u \notin Eligible(u)
BY RoutingAssumption DEF Eligible, TypeOK

LEMMA VerdictType ==
  ASSUME NEW dec
  PROVE  Verdict(dec) \in {"AWAITING_SIGNED_LINE", "DECLINED"}
BY DEF Verdict

LEMMA OutcomeType ==
  ASSUME NEW actor, NEW dec, NEW p1, NEW p1d
  PROVE  /\ Peer1Outcome(actor, dec) \in
              {"AWAITING_APPROVAL", "AWAITING_SIGNED_LINE", "DECLINED"}
         /\ Peer2Outcome(actor, dec, p1, p1d) \in
              {"DISPUTE_PENDING", "AWAITING_SIGNED_LINE", "DECLINED"}
BY VerdictType DEF Peer1Outcome, Peer2Outcome

\* changeUwStatus keeps the contract row in its domain: the mirror never gets
\* the one status that contract_status lacks.
LEMMA MovedType ==
  ASSUME NEW row \in [uw : UwStatus, status : Mirror, line : LineOrNull,
                      financed : BOOLEAN],
         NEW to \in UwStatus
  PROVE  Moved(row, to) \in [uw : UwStatus, status : Mirror,
                             line : LineOrNull, financed : BOOLEAN]
BY DEF Moved, UwStatus, Mirror

LEMMA ChangeUwStatusType ==
  ASSUME TypeOK, NEW to \in UwStatus
  PROVE  ChangeUwStatus(to) \in [uw : UwStatus, status : Mirror,
                                 line : LineOrNull, financed : BOOLEAN]
BY MovedType DEF TypeOK, ChangeUwStatus

LEMMA StatusNames ==
  /\ {"DRAFT", "AWAITING_APPROVAL", "AWAITING_SIGNED_LINE", "DISPUTE_PENDING",
      "SIGNED", "NTU", "DECLINED"} \subseteq UwStatus
  /\ {"AWAITING_APPROVAL", "AWAITING_SIGNED_LINE", "DISPUTE_PENDING",
      "RETURNED", "SIGNED", "NTU", "DECLINED"} \subseteq OfferStatus
BY DEF UwStatus, OfferStatus, SM!UwStatuses, SM!Dispute
-----------------------------------------------------------------------------
(* Type correctness *)

\* A request goes on with a record of the right type, or ends.
LEMMA GotoType ==
  ASSUME TypeOK, NEW r \in Requests, NEW now \in Request, Goto(r, now)
  PROVE  req' \in [Requests -> Request]
BY DEF TypeOK, Goto

LEMMA FinishType ==
  ASSUME TypeOK, NEW r \in Requests, Finish(r)
  PROVE  req' \in [Requests -> Request]
BY IdleType, GotoType DEF Finish

LEMMA SubmittingType ==
  ASSUME TypeOK, NEW r \in Requests, Submitting(r)
  PROVE  TypeOK'
<1>1. req[r] \in Request
  BY DEF TypeOK
<1>2. ASSUME NEW u \in Users, NEW line \in LineOrNull,
             PlanSubmission(r, u, line)
      PROVE  TypeOK'
  <2>1. PICK opts \in {Eligible(u), {}} :
          Goto(r, [Idle EXCEPT !.pc = "submit_upsert", !.actor = u,
                               !.opts = opts, !.line = line])
    BY <1>2 DEF PlanSubmission
  <2>2. [Idle EXCEPT !.pc = "submit_upsert", !.actor = u, !.opts = opts,
                     !.line = line] \in Request
    BY IdleType, EligibleType DEF Request, PcLabels, UserOrNull
  <2>3. req' \in [Requests -> Request]
    BY <2>1, <2>2, GotoType
  <2> QED BY <1>2, <2>3 DEF PlanSubmission, TypeOK
<1>3. CASE UpsertOffer(r)
  <2>1. [req[r] EXCEPT !.pc = "submit_write", !.from = contract.uw] \in Request
    BY <1>1 DEF Request, PcLabels, TypeOK
  <2>2. req' \in [Requests -> Request]
    BY <1>3, <2>1, GotoType DEF UpsertOffer
  <2> QED BY <1>3, <2>2 DEF UpsertOffer, TypeOK
<1>4. CASE CommitSubmission(r)
  <2>1. offer' \in Offer
    BY <1>1, <1>4, NewOfferType, StatusNames
       DEF CommitSubmission, Request, TypeOK
  <2>2. contract' \in [uw : UwStatus, status : Mirror, line : LineOrNull,
                       financed : BOOLEAN]
    BY <1>4, ChangeUwStatusType, StatusNames DEF CommitSubmission
  <2>3. decisions' \in [Users -> Decision]
    BY <1>4 DEF CommitSubmission, NoDecisions, Decision, TypeOK
  <2>4. req' \in [Requests -> Request]
    BY <1>4, FinishType DEF CommitSubmission
  <2> QED BY <1>4, <2>1, <2>2, <2>3, <2>4 DEF CommitSubmission, TypeOK
<1> QED BY <1>2, <1>3, <1>4 DEF Submitting

\* The part the three claims share: a slot of the offer, the user's decision
\* and both statuses.
LEMMA ClaimType ==
  ASSUME TypeOK, NEW r \in Requests, NEW outcome \in UwStatus \cap OfferStatus,
         offer' \in Offer,
         decisions' = RecordDecision(req[r].actor, req[r].dec),
         contract' = ChangeUwStatus(outcome), Finish(r),
         UNCHANGED <<routing, lock, subs>>
  PROVE  TypeOK'
<1>1. req[r] \in Request
  BY DEF TypeOK
<1>2. decisions' \in [Users -> Decision]
  BY <1>1 DEF RecordDecision, Request, TypeOK
<1>3. contract' \in [uw : UwStatus, status : Mirror, line : LineOrNull,
                     financed : BOOLEAN]
  BY ChangeUwStatusType
<1>4. req' \in [Requests -> Request]
  BY FinishType
<1> QED BY <1>2, <1>3, <1>4 DEF TypeOK

LEMMA DecidingType ==
  ASSUME TypeOK, NEW r \in Requests, Deciding(r)
  PROVE  TypeOK'
<1>1. req[r] \in Request
  BY DEF TypeOK
<1>2. ASSUME NEW u \in Users, NEW dec \in Verdicts, LoadOffer(r, u, dec)
      PROVE  TypeOK'
  <2>1. [Idle EXCEPT !.pc = "peer_route", !.actor = u, !.dec = dec,
                     !.opts = offer.opts, !.submitter = offer.submitter,
                     !.p1 = offer.p1, !.p1d = offer.p1d, !.sub = offer.sub]
          \in Request
    BY IdleType DEF TypeOK, Request, Offer, PcLabels, UserOrNull, Decision
  <2>2. req' \in [Requests -> Request]
    BY <1>2, <2>1, GotoType DEF LoadOffer
  <2> QED BY <1>2, <2>2 DEF LoadOffer, TypeOK
<1>3. CASE CheckRouting(r)
  <2>1. [req[r] EXCEPT !.pc = "peer_claim", !.opts = {}, !.submitter = NoUser]
          \in Request
    BY <1>1 DEF Request, PcLabels, UserOrNull
  <2>2. req' \in [Requests -> Request]
    BY <1>3, <2>1, GotoType DEF CheckRouting
  <2> QED BY <1>3, <2>2 DEF CheckRouting, TypeOK
<1>4. CASE ClaimPeer1(r)
  <2> DEFINE outcome == Peer1Outcome(req[r].actor, req[r].dec)
  <2>1. outcome \in UwStatus \cap OfferStatus
    BY OutcomeType, StatusNames
  <2>2. offer' \in Offer
    BY <1>1, <1>4, <2>1 DEF ClaimPeer1, TypeOK, Offer, Request
  <2> QED BY <1>4, <2>1, <2>2, ClaimType DEF ClaimPeer1
<1>5. CASE ClaimPeer2(r)
  <2> DEFINE outcome ==
        Peer2Outcome(req[r].actor, req[r].dec, req[r].p1, req[r].p1d)
  <2>1. outcome \in UwStatus \cap OfferStatus
    BY OutcomeType, StatusNames
  <2>2. offer' \in Offer
    BY <1>1, <1>5, <2>1 DEF ClaimPeer2, TypeOK, Offer, Request
  <2> QED BY <1>5, <2>1, <2>2, ClaimType DEF ClaimPeer2
<1>6. ASSUME NEW u \in Users, NEW dec \in Verdicts, LoadDispute(r, u, dec)
      PROVE  TypeOK'
  <2>1. [Idle EXCEPT !.pc = "arbiter_claim", !.actor = u, !.dec = dec,
                     !.sub = offer.sub] \in Request
    BY IdleType DEF TypeOK, Request, Offer, PcLabels, UserOrNull, Decision
  <2>2. req' \in [Requests -> Request]
    BY <1>6, <2>1, GotoType DEF LoadDispute
  <2> QED BY <1>6, <2>2 DEF LoadDispute, TypeOK
<1>7. CASE ClaimArbiter(r)
  <2> DEFINE outcome == Verdict(req[r].dec)
  <2>1. outcome \in UwStatus \cap OfferStatus
    BY VerdictType, StatusNames
  <2>2. offer' \in Offer
    BY <1>1, <1>7, <2>1 DEF ClaimArbiter, TypeOK, Offer, Request
  <2> QED BY <1>7, <2>1, <2>2, ClaimType DEF ClaimArbiter
<1> QED BY <1>2, <1>3, <1>4, <1>5, <1>6, <1>7 DEF Deciding

\* The steps that only move their request on: AssertTransition,
\* AuthorizeTerminal, CheckSignedLine, AuthorizeDecline, ReadForDecline and
\* ReadForReplace.
LEMMA ReadType ==
  ASSUME TypeOK, NEW r \in Requests, NEW now \in Request, Goto(r, now),
         UNCHANGED <<contract, offer, decisions, routing, lock, subs>>
  PROVE  TypeOK'
BY GotoType DEF TypeOK

LEMMA TerminatingType ==
  ASSUME TypeOK, NEW r \in Requests, Terminating(r)
  PROVE  TypeOK'
<1>1. req[r] \in Request
  BY DEF TypeOK
<1>2. ASSUME NEW u \in Users, NEW action \in TerminalActions,
             NEW line \in LineOrNull, AssertTransition(r, u, action, line)
      PROVE  TypeOK'
  <2>1. [Idle EXCEPT !.pc = "terminal_auth", !.action = action, !.actor = u,
                     !.from = contract.uw, !.line = line] \in Request
    BY IdleType DEF TypeOK, Request, PcLabels, UserOrNull
  <2> QED BY <1>2, <2>1, ReadType DEF AssertTransition
<1>3. CASE AuthorizeTerminal(r)
  <2> DEFINE next ==
        IF req[r].action = "SIGN" THEN "sign_line" ELSE "terminal_write"
  <2>1. [req[r] EXCEPT !.pc = next] \in Request
    BY <1>1 DEF Request, PcLabels
  <2> QED BY <1>3, <2>1, ReadType DEF AuthorizeTerminal
<1>4. CASE CheckSignedLine(r)
  <2>1. [req[r] EXCEPT !.pc = "terminal_write"] \in Request
    BY <1>1 DEF Request, PcLabels
  <2> QED BY <1>4, <2>1, ReadType DEF CheckSignedLine
<1>5. CASE Sign(r)
  <2>1. contract' \in [uw : UwStatus, status : Mirror, line : LineOrNull,
                       financed : BOOLEAN]
    <3>1. ChangeUwStatus("SIGNED") \in
            [uw : UwStatus, status : Mirror, line : LineOrNull,
             financed : BOOLEAN]
      BY ChangeUwStatusType, StatusNames
    <3> QED BY <1>1, <1>5, <3>1 DEF Sign, Request
  <2>2. offer' \in Offer
    BY <1>1, <1>5 DEF Sign, Request, TypeOK, Offer, OfferStatus
  <2>3. req' \in [Requests -> Request]
    BY <1>5, FinishType DEF Sign
  <2> QED BY <1>5, <2>1, <2>2, <2>3 DEF Sign, TypeOK
<1>6. CASE MarkNotTakenUp(r)
  <2>1. [Idle EXCEPT !.pc = "ntu_mirror"] \in Request
    BY IdleType DEF Request, PcLabels
  <2>2. req' \in [Requests -> Request]
    BY <1>6, <2>1, GotoType DEF MarkNotTakenUp
  <2>3. contract' \in [uw : UwStatus, status : Mirror, line : LineOrNull,
                       financed : BOOLEAN]
    BY <1>6, ChangeUwStatusType, StatusNames DEF MarkNotTakenUp
  <2> QED BY <1>6, <2>2, <2>3 DEF MarkNotTakenUp, TypeOK
<1>7. CASE MirrorNtu(r)
  <2>1. offer' \in Offer
    BY <1>7, StatusNames DEF MirrorNtu, Mirrored, TypeOK, Offer
  <2>2. req' \in [Requests -> Request]
    BY <1>7, FinishType DEF MirrorNtu
  <2> QED BY <1>7, <2>1, <2>2 DEF MirrorNtu, TypeOK
<1>8. CASE SendBack(r)
  <2>1. offer' \in Offer
    <3>1. ResetOffer \in Offer
      <4>1. "RETURNED" \in OfferStatus /\ NoUser \in UserOrNull
              /\ "NONE" \in Decision
        BY DEF OfferStatus, UserOrNull, Decision
      <4>2. offer \in Offer /\ 0 \in 0..1
        BY DEF TypeOK
      <4> DEFINE half == [offer EXCEPT !.status = "RETURNED", !.step = 0,
                                       !.p1 = NoUser, !.p1d = "NONE"]
      <4>3. half \in Offer
        BY <4>1, <4>2 DEF Offer
      <4>4. ResetOffer = [half EXCEPT !.p2 = NoUser, !.p2d = "NONE",
                                      !.arb = NoUser, !.arbd = "NONE"]
        BY DEF ResetOffer
      <4> HIDE DEF half
      <4> QED BY <4>1, <4>3, <4>4 DEF Offer
    <3> QED BY <1>8, <3>1 DEF SendBack, TypeOK
  <2>2. contract' \in [uw : UwStatus, status : Mirror, line : LineOrNull,
                       financed : BOOLEAN]
    BY <1>8, ChangeUwStatusType, StatusNames DEF SendBack
  <2>3. req' \in [Requests -> Request]
    BY <1>8, FinishType DEF SendBack
  <2> QED BY <1>8, <2>1, <2>2, <2>3 DEF SendBack, TypeOK
<1> QED
  BY <1>2, <1>3, <1>4, <1>5, <1>6, <1>7, <1>8 DEF Terminating

LEMMA DecliningType ==
  ASSUME TypeOK, NEW r \in Requests, Declining(r)
  PROVE  TypeOK'
<1>1. req[r] \in Request
  BY DEF TypeOK
<1>2. ASSUME NEW u \in Users, AuthorizeDecline(r, u)
      PROVE  TypeOK'
  <2>1. [Idle EXCEPT !.pc = "decline_read", !.actor = u] \in Request
    BY IdleType DEF Request, PcLabels, UserOrNull
  <2> QED BY <1>2, <2>1, ReadType DEF AuthorizeDecline
<1>3. CASE ReadForDecline(r)
  <2>1. [req[r] EXCEPT !.pc = "decline_write", !.from = contract.uw]
          \in Request
    BY <1>1 DEF Request, PcLabels, TypeOK
  <2> QED BY <1>3, <2>1, ReadType DEF ReadForDecline
<1>4. CASE CommitDecline(r)
  <2>1. offer' \in Offer
    BY <1>4, StatusNames DEF CommitDecline, Mirrored, TypeOK, Offer
  <2>2. contract' \in [uw : UwStatus, status : Mirror, line : LineOrNull,
                       financed : BOOLEAN]
    BY <1>4, ChangeUwStatusType, StatusNames DEF CommitDecline
  <2>3. req' \in [Requests -> Request]
    BY <1>4, FinishType DEF CommitDecline
  <2> QED BY <1>4, <2>1, <2>2, <2>3 DEF CommitDecline, TypeOK
<1> QED BY <1>2, <1>3, <1>4 DEF Declining

LEMMA ReplacingType ==
  ASSUME TypeOK, NEW r \in Requests, Replacing(r)
  PROVE  TypeOK'
<1>1. req[r] \in Request
  BY DEF TypeOK
<1>2. ASSUME NEW u \in Users, NEW line \in LineOrNull,
             ReadForReplace(r, u, line)
      PROVE  TypeOK'
  <2>1. [Idle EXCEPT !.pc = "replace_check", !.actor = u, !.line = line]
          \in Request
    BY IdleType DEF Request, PcLabels, UserOrNull
  <2> QED BY <1>2, <2>1, ReadType DEF ReadForReplace
<1>3. CASE LockForReplace(r)
  <2>1. [req[r] EXCEPT !.pc = "replace_write"] \in Request
    BY <1>1 DEF Request, PcLabels
  <2>2. req' \in [Requests -> Request]
    BY <1>3, <2>1, GotoType DEF LockForReplace
  <2>3. lock' \in Requests \cup {NoRequest}
    BY <1>3 DEF LockForReplace, TypeOK
  <2> QED BY <1>3, <2>2, <2>3 DEF LockForReplace, TypeOK
<1>4. CASE CommitReplace(r)
  <2>1. offer' \in Offer
    BY <1>1, <1>4, NewOfferType
       DEF CommitReplace, Request, OfferStatus, UserOrNull
  <2>2. contract' \in [uw : UwStatus, status : Mirror, line : LineOrNull,
                       financed : BOOLEAN]
    BY <1>4 DEF CommitReplace, TypeOK, Mirror, Commercial
  <2>3. decisions' \in [Users -> Decision]
    BY <1>4 DEF CommitReplace, NoDecisions, Decision
  <2>4. req' \in [Requests -> Request]
    <3>1. ASSUME NEW q \in Requests
          PROVE  [req[q] EXCEPT !.held = @ /\ req[q].pc \notin OfferLoaded]
                   \in Request
      BY DEF TypeOK, Request
    <3> QED BY <1>4, <3>1, IdleType DEF CommitReplace
  <2> QED BY <1>4, <2>1, <2>2, <2>3, <2>4 DEF CommitReplace, TypeOK
<1> QED BY <1>2, <1>3, <1>4 DEF Replacing

LEMMA FailType ==
  ASSUME TypeOK, NEW r \in Requests, Fail(r)
  PROVE  TypeOK'
BY FinishType DEF Fail, TypeOK

LEMMA InitType == Init => TypeOK
<1> SUFFICES ASSUME Init
             PROVE  TypeOK
  OBVIOUS
<1>1. PICK status \in InitialOffers :
        offer = NewOffer(status, 0, NoUser, {}, 0, 0)
  BY DEF Init
<1>2. offer \in Offer
  <2>1. status \in OfferStatus
    BY InitialAssumption DEF OfferStatus
  <2> QED BY <1>1, <2>1, NewOfferType DEF UserOrNull, LineOrNull
<1>3. contract \in [uw : UwStatus, status : Mirror, line : LineOrNull,
                    financed : BOOLEAN]
  BY DEF Init, UwStatus, Mirror, LineOrNull, SM!UwStatuses
<1>4. decisions \in [Users -> Decision]
  BY DEF Init, NoDecisions, Decision
<1>5. req \in [Requests -> Request]
  BY IdleType DEF Init
<1> QED BY <1>2, <1>3, <1>4, <1>5 DEF Init, TypeOK

LEMMA EditHeaderType ==
  ASSUME TypeOK, NEW u \in Users, NEW h \in Headers, EditHeader(u, h)
  PROVE  TypeOK'
<1> DEFINE Contract == [uw : UwStatus, status : Mirror, line : LineOrNull,
                        financed : BOOLEAN]
           lined == [contract EXCEPT !.line = IF h.line = 0 THEN @ ELSE h.line]
           moved == IF h.uw = "NONE" THEN lined ELSE Moved(lined, h.uw)
<1>1. /\ h.uw \in SM!UwStatuses \cup {"NONE"}
      /\ h.status \in Mirror \cup {"NONE"} /\ h.line \in LineOrNull
  BY HeaderAssumption
<1>2. SM!UwStatuses \subseteq UwStatus /\ Commercial \subseteq Mirror
  BY DEF UwStatus, Mirror
<1>3. lined \in Contract
  BY <1>1 DEF TypeOK
<1>4. moved \in Contract
  BY <1>1, <1>2, <1>3, MovedType
<1>5. contract' \in Contract
  <2>1. CASE contract' = moved
    BY <1>4, <2>1
  <2>2. CASE h.status \in SM!UwStatuses /\ contract' = Moved(moved, h.status)
    <3> HIDE DEF moved
    <3> QED BY <1>2, <1>4, <2>2, MovedType
  <2>3. CASE h.status \in Commercial
               /\ contract' = [moved EXCEPT !.status = h.status]
    <3> HIDE DEF moved
    <3> QED BY <1>2, <1>4, <2>3
  <2> QED BY <2>1, <2>2, <2>3 DEF EditHeader
<1> QED BY <1>5 DEF EditHeader, TypeOK

LEMMA StepType == TypeOK /\ [Next]_vars => TypeOK'
<1> SUFFICES ASSUME TypeOK, [Next]_vars
             PROVE  TypeOK'
  OBVIOUS
<1>1. ASSUME NEW r \in Requests,
             Submitting(r) \/ Deciding(r) \/ Terminating(r) \/ Declining(r)
               \/ Replacing(r) \/ Fail(r)
      PROVE  TypeOK'
  BY <1>1, SubmittingType, DecidingType, TerminatingType, DecliningType,
     ReplacingType, FailType
<1>2. CASE Reroute
  BY <1>2 DEF Reroute, TypeOK
<1>3. ASSUME NEW u \in Users, NEW h \in Headers, EditHeader(u, h)
      PROVE  TypeOK'
  BY <1>3, EditHeaderType
<1>4. CASE UNCHANGED vars
  BY <1>4 DEF vars, TypeOK
<1> QED BY <1>1, <1>2, <1>3, <1>4 DEF Next

\* Every row and request of the approval engine stays in its domain, for any
\* number of users, requests and lines; in particular the contract_status
\* mirror never receives the dispute state it has no value for.
THEOREM TypeCorrect == Spec => []TypeOK
BY InitType, StepType, PTL DEF Spec
-----------------------------------------------------------------------------
(* The approval slots *)

\* The facts a request carries survive every step that only moves requests on,
\* and every request that moves establishes its own.
CarriedBy(record) ==
  /\ record.pc \in {"submit_upsert", "submit_write"} =>
       record.actor \in Users \ record.opts
  /\ record.pc \in OfferLoaded =>
       record.actor \in Users /\ record.dec \in Verdicts

LEMMA CarriedAlone ==
  ASSUME TypeOK, CarriedFacts, NEW r \in Requests, NEW now, CarriedBy(now),
         Goto(r, now)
  PROVE  CarriedFacts'
<1>1. ASSUME NEW q \in Requests
      PROVE  req'[q] = IF q = r THEN now ELSE req[q]
  BY DEF Goto, TypeOK
<1> QED BY <1>1 DEF CarriedFacts, CarriedBy

LEMMA CarriedIdle == CarriedBy(Idle)
BY DEF CarriedBy, Idle, OfferLoaded

LEMMA CarriedFinish ==
  ASSUME TypeOK, CarriedFacts, NEW r \in Requests, Finish(r)
  PROVE  CarriedFacts'
BY CarriedIdle, CarriedAlone DEF Finish

\* Whatever a step does to the offer beyond its status and line is empty the
\* row, or fill one of its slots; these are the two shapes.
SameSlots ==
  /\ offer'.p1 = offer.p1 /\ offer'.p1d = offer.p1d
  /\ offer'.p2 = offer.p2 /\ offer'.p2d = offer.p2d
  /\ offer'.arb = offer.arb /\ offer'.arbd = offer.arbd
  /\ offer'.opts = offer.opts /\ offer'.submitter = offer.submitter
  /\ offer'.status \in {offer.status, "SIGNED", "NTU", "DECLINED"}

EmptySlots ==
  /\ offer'.p1 = NoUser /\ offer'.p1d = "NONE"
  /\ offer'.p2 = NoUser /\ offer'.p2d = "NONE"
  /\ offer'.arb = NoUser /\ offer'.arbd = "NONE"
  /\ offer'.status # "DISPUTE_PENDING"
  /\ offer'.submitter \notin offer'.opts

\* What the proof shows of the offer row, step by step.
OfferInv == ListExcludesSubmitter /\ SlotsInOrder /\ SeparationOfDuties

\* What the proof shows of a step.
Kept == CarriedFacts' /\ OfferInv' /\ SlotStep

LEMMA SameSlotsKeep ==
  ASSUME TypeOK, OfferInv, SameSlots
  PROVE  OfferInv' /\ SlotStep
<1>1. ListExcludesSubmitter'
  BY DEF OfferInv, ListExcludesSubmitter, SameSlots
<1>2. SlotsInOrder'
  BY DEF OfferInv, SlotsInOrder, SameSlots
<1>3. SeparationOfDuties'
  BY DEF OfferInv, SeparationOfDuties, SameSlots
<1>4. SlotStep
  <2>1. \A j \in 1..3 : Slots'[j] = Slots[j]
    BY DEF SameSlots, Slots
  <2> QED BY <2>1 DEF SlotStep
<1> QED BY <1>1, <1>2, <1>3, <1>4 DEF OfferInv

LEMMA EmptySlotsKeep ==
  ASSUME EmptySlots
  PROVE  OfferInv' /\ SlotStep
<1>1. ListExcludesSubmitter'
  BY DEF ListExcludesSubmitter, EmptySlots
<1>2. SlotsInOrder'
  BY DEF SlotsInOrder, EmptySlots
<1>3. SeparationOfDuties'
  BY DEF SeparationOfDuties, EmptySlots
<1>4. SlotStep
  BY DEF EmptySlots, SlotStep, Slots, EmptySlot
<1> QED BY <1>1, <1>2, <1>3, <1>4 DEF OfferInv

\* A request that reads goes on, and leaves the offer as it is.
LEMMA ReadKeeps ==
  ASSUME IInv, NEW r \in Requests, NEW now, CarriedBy(now), Goto(r, now),
         UNCHANGED offer
  PROVE  Kept
<1>1. SameSlots
  BY DEF SameSlots
<1> QED BY <1>1, CarriedAlone, SameSlotsKeep DEF IInv, OfferInv, Kept

LEMMA SubmittingKeeps ==
  ASSUME IInv, NEW r \in Requests, Submitting(r)
  PROVE  Kept
<1>1. req[r] \in Request /\ CarriedBy(req[r])
  BY DEF IInv, TypeOK, CarriedFacts, CarriedBy
<1>2. ASSUME NEW u \in Users, NEW line \in LineOrNull,
             PlanSubmission(r, u, line)
      PROVE  Kept
  <2>1. PICK opts \in {Eligible(u), {}} :
          Goto(r, [Idle EXCEPT !.pc = "submit_upsert", !.actor = u,
                               !.opts = opts, !.line = line])
    BY <1>2 DEF PlanSubmission
  <2>2. CarriedBy([Idle EXCEPT !.pc = "submit_upsert", !.actor = u,
                               !.opts = opts, !.line = line])
    BY EligibleType DEF CarriedBy, Idle, OfferLoaded, IInv
  <2> QED BY <1>2, <2>1, <2>2, ReadKeeps DEF PlanSubmission
<1>3. CASE UpsertOffer(r)
  <2>1. CarriedBy([req[r] EXCEPT !.pc = "submit_write", !.from = contract.uw])
    BY <1>1, <1>3 DEF UpsertOffer, At, CarriedBy, OfferLoaded, Request
  <2> QED BY <1>3, <2>1, ReadKeeps DEF UpsertOffer
<1>4. CASE CommitSubmission(r)
  <2>1. EmptySlots
    BY <1>1, <1>4 DEF CommitSubmission, At, CarriedBy, EmptySlots, NewOffer
  <2>2. CarriedFacts'
    BY <1>4, CarriedFinish DEF CommitSubmission, IInv
  <2> QED BY <2>1, <2>2, EmptySlotsKeep DEF Kept
<1> QED BY <1>2, <1>3, <1>4 DEF Submitting

\* The heart of it. Nothing of what a deciding request read before its
\* transaction is used: Peer1Open and Peer2Open look at the row again.
LEMMA DecidingKeeps ==
  ASSUME IInv, NEW r \in Requests, Deciding(r)
  PROVE  Kept
<1>1. req[r] \in Request /\ CarriedBy(req[r])
  BY DEF IInv, TypeOK, CarriedFacts, CarriedBy
<1>2. offer \in Offer /\ OfferInv
  BY DEF IInv, TypeOK, OfferInv
<1>3. NoUser \notin Users /\ NoUser \notin offer.opts /\ "NONE" \notin Verdicts
  BY <1>2, UsersAssumption DEF Offer, Verdicts
<1>4. ASSUME NEW u \in Users, NEW dec \in Verdicts, LoadOffer(r, u, dec)
      PROVE  Kept
  <2>1. CarriedBy([Idle EXCEPT !.pc = "peer_route", !.actor = u, !.dec = dec,
                     !.opts = offer.opts, !.submitter = offer.submitter,
                     !.p1 = offer.p1, !.p1d = offer.p1d, !.sub = offer.sub])
    BY DEF CarriedBy, Idle, OfferLoaded
  <2> QED BY <1>4, <2>1, ReadKeeps DEF LoadOffer
<1>5. CASE CheckRouting(r)
  <2>1. CarriedBy([req[r] EXCEPT !.pc = "peer_claim", !.opts = {},
                                 !.submitter = NoUser])
    BY <1>1, <1>5 DEF CheckRouting, At, CarriedBy, OfferLoaded, Request
  <2> QED BY <1>5, <2>1, ReadKeeps DEF CheckRouting
<1>6. CASE ClaimPeer1(r)
  <2> DEFINE outcome == Peer1Outcome(req[r].actor, req[r].dec)
  <2>1. req[r].actor \in Users /\ req[r].dec \in Verdicts
    BY <1>1, <1>6 DEF ClaimPeer1, At, CarriedBy, OfferLoaded
  <2>2. /\ offer.p1 = NoUser /\ offer.p1d = "NONE"
        /\ offer.p2 = NoUser /\ offer.p2d = "NONE"
        /\ offer.arb = NoUser /\ offer.arbd = "NONE"
        /\ req[r].actor \in offer.opts
    BY <1>2, <1>6 DEF ClaimPeer1, Peer1Open, OfferInv, SlotsInOrder
  <2>3. /\ offer'.p1 = req[r].actor /\ offer'.p1d = req[r].dec
        /\ offer'.p2 = NoUser /\ offer'.p2d = "NONE"
        /\ offer'.arb = NoUser /\ offer'.arbd = "NONE"
        /\ offer'.opts = offer.opts /\ offer'.submitter = offer.submitter
        /\ offer'.status = outcome
    BY <1>2, <1>6, <2>2 DEF ClaimPeer1, Offer
  <2>4. ListExcludesSubmitter'
    BY <1>2, <2>3 DEF OfferInv, ListExcludesSubmitter
  <2>5. SlotsInOrder'
    <3>1. outcome # "DISPUTE_PENDING"
      BY OutcomeType
    <3> QED BY <1>3, <2>1, <2>3, <3>1 DEF SlotsInOrder
  <2>6. SeparationOfDuties'
    BY <1>2, <1>3, <2>1, <2>2, <2>3
       DEF OfferInv, ListExcludesSubmitter, SeparationOfDuties
  <2>7. CarriedFacts'
    BY <1>6, CarriedFinish DEF ClaimPeer1, IInv
  <2>8. SlotStep
    BY <2>2, <2>3 DEF SlotStep, Slots, EmptySlot
  <2> QED BY <2>4, <2>5, <2>6, <2>7, <2>8 DEF OfferInv, Kept
<1>7. CASE ClaimPeer2(r)
  <2> DEFINE outcome ==
        Peer2Outcome(req[r].actor, req[r].dec, req[r].p1, req[r].p1d)
  <2>1. req[r].actor \in Users /\ req[r].dec \in Verdicts
    BY <1>1, <1>7 DEF ClaimPeer2, At, CarriedBy, OfferLoaded
  <2>2. /\ offer.p1 # NoUser /\ offer.p1d # "NONE" /\ offer.p1 # req[r].actor
        /\ offer.p1 \in offer.opts /\ req[r].actor \in offer.opts
        /\ offer.arb = NoUser /\ offer.arbd = "NONE"
    BY <1>2, <1>7
       DEF ClaimPeer2, Peer2Open, OfferInv, SlotsInOrder, SeparationOfDuties
  <2>3. /\ offer'.p1 = offer.p1 /\ offer'.p1d = offer.p1d
        /\ offer'.p2 = req[r].actor /\ offer'.p2d = req[r].dec
        /\ offer'.arb = NoUser /\ offer'.arbd = "NONE"
        /\ offer'.opts = offer.opts /\ offer'.submitter = offer.submitter
        /\ offer'.status = outcome
    BY <1>2, <1>7, <2>2 DEF ClaimPeer2, Offer
  <2>4. ListExcludesSubmitter'
    BY <1>2, <2>3 DEF OfferInv, ListExcludesSubmitter
  <2>5. SlotsInOrder'
    <3>1. outcome # "AWAITING_APPROVAL"
      BY OutcomeType
    <3> QED BY <1>3, <2>1, <2>2, <2>3, <3>1 DEF SlotsInOrder
  <2>6. SeparationOfDuties'
    BY <1>2, <1>3, <2>1, <2>2, <2>3
       DEF OfferInv, ListExcludesSubmitter, SeparationOfDuties
  <2>7. CarriedFacts'
    BY <1>7, CarriedFinish DEF ClaimPeer2, IInv
  <2>8. SlotStep
    BY <1>2, <2>2, <2>3, <1>7 DEF SlotStep, Slots, EmptySlot, ClaimPeer2, Peer2Open
  <2> QED BY <2>4, <2>5, <2>6, <2>7, <2>8 DEF OfferInv, Kept
<1>8. ASSUME NEW u \in Users, NEW dec \in Verdicts, LoadDispute(r, u, dec)
      PROVE  Kept
  <2>1. CarriedBy([Idle EXCEPT !.pc = "arbiter_claim", !.actor = u,
                               !.dec = dec, !.sub = offer.sub])
    BY DEF CarriedBy, Idle, OfferLoaded
  <2> QED BY <1>8, <2>1, ReadKeeps DEF LoadDispute
<1>9. CASE ClaimArbiter(r)
  <2> DEFINE outcome == Verdict(req[r].dec)
  <2>1. req[r].actor \in Users /\ req[r].dec \in Verdicts
    BY <1>1, <1>9 DEF ClaimArbiter, At, CarriedBy, OfferLoaded
  <2>2. offer.p1 # NoUser /\ offer.p2 # NoUser
    BY <1>2, <1>9 DEF ClaimArbiter, OfferInv, SlotsInOrder
  <2>3. /\ offer'.p1 = offer.p1 /\ offer'.p1d = offer.p1d
        /\ offer'.p2 = offer.p2 /\ offer'.p2d = offer.p2d
        /\ offer'.arb = req[r].actor /\ offer'.arbd = req[r].dec
        /\ offer'.opts = offer.opts /\ offer'.submitter = offer.submitter
        /\ offer'.status = outcome
    BY <1>2, <1>9 DEF ClaimArbiter, Offer
  <2>4. ListExcludesSubmitter'
    BY <1>2, <2>3 DEF OfferInv, ListExcludesSubmitter
  <2>5. SlotsInOrder'
    <3>1. outcome \notin {"AWAITING_APPROVAL", "DISPUTE_PENDING"}
      BY VerdictType
    <3> QED BY <1>2, <1>3, <2>1, <2>2, <2>3, <3>1 DEF OfferInv, SlotsInOrder
  <2>6. SeparationOfDuties'
    BY <1>2, <2>3 DEF OfferInv, SeparationOfDuties
  <2>7. CarriedFacts'
    BY <1>9, CarriedFinish DEF ClaimArbiter, IInv
  <2>8. SlotStep
    BY <1>2, <1>9, <2>3 DEF SlotStep, Slots, EmptySlot, ClaimArbiter, OfferInv, SlotsInOrder
  <2> QED BY <2>4, <2>5, <2>6, <2>7, <2>8 DEF OfferInv, Kept
<1> QED BY <1>4, <1>5, <1>6, <1>7, <1>8, <1>9 DEF Deciding

\* A write that leaves the slots alone, or empties them, and ends its request.
LEMMA WriteKeeps ==
  ASSUME IInv, NEW r \in Requests, Finish(r), SameSlots \/ EmptySlots
  PROVE  Kept
BY CarriedFinish, SameSlotsKeep, EmptySlotsKeep DEF IInv, OfferInv, Kept

LEMMA MirroredSlots ==
  ASSUME TypeOK, NEW status \in {"NTU", "DECLINED"},
         offer' = Mirrored(status)
  PROVE  SameSlots
BY DEF TypeOK, Offer, Mirrored, SameSlots

LEMMA TerminatingKeeps ==
  ASSUME IInv, NEW r \in Requests, Terminating(r)
  PROVE  Kept
<1>1. req[r] \in Request
  BY DEF IInv, TypeOK
<1>2. ASSUME NEW u \in Users, NEW action \in TerminalActions,
             NEW line \in LineOrNull, AssertTransition(r, u, action, line)
      PROVE  Kept
  <2>1. CarriedBy([Idle EXCEPT !.pc = "terminal_auth", !.action = action,
                     !.actor = u, !.from = contract.uw, !.line = line])
    BY DEF CarriedBy, Idle, OfferLoaded
  <2> QED BY <1>2, <2>1, ReadKeeps DEF AssertTransition
<1>3. CASE AuthorizeTerminal(r)
  <2> DEFINE next ==
        IF req[r].action = "SIGN" THEN "sign_line" ELSE "terminal_write"
  <2>1. CarriedBy([req[r] EXCEPT !.pc = next])
    BY <1>1 DEF CarriedBy, OfferLoaded, Request
  <2> QED BY <1>3, <2>1, ReadKeeps DEF AuthorizeTerminal
<1>4. CASE CheckSignedLine(r)
  <2>1. CarriedBy([req[r] EXCEPT !.pc = "terminal_write"])
    BY <1>1 DEF CarriedBy, OfferLoaded, Request
  <2> QED BY <1>4, <2>1, ReadKeeps DEF CheckSignedLine
<1>5. CASE Sign(r)
  <2>1. SameSlots
    BY <1>5 DEF Sign, SameSlots, IInv, TypeOK, Offer
  <2> QED BY <1>5, <2>1, WriteKeeps DEF Sign
<1>6. CASE MarkNotTakenUp(r)
  <2>1. CarriedBy([Idle EXCEPT !.pc = "ntu_mirror"])
    BY DEF CarriedBy, Idle, OfferLoaded
  <2> QED BY <1>6, <2>1, ReadKeeps DEF MarkNotTakenUp
<1>7. CASE MirrorNtu(r)
  BY <1>7, MirroredSlots, WriteKeeps DEF MirrorNtu, IInv
<1>8. CASE SendBack(r)
  <2>1. CASE offer.status = "ABSENT"
    <3>1. SameSlots
      BY <1>8, <2>1 DEF SendBack, SameSlots
    <3> QED BY <1>8, <3>1, WriteKeeps DEF SendBack
  <2>2. CASE offer.status # "ABSENT"
    <3>1. EmptySlots
      BY <1>8, <2>2
         DEF SendBack, ResetOffer, EmptySlots, IInv, TypeOK, Offer,
             ListExcludesSubmitter
    <3> QED BY <1>8, <3>1, WriteKeeps DEF SendBack
  <2> QED BY <2>1, <2>2
<1> QED
  BY <1>2, <1>3, <1>4, <1>5, <1>6, <1>7, <1>8 DEF Terminating

LEMMA DecliningKeeps ==
  ASSUME IInv, NEW r \in Requests, Declining(r)
  PROVE  Kept
<1>1. req[r] \in Request
  BY DEF IInv, TypeOK
<1>2. ASSUME NEW u \in Users, AuthorizeDecline(r, u)
      PROVE  Kept
  <2>1. CarriedBy([Idle EXCEPT !.pc = "decline_read", !.actor = u])
    BY DEF CarriedBy, Idle, OfferLoaded
  <2> QED BY <1>2, <2>1, ReadKeeps DEF AuthorizeDecline
<1>3. CASE ReadForDecline(r)
  <2>1. CarriedBy([req[r] EXCEPT !.pc = "decline_write",
                                 !.from = contract.uw])
    BY <1>1 DEF CarriedBy, OfferLoaded, Request
  <2> QED BY <1>3, <2>1, ReadKeeps DEF ReadForDecline
<1>4. CASE CommitDecline(r)
  BY <1>4, MirroredSlots, WriteKeeps DEF CommitDecline, IInv
<1> QED BY <1>2, <1>3, <1>4 DEF Declining

LEMMA ReplacingKeeps ==
  ASSUME IInv, NEW r \in Requests, Replacing(r)
  PROVE  Kept
<1>1. req[r] \in Request
  BY DEF IInv, TypeOK
<1>2. ASSUME NEW u \in Users, NEW line \in LineOrNull,
             ReadForReplace(r, u, line)
      PROVE  Kept
  <2>1. CarriedBy([Idle EXCEPT !.pc = "replace_check", !.actor = u,
                               !.line = line])
    BY DEF CarriedBy, Idle, OfferLoaded
  <2> QED BY <1>2, <2>1, ReadKeeps DEF ReadForReplace
<1>3. CASE LockForReplace(r)
  <2>1. CarriedBy([req[r] EXCEPT !.pc = "replace_write"])
    BY <1>1 DEF CarriedBy, OfferLoaded, Request
  <2> QED BY <1>3, <2>1, ReadKeeps DEF LockForReplace
<1>4. CASE CommitReplace(r)
  <2>1. EmptySlots
    BY <1>4 DEF CommitReplace, NewOffer, EmptySlots
  <2>2. ASSUME NEW q \in Requests
        PROVE  CarriedBy(req'[q])
    <3>1. req[q] \in Request /\ CarriedBy(req[q])
      BY DEF IInv, TypeOK, CarriedFacts, CarriedBy
    <3>2. req'[q] = IF q = r THEN Idle
                    ELSE [req[q] EXCEPT !.held = @ /\ req[q].pc \notin OfferLoaded]
      BY <1>4 DEF CommitReplace
    <3>3. CASE q = r
      BY <3>2, <3>3, CarriedIdle
    <3>4. CASE q # r
      <4>1. /\ req'[q].pc = req[q].pc /\ req'[q].actor = req[q].actor
            /\ req'[q].opts = req[q].opts /\ req'[q].dec = req[q].dec
        BY <3>1, <3>2, <3>4 DEF Request
      <4> QED BY <3>1, <4>1 DEF CarriedBy
    <3> QED BY <3>3, <3>4
  <2>3. CarriedFacts'
    BY <2>2 DEF CarriedFacts, CarriedBy
  <2> QED BY <2>1, <2>3, EmptySlotsKeep DEF Kept
<1> QED BY <1>2, <1>3, <1>4 DEF Replacing

LEMMA FailKeeps ==
  ASSUME IInv, NEW r \in Requests, Fail(r)
  PROVE  Kept
<1>1. SameSlots
  BY DEF Fail, SameSlots
<1> QED BY <1>1, WriteKeeps DEF Fail

LEMMA InitIInv == Init => IInv
<1> SUFFICES ASSUME Init
             PROVE  IInv
  OBVIOUS
<1>1. PICK status \in InitialOffers :
        offer = NewOffer(status, 0, NoUser, {}, 0, 0)
  BY DEF Init
<1>2. CarriedFacts
  BY CarriedIdle DEF Init, CarriedFacts, CarriedBy
<1>3. ListExcludesSubmitter /\ SlotsInOrder /\ SeparationOfDuties
  BY <1>1, InitialAssumption
     DEF NewOffer, ListExcludesSubmitter, SlotsInOrder, SeparationOfDuties
<1> QED BY <1>2, <1>3, InitType DEF IInv

LEMMA StepKept ==
  ASSUME IInv, Next
  PROVE  Kept
<1>1. ASSUME NEW r \in Requests,
             Submitting(r) \/ Deciding(r) \/ Terminating(r) \/ Declining(r)
               \/ Replacing(r) \/ Fail(r)
      PROVE  Kept
  BY <1>1, SubmittingKeeps, DecidingKeeps, TerminatingKeeps, DecliningKeeps,
     ReplacingKeeps, FailKeeps
<1>2. CASE Reroute
  <2>1. SameSlots
    BY <1>2 DEF Reroute, SameSlots
  <2>2. CarriedFacts'
    BY <1>2 DEF Reroute, CarriedFacts, IInv
  <2> QED BY <2>1, <2>2, SameSlotsKeep DEF IInv, OfferInv, Kept
<1>3. ASSUME NEW u \in Users, NEW h \in Headers, EditHeader(u, h)
      PROVE  Kept
  <2>1. UNCHANGED <<offer, req>>
    BY <1>3 DEF EditHeader
  <2>2. SameSlots
    BY <2>1 DEF SameSlots
  <2>3. CarriedFacts'
    BY <2>1 DEF CarriedFacts, IInv
  <2> QED BY <2>2, <2>3, SameSlotsKeep DEF IInv, OfferInv, Kept
<1> QED BY <1>1, <1>2, <1>3 DEF Next

LEMMA StepIInv == IInv /\ [Next]_vars => IInv'
<1> SUFFICES ASSUME IInv, [Next]_vars
             PROVE  IInv'
  OBVIOUS
<1>1. TypeOK'
  BY StepType DEF IInv
<1>2. CASE Next
  BY <1>1, <1>2, StepKept DEF IInv, Kept, OfferInv
<1>3. CASE UNCHANGED vars
  BY <1>3 DEF vars, IInv, TypeOK, CarriedFacts, ListExcludesSubmitter,
              SlotsInOrder, SeparationOfDuties
<1> QED BY <1>2, <1>3

LEMMA InductiveInvariant == Spec => []IInv
BY InitIInv, StepIInv, PTL DEF Spec
-----------------------------------------------------------------------------
(* Where an approval comes from *)

\* An offer that waits for its second peer has a first one below final
\* authority, and so has every request that read such an offer: the verdict
\* that a second peer overrides or is overridden by is never a final one.
OpenBelowFinal ==
  offer.status = "AWAITING_APPROVAL" /\ offer.p1 # NoUser =>
    ~FinalAuthority(offer.p1)
ReadBelowFinal ==
  \A r \in Requests :
    req[r].pc \in {"peer_route", "peer_claim"} /\ req[r].p1d # "NONE" =>
      ~FinalAuthority(req[r].p1)

BelowFinal == OpenBelowFinal /\ ReadBelowFinal

\* A step of one request that leaves it with a record of which the fact holds.
LEMMA ReadBelow ==
  ASSUME IInv, ReadBelowFinal, NEW r \in Requests, NEW now, Goto(r, now),
         now.pc \in {"peer_route", "peer_claim"} /\ now.p1d # "NONE" =>
           ~FinalAuthority(now.p1)
  PROVE  ReadBelowFinal'
BY DEF ReadBelowFinal, Goto, IInv, TypeOK, FinalAuthority

LEMMA FinishBelow ==
  ASSUME IInv, ReadBelowFinal, NEW r \in Requests, Finish(r)
  PROVE  ReadBelowFinal'
<1>1. Idle.pc \notin {"peer_route", "peer_claim"}
  BY DEF Idle
<1> QED BY <1>1, ReadBelow DEF Finish

LEMMA DecidingBelow ==
  ASSUME IInv, BelowFinal, NEW r \in Requests, Deciding(r)
  PROVE  BelowFinal' /\ ApprovalStep
<1>1. req[r] \in Request /\ CarriedBy(req[r])
  BY DEF IInv, TypeOK, CarriedFacts, CarriedBy
<1>2. offer \in Offer /\ SlotsInOrder
  BY DEF IInv, TypeOK
<1>3. contract \in [uw : UwStatus, status : Mirror, line : LineOrNull,
                    financed : BOOLEAN]
  BY DEF IInv, TypeOK
<1>4. ASSUME NEW u \in Users, NEW dec \in Verdicts, LoadOffer(r, u, dec)
      PROVE  BelowFinal' /\ ApprovalStep
  <2> DEFINE now == [Idle EXCEPT !.pc = "peer_route", !.actor = u, !.dec = dec,
                     !.opts = offer.opts, !.submitter = offer.submitter,
                     !.p1 = offer.p1, !.p1d = offer.p1d, !.sub = offer.sub]
  <2>1. offer.p1d # "NONE" => ~FinalAuthority(offer.p1)
    BY <1>2, <1>4 DEF LoadOffer, SlotsInOrder, BelowFinal, OpenBelowFinal
  <2>2. now.p1 = offer.p1 /\ now.p1d = offer.p1d
    BY DEF Idle
  <2>3. Goto(r, now) /\ UNCHANGED <<contract, offer>>
    BY <1>4 DEF LoadOffer
  <2> HIDE DEF now
  <2>4. ReadBelowFinal'
    BY <2>1, <2>2, <2>3, ReadBelow DEF BelowFinal
  <2> QED BY <2>3, <2>4
          DEF BelowFinal, OpenBelowFinal, ApprovalStep, FinalAuthority
<1>5. CASE CheckRouting(r)
  <2> DEFINE now == [req[r] EXCEPT !.pc = "peer_claim", !.opts = {},
                                   !.submitter = NoUser]
  <2>1. now.p1 = req[r].p1 /\ now.p1d = req[r].p1d
    BY <1>1 DEF Request
  <2>2. Goto(r, now) /\ At(r, "peer_route") /\ UNCHANGED <<contract, offer>>
    BY <1>5 DEF CheckRouting
  <2> HIDE DEF now
  <2>3. ReadBelowFinal'
    BY <2>1, <2>2, ReadBelow DEF BelowFinal, ReadBelowFinal, At
  <2> QED BY <2>2, <2>3
          DEF BelowFinal, OpenBelowFinal, ApprovalStep, FinalAuthority
<1>6. CASE ClaimPeer1(r)
  <2> DEFINE actor == req[r].actor
             outcome == Peer1Outcome(actor, req[r].dec)
  <2>1. /\ offer'.status = outcome /\ offer'.p1 = actor
        /\ offer'.p1d = req[r].dec /\ Finish(r)
        /\ contract' = ChangeUwStatus(outcome)
    BY <1>2, <1>6 DEF ClaimPeer1, Offer
  <2>2. outcome = "AWAITING_APPROVAL" => ~FinalAuthority(actor)
    BY VerdictType DEF Peer1Outcome
  <2>3. outcome = "AWAITING_SIGNED_LINE" => req[r].dec = "APPROVED"
    BY DEF Peer1Outcome, Verdict
  <2>4. contract'.uw = outcome
    BY <1>3, <2>1 DEF ChangeUwStatus, Moved
  <2>5. Slots[1] = EmptySlot /\ Slots'[1] = <<actor, req[r].dec>>
    BY <1>6, <2>1 DEF ClaimPeer1, Peer1Open, Slots, EmptySlot
  <2>6. ApprovalStep
    BY <2>1, <2>3, <2>4, <2>5 DEF ApprovalStep
  <2>7. BelowFinal'
    BY <2>1, <2>2, FinishBelow DEF BelowFinal, OpenBelowFinal, FinalAuthority
  <2> QED BY <2>6, <2>7
<1>7. CASE ClaimPeer2(r)
  <2> DEFINE outcome ==
        Peer2Outcome(req[r].actor, req[r].dec, req[r].p1, req[r].p1d)
  <2>1. /\ offer'.status = outcome /\ offer'.p2 = req[r].actor
        /\ offer'.p2d = req[r].dec /\ Finish(r)
        /\ contract' = ChangeUwStatus(outcome)
    BY <1>2, <1>7 DEF ClaimPeer2, Offer
  <2>2. outcome # "AWAITING_APPROVAL"
    BY OutcomeType
  <2>3. ~FinalAuthority(req[r].p1)
    BY <1>7 DEF ClaimPeer2, At, BelowFinal, ReadBelowFinal
  <2>4. outcome = "AWAITING_SIGNED_LINE" => req[r].dec = "APPROVED"
    BY <2>3 DEF Peer2Outcome, Verdict
  <2>5. contract'.uw = outcome
    BY <1>3, <2>1 DEF ChangeUwStatus, Moved
  <2>6. Slots[2] = EmptySlot /\ Slots'[2] = <<req[r].actor, req[r].dec>>
    BY <1>7, <2>1 DEF ClaimPeer2, Peer2Open, Slots, EmptySlot
  <2>7. ApprovalStep
    BY <2>1, <2>4, <2>5, <2>6 DEF ApprovalStep
  <2>8. BelowFinal'
    BY <2>1, <2>2, FinishBelow DEF BelowFinal, OpenBelowFinal
  <2> QED BY <2>7, <2>8
<1>8. ASSUME NEW u \in Users, NEW dec \in Verdicts, LoadDispute(r, u, dec)
      PROVE  BelowFinal' /\ ApprovalStep
  <2> DEFINE now == [Idle EXCEPT !.pc = "arbiter_claim", !.actor = u,
                                 !.dec = dec, !.sub = offer.sub]
  <2>1. now.pc = "arbiter_claim"
    BY DEF Idle
  <2>2. Goto(r, now) /\ UNCHANGED <<contract, offer>>
    BY <1>8 DEF LoadDispute
  <2> HIDE DEF now
  <2>3. ReadBelowFinal'
    BY <2>1, <2>2, ReadBelow DEF BelowFinal
  <2> QED BY <2>2, <2>3
          DEF BelowFinal, OpenBelowFinal, ApprovalStep, FinalAuthority
<1>9. CASE ClaimArbiter(r)
  <2> DEFINE outcome == Verdict(req[r].dec)
  <2>1. /\ offer'.status = outcome /\ offer'.arb = req[r].actor
        /\ offer'.arbd = req[r].dec /\ Finish(r)
        /\ contract' = ChangeUwStatus(outcome)
    BY <1>2, <1>9 DEF ClaimArbiter, Offer
  <2>2. outcome # "AWAITING_APPROVAL"
    BY VerdictType
  <2>3. outcome = "AWAITING_SIGNED_LINE" => req[r].dec = "APPROVED"
    BY DEF Verdict
  <2>4. contract'.uw = outcome
    BY <1>3, <2>1 DEF ChangeUwStatus, Moved
  <2>5. Slots[3] = EmptySlot /\ Slots'[3] = <<req[r].actor, req[r].dec>>
    BY <1>2, <1>9, <2>1
       DEF ClaimArbiter, SlotsInOrder, Slots, EmptySlot
  <2>6. ApprovalStep
    BY <2>1, <2>3, <2>4, <2>5 DEF ApprovalStep
  <2>7. BelowFinal'
    BY <2>1, <2>2, FinishBelow DEF BelowFinal, OpenBelowFinal
  <2> QED BY <2>6, <2>7
<1> QED BY <1>4, <1>5, <1>6, <1>7, <1>8, <1>9 DEF Deciding

\* What every other step does to the three: its offer does not wait for a
\* second peer unless it is the old one or new, its request, if any, ends or
\* goes to a label of its own, and the treaty does not go to its signed line.
OtherStep(r) ==
  /\ \/ UNCHANGED offer
     \/ offer'.status # "AWAITING_APPROVAL"
     \/ offer'.p1 = NoUser
  /\ \/ Finish(r)
     \/ \E now : Goto(r, now) /\ now.pc \notin {"peer_route", "peer_claim"}
  /\ contract'.uw \in {contract.uw} \cup (UwStatus \ {"AWAITING_SIGNED_LINE"})

LEMMA OtherBelow ==
  ASSUME IInv, BelowFinal, NEW r \in Requests, OtherStep(r)
  PROVE  BelowFinal' /\ ApprovalStep
<1>1. OpenBelowFinal'
  BY DEF OtherStep, BelowFinal, OpenBelowFinal, FinalAuthority
<1>2. ReadBelowFinal'
  <2>1. CASE Finish(r)
    BY <2>1, FinishBelow DEF BelowFinal
  <2>2. ASSUME NEW now, Goto(r, now), now.pc \notin {"peer_route", "peer_claim"}
        PROVE  ReadBelowFinal'
    BY <2>2, ReadBelow DEF BelowFinal
  <2> QED BY <2>1, <2>2 DEF OtherStep
<1>3. ApprovalStep
  BY DEF OtherStep, ApprovalStep
<1> QED BY <1>1, <1>2, <1>3 DEF BelowFinal

LEMMA UwAfter ==
  ASSUME TypeOK, NEW to
  PROVE  ChangeUwStatus(to).uw = to
BY DEF ChangeUwStatus, Moved, TypeOK

LEMMA MirroredStatus ==
  ASSUME TypeOK, NEW status \in {"NTU", "DECLINED"}
  PROVE  Mirrored(status).status # "AWAITING_APPROVAL"
BY DEF TypeOK, Offer, Mirrored

LEMMA SubmittingOther ==
  ASSUME IInv, NEW r \in Requests, Submitting(r)
  PROVE  OtherStep(r)
<1>1. req[r] \in Request
  BY DEF IInv, TypeOK
<1>2. ASSUME NEW u \in Users, NEW line \in LineOrNull,
             PlanSubmission(r, u, line)
      PROVE  OtherStep(r)
  <2>1. PICK opts \in {Eligible(u), {}} :
          Goto(r, [Idle EXCEPT !.pc = "submit_upsert", !.actor = u,
                               !.opts = opts, !.line = line])
    BY <1>2 DEF PlanSubmission
  <2> DEFINE now == [Idle EXCEPT !.pc = "submit_upsert", !.actor = u,
                                 !.opts = opts, !.line = line]
  <2>2. now.pc = "submit_upsert"
    BY DEF Idle
  <2>3. Goto(r, now)
    BY <2>1
  <2> HIDE DEF now
  <2> QED BY <1>2, <2>2, <2>3 DEF PlanSubmission, OtherStep
<1>3. CASE UpsertOffer(r)
  <2> DEFINE now == [req[r] EXCEPT !.pc = "submit_write", !.from = contract.uw]
  <2>1. now.pc = "submit_write"
    BY <1>1 DEF Request
  <2>2. Goto(r, now)
    BY <1>3 DEF UpsertOffer
  <2> HIDE DEF now
  <2> QED BY <1>3, <2>1, <2>2 DEF UpsertOffer, OtherStep
<1>4. CASE CommitSubmission(r)
  <2>1. offer'.p1 = NoUser
    BY <1>4 DEF CommitSubmission, NewOffer
  <2>2. contract'.uw = "AWAITING_APPROVAL"
    BY <1>4, UwAfter DEF CommitSubmission, IInv
  <2> QED BY <1>4, <2>1, <2>2, StatusNames DEF CommitSubmission, OtherStep
<1> QED BY <1>2, <1>3, <1>4 DEF Submitting

LEMMA TerminatingOther ==
  ASSUME IInv, NEW r \in Requests, Terminating(r)
  PROVE  OtherStep(r)
<1>1. req[r] \in Request /\ TypeOK
  BY DEF IInv, TypeOK
<1>2. ASSUME NEW u \in Users, NEW action \in TerminalActions,
             NEW line \in LineOrNull, AssertTransition(r, u, action, line)
      PROVE  OtherStep(r)
  <2> DEFINE now == [Idle EXCEPT !.pc = "terminal_auth", !.action = action,
                     !.actor = u, !.from = contract.uw, !.line = line]
  <2>1. now.pc = "terminal_auth"
    BY DEF Idle
  <2>2. Goto(r, now)
    BY <1>2 DEF AssertTransition
  <2> HIDE DEF now
  <2> QED BY <1>2, <2>1, <2>2 DEF AssertTransition, OtherStep
<1>3. CASE AuthorizeTerminal(r)
  <2> DEFINE next ==
        IF req[r].action = "SIGN" THEN "sign_line" ELSE "terminal_write"
             now == [req[r] EXCEPT !.pc = next]
  <2>1. now.pc \in {"sign_line", "terminal_write"}
    BY <1>1 DEF Request
  <2>2. Goto(r, now)
    BY <1>3 DEF AuthorizeTerminal
  <2> HIDE DEF now
  <2> QED BY <1>3, <2>1, <2>2 DEF AuthorizeTerminal, OtherStep
<1>4. CASE CheckSignedLine(r)
  <2> DEFINE now == [req[r] EXCEPT !.pc = "terminal_write"]
  <2>1. now.pc = "terminal_write"
    BY <1>1 DEF Request
  <2>2. Goto(r, now)
    BY <1>4 DEF CheckSignedLine
  <2> HIDE DEF now
  <2> QED BY <1>4, <2>1, <2>2 DEF CheckSignedLine, OtherStep
<1>5. CASE Sign(r)
  <2>1. contract'.uw = "SIGNED"
    BY <1>1, <1>5 DEF Sign, ChangeUwStatus, Moved, TypeOK
  <2>2. offer' = offer \/ offer'.status = "SIGNED"
    BY <1>1, <1>5 DEF Sign, TypeOK, Offer
  <2> QED BY <1>5, <2>1, <2>2, StatusNames DEF Sign, OtherStep
<1>6. CASE MarkNotTakenUp(r)
  <2> DEFINE now == [Idle EXCEPT !.pc = "ntu_mirror"]
  <2>1. now.pc = "ntu_mirror"
    BY DEF Idle
  <2>2. Goto(r, now) /\ UNCHANGED offer
    BY <1>6 DEF MarkNotTakenUp
  <2>3. contract'.uw = "NTU"
    BY <1>1, <1>6, UwAfter DEF MarkNotTakenUp
  <2> HIDE DEF now
  <2> QED BY <2>1, <2>2, <2>3, StatusNames DEF OtherStep
<1>7. CASE MirrorNtu(r)
  BY <1>1, <1>7, MirroredStatus DEF MirrorNtu, OtherStep
<1>8. CASE SendBack(r)
  <2>1. contract'.uw = "DRAFT"
    BY <1>1, <1>8, UwAfter DEF SendBack
  <2>2. offer' = offer \/ offer'.status = "RETURNED"
    BY <1>1, <1>8 DEF SendBack, ResetOffer, TypeOK, Offer
  <2> QED BY <1>8, <2>1, <2>2, StatusNames DEF SendBack, OtherStep
<1> QED
  BY <1>2, <1>3, <1>4, <1>5, <1>6, <1>7, <1>8 DEF Terminating

LEMMA DecliningOther ==
  ASSUME IInv, NEW r \in Requests, Declining(r)
  PROVE  OtherStep(r)
<1>1. req[r] \in Request /\ TypeOK
  BY DEF IInv, TypeOK
<1>2. ASSUME NEW u \in Users, AuthorizeDecline(r, u)
      PROVE  OtherStep(r)
  <2> DEFINE now == [Idle EXCEPT !.pc = "decline_read", !.actor = u]
  <2>1. now.pc = "decline_read"
    BY DEF Idle
  <2>2. Goto(r, now)
    BY <1>2 DEF AuthorizeDecline
  <2> HIDE DEF now
  <2> QED BY <1>2, <2>1, <2>2 DEF AuthorizeDecline, OtherStep
<1>3. CASE ReadForDecline(r)
  <2> DEFINE now == [req[r] EXCEPT !.pc = "decline_write", !.from = contract.uw]
  <2>1. now.pc = "decline_write"
    BY <1>1 DEF Request
  <2>2. Goto(r, now)
    BY <1>3 DEF ReadForDecline
  <2> HIDE DEF now
  <2> QED BY <1>3, <2>1, <2>2 DEF ReadForDecline, OtherStep
<1>4. CASE CommitDecline(r)
  <2>1. contract'.uw = "DECLINED"
    BY <1>1, <1>4, UwAfter DEF CommitDecline
  <2> QED BY <1>1, <1>4, <2>1, MirroredStatus, StatusNames
          DEF CommitDecline, OtherStep
<1> QED BY <1>2, <1>3, <1>4 DEF Declining

\* A replacement also tells the requests that loaded the old offer that it is
\* gone; their labels and verdicts stay.
LEMMA ReplacingBelow ==
  ASSUME IInv, BelowFinal, NEW r \in Requests, Replacing(r)
  PROVE  BelowFinal' /\ ApprovalStep
<1>1. req[r] \in Request /\ TypeOK
  BY DEF IInv, TypeOK
<1>2. ASSUME NEW u \in Users, NEW line \in LineOrNull,
             ReadForReplace(r, u, line)
      PROVE  OtherStep(r)
  <2> DEFINE now == [Idle EXCEPT !.pc = "replace_check", !.actor = u,
                                 !.line = line]
  <2>1. now.pc = "replace_check"
    BY DEF Idle
  <2>2. Goto(r, now)
    BY <1>2 DEF ReadForReplace
  <2> HIDE DEF now
  <2> QED BY <1>2, <2>1, <2>2 DEF ReadForReplace, OtherStep
<1>3. ASSUME LockForReplace(r)
      PROVE  OtherStep(r)
  <2> DEFINE now == [req[r] EXCEPT !.pc = "replace_write"]
  <2>1. now.pc = "replace_write"
    BY <1>1 DEF Request
  <2>2. Goto(r, now)
    BY <1>3 DEF LockForReplace
  <2> HIDE DEF now
  <2> QED BY <1>3, <2>1, <2>2 DEF LockForReplace, OtherStep
<1>4. CASE CommitReplace(r)
  <2>1. offer'.p1 = NoUser /\ contract'.uw = contract.uw
    BY <1>1, <1>4 DEF CommitReplace, NewOffer, TypeOK
  <2>2. ASSUME NEW q \in Requests,
               req'[q].pc \in {"peer_route", "peer_claim"},
               req'[q].p1d # "NONE"
        PROVE  ~FinalAuthority(req'[q].p1)
    <3>1. req'[q] = IF q = r THEN Idle
                    ELSE [req[q] EXCEPT !.held = @ /\ req[q].pc \notin OfferLoaded]
      BY <1>4 DEF CommitReplace
    <3>2. q # r
      BY <2>2, <3>1 DEF Idle
    <3>3. /\ req'[q].pc = req[q].pc /\ req'[q].p1d = req[q].p1d
          /\ req'[q].p1 = req[q].p1
      BY <1>1, <3>1, <3>2 DEF TypeOK, Request
    <3> QED BY <2>2, <3>3 DEF BelowFinal, ReadBelowFinal
  <2>3. ReadBelowFinal'
    BY <2>2 DEF ReadBelowFinal, FinalAuthority
  <2> QED BY <2>1, <2>3 DEF BelowFinal, OpenBelowFinal, ApprovalStep
<1> QED BY <1>2, <1>3, <1>4, OtherBelow DEF Replacing

\* The header of a treaty save never leads to the signed line.
LEMMA EditHeaderUw ==
  ASSUME TypeOK, NEW u \in Users, NEW h \in Headers, EditHeader(u, h)
  PROVE  contract'.uw \in {contract.uw} \cup (UwStatus \ Privileged)
<1> DEFINE lined == [contract EXCEPT !.line = IF h.line = 0 THEN @ ELSE h.line]
           moved == IF h.uw = "NONE" THEN lined ELSE Moved(lined, h.uw)
<1>1. lined.uw = contract.uw
  BY DEF TypeOK
<1>2. moved.uw = IF h.uw = "NONE" THEN contract.uw ELSE h.uw
  BY <1>1 DEF Moved, TypeOK
<1>3. moved.uw \in {contract.uw} \cup (UwStatus \ Privileged)
  BY <1>2 DEF EditHeader, HeaderMove, UwStatus
<1>4. Moved(moved, h.status).uw = h.status
        /\ [moved EXCEPT !.status = h.status].uw = moved.uw
  BY <1>1 DEF Moved, TypeOK
<1>5. \/ contract' = moved
      \/ /\ h.status \in SM!UwStatuses \ Privileged
         /\ contract' = Moved(moved, h.status)
      \/ contract' = [moved EXCEPT !.status = h.status]
  BY DEF EditHeader
<1> HIDE DEF moved
<1> QED BY <1>3, <1>4, <1>5 DEF UwStatus

LEMMA InitBelow == Init => BelowFinal
<1> SUFFICES ASSUME Init
             PROVE  BelowFinal
  OBVIOUS
<1>1. OpenBelowFinal
  BY DEF Init, NewOffer, OpenBelowFinal
<1>2. ReadBelowFinal
  BY DEF Init, Idle, ReadBelowFinal
<1> QED BY <1>1, <1>2 DEF BelowFinal

LEMMA StepBelow == IInv /\ BelowFinal /\ [Next]_vars =>
                     BelowFinal' /\ [ApprovalStep]_vars
<1> SUFFICES ASSUME IInv, BelowFinal, [Next]_vars
             PROVE  BelowFinal' /\ [ApprovalStep]_vars
  OBVIOUS
<1>1. ASSUME NEW r \in Requests,
             Submitting(r) \/ Deciding(r) \/ Terminating(r) \/ Declining(r)
               \/ Replacing(r) \/ Fail(r)
      PROVE  BelowFinal' /\ ApprovalStep
  <2>1. CASE Deciding(r)
    BY <2>1, DecidingBelow
  <2>2. CASE Replacing(r)
    BY <2>2, ReplacingBelow
  <2>3. CASE Submitting(r) \/ Terminating(r) \/ Declining(r)
    BY <2>3, SubmittingOther, TerminatingOther, DecliningOther, OtherBelow
  <2>4. CASE Fail(r)
    <3>1. OtherStep(r)
      BY <2>4 DEF Fail, OtherStep
    <3> QED BY <3>1, OtherBelow
  <2> QED BY <1>1, <2>1, <2>2, <2>3, <2>4
<1>2. ASSUME UNCHANGED <<offer, req>>,
             contract'.uw \in {contract.uw} \cup (UwStatus \ Privileged)
      PROVE  BelowFinal' /\ ApprovalStep
  BY <1>2 DEF BelowFinal, OpenBelowFinal, ReadBelowFinal, FinalAuthority,
              ApprovalStep, Privileged
<1>3. CASE Reroute
  BY <1>2, <1>3 DEF Reroute
<1>4. ASSUME NEW u \in Users, NEW h \in Headers, EditHeader(u, h)
      PROVE  BelowFinal' /\ ApprovalStep
  BY <1>2, <1>4, EditHeaderUw DEF EditHeader, IInv
<1>5. CASE UNCHANGED vars
  BY <1>5 DEF vars, BelowFinal, OpenBelowFinal, ReadBelowFinal, FinalAuthority
<1> QED BY <1>1, <1>3, <1>4, <1>5 DEF Next

-----------------------------------------------------------------------------
(* The theorems *)

\* Four eyes, for any number of racing approvers and submissions: no schedule
\* puts the submitter, one person twice, or somebody off the stored list into
\* the peer slots.
THEOREM FourEyes == Spec => []SeparationOfDuties
<1>1. IInv => SeparationOfDuties
  BY DEF IInv
<1> QED BY <1>1, InductiveInvariant, PTL

\* The slots of an offer fill in order and each with a verdict, and an offer
\* is in dispute only with two verdicts and no arbiter.
THEOREM SlotOrder == Spec => []SlotsInOrder
<1>1. IInv => SlotsInOrder
  BY DEF IInv
<1> QED BY <1>1, InductiveInvariant, PTL

\* No vote is ever lost or overwritten: at every step at most one slot changes,
\* and only from empty, unless all three are emptied together.
THEOREM NoVoteRewritten == Spec => SlotsNeverRewritten
<1>1. IInv /\ [Next]_vars => [SlotStep]_vars
  BY StepKept DEF Kept
<1> QED BY <1>1, InductiveInvariant, PTL DEF Spec, SlotsNeverRewritten

\* A treaty reaches the stage of its signed line only with its offer, in a step
\* that fills a slot with an APPROVED verdict, however the requests interleave
\* and whatever status the saves of its header ask for.
THEOREM ApprovalNeedsVerdict == Spec => Provenance
BY InitBelow, StepBelow, InductiveInvariant, PTL DEF Spec, Provenance

-----------------------------------------------------------------------------
(* The five-tier rule and the decision record *)

InApproval == {"AWAITING_APPROVAL", "DISPUTE_PENDING"}

\* What a request that has loaded an offer still knows of the row, given the
\* number of the last submission. If the row belongs to the submission that was
\* loaded and still waits for a second peer, the first slot is as it was read;
\* if it is still in dispute, the arbiter is a third party of the right tier.
Informed(now, row, last) ==
  /\ now.pc \in OfferLoaded => now.sub <= last
  /\ now.pc \in {"peer_route", "peer_claim"} /\ now.sub = row.sub
       /\ row.status = "AWAITING_APPROVAL" /\ now.p1d # "NONE" =>
         row.p1 = now.p1 /\ row.p1d = now.p1d
  /\ now.pc = "arbiter_claim" /\ now.sub = row.sub /\ row.status \in InApproval =>
       /\ row.status = "DISPUTE_PENDING"
       /\ now.actor \notin {row.submitter, row.p1, row.p2}
       /\ ArbiterTier(now.actor)

ReadsTrue ==
  /\ offer.sub <= subs
  /\ \A r \in Requests : Informed(req[r], offer, subs)

\* The invariant: while every decision was made on the submission it had read,
\* the slots obey the rule and the record agrees with them.
RuleInv == ReadsTrue /\ DecisionRule /\ RecordAgrees

\* Ways a step may treat the row: leave its slots, open or close a submission,
\* or fill a slot.
KeepsStory ==
  /\ SameSlots
  /\ offer'.sub = offer.sub /\ offer'.fresh = offer.fresh
  /\ UNCHANGED <<decisions, subs>>
OpensStory ==
  /\ EmptySlots
  /\ offer'.status = "AWAITING_APPROVAL"
  /\ offer'.sub = subs + 1 /\ subs' = subs + 1
ClosesStory ==
  /\ EmptySlots
  /\ offer'.status \in {"PENDING", "RETURNED"}
  /\ offer'.sub <= subs /\ subs' = subs
FillsSlot ==
  /\ offer.status = "AWAITING_APPROVAL"
  /\ offer.p1d = "NONE" \/ offer'.status # "AWAITING_APPROVAL"
  /\ offer'.sub = offer.sub /\ subs' = subs

\* What a request knows outlives every step of the others.
LEMMA InformedKept ==
  ASSUME IInv, ReadsTrue, NEW now \in Request, Informed(now, offer, subs),
         \/ KeepsStory \/ OpensStory \/ ClosesStory \/ FillsSlot
         \/ offer'.status \notin InApproval /\ UNCHANGED subs
  PROVE  Informed(now, offer', subs')
<1>1. /\ now.sub \in Nat /\ subs \in Nat /\ offer.sub \in Nat
      /\ offer.status \in OfferStatus
  BY DEF IInv, TypeOK, Request, Offer
<1>2. CASE KeepsStory
  BY <1>2 DEF KeepsStory, SameSlots, Informed, InApproval
<1>3. CASE OpensStory
  BY <1>1, <1>3 DEF OpensStory, Informed, InApproval, OfferLoaded
<1>4. CASE ClosesStory
  BY <1>4 DEF ClosesStory, Informed, InApproval
<1>5. CASE FillsSlot
  BY <1>5 DEF FillsSlot, Informed, InApproval
<1>6. CASE offer'.status \notin InApproval /\ UNCHANGED subs
  BY <1>6 DEF Informed, InApproval
<1> QED BY <1>2, <1>3, <1>4, <1>5, <1>6

\* What the other requests keep of their reads; a replacement tells them that
\* the row they loaded is gone, and no more.
SameRead(was, now) ==
  /\ now.pc = was.pc /\ now.sub = was.sub /\ now.actor = was.actor
  /\ now.p1 = was.p1 /\ now.p1d = was.p1d
Forgets(r) ==
  \A q \in Requests :
    \/ req'[q].pc \notin OfferLoaded
    \/ q # r /\ SameRead(req[q], req'[q])

LEMMA GotoForgets ==
  ASSUME IInv, NEW r \in Requests, NEW now, now.pc \notin OfferLoaded, Goto(r, now)
  PROVE  Forgets(r)
BY DEF Goto, Forgets, SameRead, IInv, TypeOK

LEMMA FinishForgets ==
  ASSUME IInv, NEW r \in Requests, Finish(r)
  PROVE  Forgets(r)
<1>1. Idle.pc \notin OfferLoaded
  BY DEF Idle, OfferLoaded
<1> QED BY <1>1, GotoForgets DEF Finish

\* A step that loads nothing leaves every request as well informed as it was.
LEMMA ForgetsTrue ==
  ASSUME IInv, ReadsTrue, NEW r \in Requests, Forgets(r), offer'.sub <= subs',
         \/ KeepsStory \/ OpensStory \/ ClosesStory \/ FillsSlot
         \/ offer'.status \notin InApproval /\ UNCHANGED subs
  PROVE  ReadsTrue'
<1>1. ASSUME NEW q \in Requests
      PROVE  Informed(req'[q], offer', subs')
  <2>1. CASE req'[q].pc \notin OfferLoaded
    BY <2>1 DEF Informed, OfferLoaded
  <2>2. CASE SameRead(req[q], req'[q])
    <3>1. Informed(req[q], offer', subs')
      BY InformedKept DEF IInv, TypeOK, ReadsTrue
    <3> QED BY <2>2, <3>1 DEF SameRead, Informed
  <2> QED BY <2>1, <2>2 DEF Forgets
<1> QED BY <1>1 DEF ReadsTrue

LEMMA StoryRule ==
  ASSUME IInv, RuleInv, NEW r \in Requests, Forgets(r),
         KeepsStory \/ OpensStory \/ ClosesStory
  PROVE  RuleInv'
<1>1. offer.sub \in Nat /\ subs \in Nat
  BY DEF IInv, TypeOK, Offer
<1>2. ReadsTrue'
  <2>1. offer'.sub <= subs'
    BY <1>1 DEF KeepsStory, OpensStory, ClosesStory, RuleInv, ReadsTrue
  <2> QED BY <2>1, ForgetsTrue DEF RuleInv
<1>3. DecisionRule'
  <2>1. CASE KeepsStory
    BY <2>1 DEF KeepsStory, SameSlots, RuleInv, DecisionRule, FinalAuthority,
                ArbiterTier
  <2>2. CASE OpensStory \/ ClosesStory
    BY <2>2 DEF OpensStory, ClosesStory, EmptySlots, DecisionRule
  <2> QED BY <2>1, <2>2
<1>4. RecordAgrees'
  <2>1. CASE KeepsStory
    BY <2>1 DEF KeepsStory, SameSlots, RuleInv, RecordAgrees
  <2>2. CASE OpensStory \/ ClosesStory
    BY <2>2 DEF OpensStory, ClosesStory, EmptySlots, RecordAgrees
  <2> QED BY <2>1, <2>2
<1> QED BY <1>2, <1>3, <1>4 DEF RuleInv

\* What every step but those of a decision does.
TellsStory(r) == Forgets(r) /\ (KeepsStory \/ OpensStory \/ ClosesStory)

\* A read: the request goes on to a label that carries no offer.
LEMMA ReadTells ==
  ASSUME IInv, NEW r \in Requests, NEW now, Goto(r, now),
         now.pc \notin OfferLoaded, UNCHANGED <<offer, decisions, subs>>
  PROVE  TellsStory(r)
<1>1. SameSlots
  BY DEF SameSlots
<1> QED BY <1>1, GotoForgets DEF TellsStory, KeepsStory

LEMMA SubmittingTells ==
  ASSUME IInv, NEW r \in Requests, Submitting(r)
  PROVE  TellsStory(r)
<1>1. req[r] \in Request /\ CarriedBy(req[r])
  BY DEF IInv, TypeOK, CarriedFacts, CarriedBy
<1>2. ASSUME NEW u \in Users, NEW line \in LineOrNull,
             PlanSubmission(r, u, line)
      PROVE  TellsStory(r)
  <2>1. PICK opts \in {Eligible(u), {}} :
          Goto(r, [Idle EXCEPT !.pc = "submit_upsert", !.actor = u,
                               !.opts = opts, !.line = line])
    BY <1>2 DEF PlanSubmission
  <2>2. [Idle EXCEPT !.pc = "submit_upsert", !.actor = u, !.opts = opts,
                     !.line = line].pc \notin OfferLoaded
    BY DEF Idle, OfferLoaded
  <2> QED BY <1>2, <2>1, <2>2, ReadTells DEF PlanSubmission
<1>3. CASE UpsertOffer(r)
  <2>1. [req[r] EXCEPT !.pc = "submit_write", !.from = contract.uw].pc
          \notin OfferLoaded
    BY <1>1 DEF Request, OfferLoaded
  <2> QED BY <1>3, <2>1, ReadTells DEF UpsertOffer
<1>4. CASE CommitSubmission(r)
  <2>1. OpensStory
    BY <1>1, <1>4
       DEF CommitSubmission, At, CarriedBy, OpensStory, EmptySlots, NewOffer
  <2> QED BY <1>4, <2>1, FinishForgets DEF CommitSubmission, TellsStory
<1> QED BY <1>2, <1>3, <1>4 DEF Submitting

LEMMA MirroredTells ==
  ASSUME TypeOK, NEW status \in {"NTU", "DECLINED"}, offer' = Mirrored(status),
         UNCHANGED <<decisions, subs>>
  PROVE  KeepsStory
<1>1. offer'.sub = offer.sub /\ offer'.fresh = offer.fresh
  BY DEF TypeOK, Offer, Mirrored
<1> QED BY <1>1, MirroredSlots DEF KeepsStory

LEMMA TerminatingTells ==
  ASSUME IInv, ReadsTrue, NEW r \in Requests, Terminating(r)
  PROVE  TellsStory(r)
<1>1. req[r] \in Request /\ offer \in Offer /\ TypeOK
  BY DEF IInv, TypeOK
<1>2. ASSUME NEW u \in Users, NEW action \in TerminalActions,
             NEW line \in LineOrNull, AssertTransition(r, u, action, line)
      PROVE  TellsStory(r)
  <2>1. [Idle EXCEPT !.pc = "terminal_auth", !.action = action, !.actor = u,
                     !.from = contract.uw, !.line = line].pc \notin OfferLoaded
    BY DEF Idle, OfferLoaded
  <2> QED BY <1>2, <2>1, ReadTells DEF AssertTransition
<1>3. CASE AuthorizeTerminal(r)
  <2> DEFINE next ==
        IF req[r].action = "SIGN" THEN "sign_line" ELSE "terminal_write"
  <2>1. [req[r] EXCEPT !.pc = next].pc \notin OfferLoaded
    BY <1>1 DEF Request, OfferLoaded
  <2> QED BY <1>3, <2>1, ReadTells DEF AuthorizeTerminal
<1>4. CASE CheckSignedLine(r)
  <2>1. [req[r] EXCEPT !.pc = "terminal_write"].pc \notin OfferLoaded
    BY <1>1 DEF Request, OfferLoaded
  <2> QED BY <1>4, <2>1, ReadTells DEF CheckSignedLine
<1>5. CASE Sign(r)
  <2>1. KeepsStory
    BY <1>1, <1>5 DEF Sign, KeepsStory, SameSlots, Offer
  <2> QED BY <1>5, <2>1, FinishForgets DEF Sign, TellsStory
<1>6. CASE MarkNotTakenUp(r)
  <2>1. [Idle EXCEPT !.pc = "ntu_mirror"].pc \notin OfferLoaded
    BY DEF Idle, OfferLoaded
  <2> QED BY <1>6, <2>1, ReadTells DEF MarkNotTakenUp
<1>7. CASE MirrorNtu(r)
  BY <1>1, <1>7, MirroredTells, FinishForgets DEF MirrorNtu, TellsStory
<1>8. CASE SendBack(r)
  <2>1. CASE offer.status = "ABSENT"
    <3>1. KeepsStory
      BY <1>8, <2>1 DEF SendBack, KeepsStory, SameSlots
    <3> QED BY <1>8, <3>1, FinishForgets DEF SendBack, TellsStory
  <2>2. CASE offer.status # "ABSENT"
    <3>1. EmptySlots /\ offer'.status = "RETURNED" /\ offer'.sub = offer.sub
      BY <1>1, <1>8, <2>2
         DEF SendBack, ResetOffer, EmptySlots, IInv, Offer, ListExcludesSubmitter
    <3>2. ClosesStory
      BY <1>8, <3>1 DEF SendBack, ClosesStory, ReadsTrue
    <3> QED BY <1>8, <3>2, FinishForgets DEF SendBack, TellsStory
  <2> QED BY <2>1, <2>2
<1> QED
  BY <1>2, <1>3, <1>4, <1>5, <1>6, <1>7, <1>8 DEF Terminating

LEMMA DecliningTells ==
  ASSUME IInv, NEW r \in Requests, Declining(r)
  PROVE  TellsStory(r)
<1>1. req[r] \in Request /\ TypeOK
  BY DEF IInv, TypeOK
<1>2. ASSUME NEW u \in Users, AuthorizeDecline(r, u)
      PROVE  TellsStory(r)
  <2>1. [Idle EXCEPT !.pc = "decline_read", !.actor = u].pc \notin OfferLoaded
    BY DEF Idle, OfferLoaded
  <2> QED BY <1>2, <2>1, ReadTells DEF AuthorizeDecline
<1>3. CASE ReadForDecline(r)
  <2>1. [req[r] EXCEPT !.pc = "decline_write", !.from = contract.uw].pc
          \notin OfferLoaded
    BY <1>1 DEF Request, OfferLoaded
  <2> QED BY <1>3, <2>1, ReadTells DEF ReadForDecline
<1>4. CASE CommitDecline(r)
  BY <1>1, <1>4, MirroredTells, FinishForgets DEF CommitDecline, TellsStory
<1> QED BY <1>2, <1>3, <1>4 DEF Declining

LEMMA ReplacingTells ==
  ASSUME IInv, NEW r \in Requests, Replacing(r)
  PROVE  TellsStory(r)
<1>1. req[r] \in Request /\ subs \in Nat
  BY DEF IInv, TypeOK
<1>2. ASSUME NEW u \in Users, NEW line \in LineOrNull,
             ReadForReplace(r, u, line)
      PROVE  TellsStory(r)
  <2>1. [Idle EXCEPT !.pc = "replace_check", !.actor = u, !.line = line].pc
          \notin OfferLoaded
    BY DEF Idle, OfferLoaded
  <2> QED BY <1>2, <2>1, ReadTells DEF ReadForReplace
<1>3. CASE LockForReplace(r)
  <2>1. [req[r] EXCEPT !.pc = "replace_write"].pc \notin OfferLoaded
    BY <1>1 DEF Request, OfferLoaded
  <2> QED BY <1>3, <2>1, ReadTells DEF LockForReplace
<1>4. CASE CommitReplace(r)
  <2>1. ClosesStory
    BY <1>1, <1>4 DEF CommitReplace, NewOffer, ClosesStory, EmptySlots
  <2>2. ASSUME NEW q \in Requests
        PROVE  \/ req'[q].pc \notin OfferLoaded
               \/ q # r /\ SameRead(req[q], req'[q])
    <3>1. req[q] \in Request
      BY DEF IInv, TypeOK
    <3>2. req'[q] = IF q = r THEN Idle
                    ELSE [req[q] EXCEPT !.held = @ /\ req[q].pc \notin OfferLoaded]
      BY <1>4 DEF CommitReplace
    <3>3. CASE q = r
      <4>1. Idle.pc \notin OfferLoaded
        BY DEF Idle, OfferLoaded
      <4> QED BY <3>2, <3>3, <4>1
    <3>4. CASE q # r
      BY <3>1, <3>2, <3>4 DEF Request, SameRead
    <3> QED BY <3>3, <3>4
  <2> QED BY <2>1, <2>2 DEF TellsStory, Forgets
<1> QED BY <1>2, <1>3, <1>4 DEF Replacing

LEMMA FailTells ==
  ASSUME IInv, NEW r \in Requests, Fail(r)
  PROVE  TellsStory(r)
<1>1. SameSlots
  BY DEF Fail, SameSlots
<1> QED BY <1>1, FinishForgets DEF Fail, TellsStory, KeepsStory

\* A decision that loads: the request knows what it has just read.
LEMMA LoadTrue ==
  ASSUME IInv, RuleInv, NEW r \in Requests, NEW now \in Request, Goto(r, now),
         Informed(now, offer, subs), UNCHANGED <<offer, decisions, subs>>
  PROVE  RuleInv'
<1>1. ASSUME NEW q \in Requests
      PROVE  Informed(req'[q], offer', subs')
  <2>1. req'[q] = IF q = r THEN now ELSE req[q]
    BY DEF Goto, IInv, TypeOK
  <2> QED BY <2>1 DEF RuleInv, ReadsTrue
<1>2. ReadsTrue'
  BY <1>1 DEF ReadsTrue, RuleInv
<1>3. DecisionRule' /\ RecordAgrees'
  BY DEF RuleInv, DecisionRule, RecordAgrees, FinalAuthority, ArbiterTier
<1> QED BY <1>2, <1>3 DEF RuleInv

\* The heart of it: a decision on the submission that was read finds the first
\* slot as it was read, so the outcome it computes is the rule's.
LEMMA DecidingRule ==
  ASSUME IInv, RuleInv, NEW r \in Requests, Deciding(r)
  PROVE  RuleInv'
<1>1. req[r] \in Request /\ CarriedBy(req[r]) /\ Informed(req[r], offer, subs)
  BY DEF IInv, TypeOK, CarriedFacts, CarriedBy, RuleInv, ReadsTrue
<1>2. offer \in Offer /\ SlotsInOrder /\ decisions \in [Users -> Decision]
  BY DEF IInv, TypeOK
<1>3. /\ NoUser \notin Users /\ NoUser \notin offer.opts /\ "NONE" \notin Verdicts
      /\ offer.opts \subseteq Users
  BY <1>2, UsersAssumption DEF Offer, Verdicts
<1>4. offer.sub <= subs
  BY DEF RuleInv, ReadsTrue
<1>5. ASSUME NEW u \in Users, NEW dec \in Verdicts, LoadOffer(r, u, dec)
      PROVE  RuleInv'
  <2> DEFINE now == [Idle EXCEPT !.pc = "peer_route", !.actor = u, !.dec = dec,
                     !.opts = offer.opts, !.submitter = offer.submitter,
                     !.p1 = offer.p1, !.p1d = offer.p1d, !.sub = offer.sub]
  <2>1. now \in Request
    BY <1>2, IdleType DEF Request, Offer, PcLabels, UserOrNull, Decision
  <2>2. Informed(now, offer, subs)
    BY <1>4 DEF Informed, Idle, OfferLoaded
  <2>3. Goto(r, now) /\ UNCHANGED <<offer, decisions, subs>>
    BY <1>5 DEF LoadOffer
  <2> HIDE DEF now
  <2> QED BY <2>1, <2>2, <2>3, LoadTrue
<1>6. CASE CheckRouting(r)
  <2> DEFINE now == [req[r] EXCEPT !.pc = "peer_claim", !.opts = {},
                                   !.submitter = NoUser]
  <2>1. now \in Request
    BY <1>1 DEF Request, PcLabels, UserOrNull
  <2>2. Informed(now, offer, subs)
    BY <1>1, <1>6 DEF CheckRouting, At, Request, Informed, OfferLoaded
  <2>3. Goto(r, now) /\ UNCHANGED <<offer, decisions, subs>>
    BY <1>6 DEF CheckRouting
  <2> HIDE DEF now
  <2> QED BY <2>1, <2>2, <2>3, LoadTrue
<1>7. ASSUME NEW u \in Users, NEW dec \in Verdicts, LoadDispute(r, u, dec)
      PROVE  RuleInv'
  <2> DEFINE now == [Idle EXCEPT !.pc = "arbiter_claim", !.actor = u,
                                 !.dec = dec, !.sub = offer.sub]
  <2>1. now \in Request
    BY <1>2, IdleType DEF Request, Offer, PcLabels, UserOrNull, Decision
  <2>2. Informed(now, offer, subs)
    BY <1>4, <1>7 DEF LoadDispute, Informed, Idle, OfferLoaded
  <2>3. Goto(r, now) /\ UNCHANGED <<offer, decisions, subs>>
    BY <1>7 DEF LoadDispute
  <2> HIDE DEF now
  <2> QED BY <2>1, <2>2, <2>3, LoadTrue
<1>8. CASE ClaimPeer1(r)
  <2> DEFINE actor == req[r].actor
             outcome == Peer1Outcome(actor, req[r].dec)
  <2>1. actor \in Users /\ req[r].dec \in Verdicts
    BY <1>1, <1>8 DEF ClaimPeer1, At, CarriedBy, OfferLoaded
  <2>2. /\ offer.status = "AWAITING_APPROVAL" /\ offer.p1d = "NONE"
        /\ offer.p2 = NoUser /\ offer.arb = NoUser
    BY <1>2, <1>8 DEF ClaimPeer1, Peer1Open, SlotsInOrder
  <2>3. /\ offer'.p1 = actor /\ offer'.p1d = req[r].dec /\ offer'.status = outcome
        /\ offer'.p2 = NoUser /\ offer'.arb = NoUser /\ offer'.sub = offer.sub
        /\ UNCHANGED subs /\ decisions' = RecordDecision(actor, req[r].dec)
        /\ Finish(r)
    BY <1>2, <1>8, <2>2 DEF ClaimPeer1, Offer
  <2>4. ReadsTrue'
    BY <1>4, <2>2, <2>3, FinishForgets, ForgetsTrue DEF RuleInv, FillsSlot
  <2>5. DecisionRule'
    <3>1. outcome = "AWAITING_SIGNED_LINE" =>
            req[r].dec = "APPROVED" /\ FinalAuthority(actor)
      BY DEF Peer1Outcome, Verdict
    <3>2. outcome # "DISPUTE_PENDING"
      BY OutcomeType
    <3> QED BY <2>3, <3>1, <3>2 DEF DecisionRule, FinalAuthority
  <2>6. RecordAgrees'
    BY <1>2, <2>1, <2>3 DEF RecordAgrees, RecordDecision
  <2> QED BY <2>4, <2>5, <2>6 DEF RuleInv
<1>9. CASE ClaimPeer2(r)
  <2> DEFINE actor == req[r].actor
             dec == req[r].dec
             outcome == Peer2Outcome(actor, dec, req[r].p1, req[r].p1d)
  <2>1. actor \in Users /\ dec \in Verdicts
    BY <1>1, <1>9 DEF ClaimPeer2, At, CarriedBy, OfferLoaded
  <2>2. /\ offer.status = "AWAITING_APPROVAL" /\ offer.p1 # actor
        /\ offer.p1 # NoUser /\ offer.p2 = NoUser /\ offer.arb = NoUser
    BY <1>2, <1>9 DEF ClaimPeer2, Peer2Open, SlotsInOrder
  <2>3. /\ offer'.p1 = offer.p1 /\ offer'.p1d = offer.p1d
        /\ offer'.p2 = actor /\ offer'.p2d = dec /\ offer'.status = outcome
        /\ offer'.arb = NoUser /\ offer'.sub = offer.sub
        /\ (offer'.fresh => offer.fresh /\ req[r].sub = offer.sub)
        /\ UNCHANGED subs /\ decisions' = RecordDecision(actor, dec)
        /\ Finish(r)
    BY <1>2, <1>9, <2>2 DEF ClaimPeer2, Offer
  <2>4. outcome # "AWAITING_APPROVAL"
    BY OutcomeType
  <2>5. ReadsTrue'
    BY <1>4, <2>2, <2>3, <2>4, FinishForgets, ForgetsTrue DEF RuleInv, FillsSlot
  <2>6. offer'.fresh => req[r].p1 = offer.p1 /\ req[r].p1d = offer.p1d
    BY <1>1, <1>9, <2>2, <2>3 DEF ClaimPeer2, At, Informed
  <2>7. DecisionRule'
    <3>1. CASE offer'.fresh
      <4>1. outcome = Peer2Outcome(actor, dec, offer.p1, offer.p1d)
        BY <2>6, <3>1
      <4>2. outcome = "AWAITING_SIGNED_LINE" =>
              \/ offer.p1d = "APPROVED" /\ (dec = "APPROVED" \/ FinalAuthority(offer.p1))
              \/ dec = "APPROVED" /\ FinalAuthority(actor)
        BY <4>1 DEF Peer2Outcome, Verdict
      <4>3. outcome = "DISPUTE_PENDING" =>
              /\ offer.p1d # dec
              /\ ~FinalAuthority(offer.p1) /\ ~FinalAuthority(actor)
        BY <4>1 DEF Peer2Outcome, Verdict
      <4> HIDE DEF outcome
      <4> QED BY <2>3, <4>2, <4>3 DEF DecisionRule, FinalAuthority
    <3>2. CASE ~offer'.fresh
      BY <3>2 DEF DecisionRule
    <3> QED BY <3>1, <3>2
  <2>8. RecordAgrees'
    <3>1. offer.p1 \in UserOrNull
      BY <1>2 DEF Offer
    <3>2. decisions'[actor] = dec /\ (offer.p1 \in Users => decisions'[offer.p1] = decisions[offer.p1])
      BY <1>2, <2>1, <2>2, <2>3 DEF RecordDecision
    <3> QED BY <2>2, <2>3, <3>1, <3>2 DEF RecordAgrees, RuleInv, UserOrNull
  <2> QED BY <2>5, <2>7, <2>8 DEF RuleInv
<1>10. CASE ClaimArbiter(r)
  <2> DEFINE actor == req[r].actor
             dec == req[r].dec
             outcome == Verdict(dec)
  <2>1. actor \in Users /\ dec \in Verdicts
    BY <1>1, <1>10 DEF ClaimArbiter, At, CarriedBy, OfferLoaded
  <2>2. offer.status = "DISPUTE_PENDING" /\ offer.arb = NoUser
    BY <1>10 DEF ClaimArbiter
  <2>3. /\ offer'.p1 = offer.p1 /\ offer'.p1d = offer.p1d
        /\ offer'.p2 = offer.p2 /\ offer'.p2d = offer.p2d
        /\ offer'.arb = actor /\ offer'.arbd = dec /\ offer'.status = outcome
        /\ offer'.submitter = offer.submitter /\ offer'.sub = offer.sub
        /\ (offer'.fresh => offer.fresh /\ req[r].sub = offer.sub)
        /\ UNCHANGED subs /\ decisions' = RecordDecision(actor, dec)
        /\ Finish(r)
    BY <1>2, <1>10 DEF ClaimArbiter, Offer
  <2>4. outcome \notin InApproval
    BY VerdictType DEF InApproval
  <2>5. ReadsTrue'
    BY <1>4, <2>3, <2>4, FinishForgets, ForgetsTrue DEF RuleInv
  <2>6. offer'.fresh =>
          ArbiterTier(actor) /\ actor \notin {offer.submitter, offer.p1, offer.p2}
    BY <1>1, <1>10, <2>2, <2>3 DEF ClaimArbiter, At, Informed, InApproval
  <2>7. DecisionRule'
    <3>1. outcome = "AWAITING_SIGNED_LINE" => dec = "APPROVED"
      BY DEF Verdict
    <3>2. offer.fresh => /\ offer.p1d # offer.p2d
                         /\ ~FinalAuthority(offer.p1) /\ ~FinalAuthority(offer.p2)
      BY <2>2 DEF RuleInv, DecisionRule
    <3> HIDE DEF outcome
    <3> QED BY <2>3, <2>6, <3>1, <3>2 DEF DecisionRule, FinalAuthority, ArbiterTier
  <2>8. RecordAgrees'
    <3>1. offer.p1 \in UserOrNull /\ offer.p2 \in UserOrNull
      BY <1>2 DEF Offer
    <3>2. decisions'[actor] = dec
            /\ \A u \in Users \ {actor} : decisions'[u] = decisions[u]
      BY <1>2, <2>1, <2>3 DEF RecordDecision
    <3> QED BY <2>3, <2>6, <3>1, <3>2 DEF RecordAgrees, RuleInv, UserOrNull
  <2> QED BY <2>5, <2>7, <2>8 DEF RuleInv
<1> QED BY <1>5, <1>6, <1>7, <1>8, <1>9, <1>10 DEF Deciding

LEMMA InitRule == Init => RuleInv
<1> SUFFICES ASSUME Init
             PROVE  RuleInv
  OBVIOUS
<1>1. PICK status \in InitialOffers :
        offer = NewOffer(status, 0, NoUser, {}, 0, 0)
  BY DEF Init
<1>2. ReadsTrue
  BY <1>1 DEF Init, NewOffer, ReadsTrue, Informed, Idle, OfferLoaded
<1>3. DecisionRule /\ RecordAgrees
  BY <1>1, InitialAssumption DEF NewOffer, DecisionRule, RecordAgrees
<1> QED BY <1>2, <1>3 DEF RuleInv

LEMMA StepRule == IInv /\ RuleInv /\ [Next]_vars => RuleInv'
<1> SUFFICES ASSUME IInv, RuleInv, [Next]_vars
             PROVE  RuleInv'
  OBVIOUS
<1>1. ASSUME NEW r \in Requests,
             Submitting(r) \/ Deciding(r) \/ Terminating(r) \/ Declining(r)
               \/ Replacing(r) \/ Fail(r)
      PROVE  RuleInv'
  <2>1. CASE Deciding(r)
    BY <2>1, DecidingRule
  <2>2. ASSUME TellsStory(r)
        PROVE  RuleInv'
    BY <2>2, StoryRule DEF TellsStory
  <2> QED
    BY <1>1, <2>1, <2>2, SubmittingTells, TerminatingTells, DecliningTells,
       ReplacingTells, FailTells DEF RuleInv
<1>2. ASSUME UNCHANGED <<offer, decisions, subs, req>>
      PROVE  RuleInv'
  BY <1>2 DEF RuleInv, ReadsTrue, Informed, DecisionRule, RecordAgrees,
              FinalAuthority, ArbiterTier
<1>3. CASE Reroute
  BY <1>2, <1>3 DEF Reroute
<1>4. ASSUME NEW u \in Users, NEW h \in Headers, EditHeader(u, h)
      PROVE  RuleInv'
  BY <1>2, <1>4 DEF EditHeader
<1>5. CASE UNCHANGED vars
  BY <1>2, <1>5 DEF vars
<1> QED BY <1>1, <1>3, <1>4, <1>5 DEF Next

LEMMA RuleKept == Spec => []RuleInv
BY InitRule, StepRule, InductiveInvariant, PTL DEF Spec

\* The five-tier rule, for any number of racing approvers: as long as every
\* verdict was given on the submission it had read, the outcome is that of
\* applyPeerOutcome on the verdicts in the row, and the arbiter is a third party.
THEOREM RuleObeyed == Spec => []DecisionRule
<1>1. RuleInv => DecisionRule
  BY DEF RuleInv
<1> QED BY <1>1, RuleKept, PTL

\* approval_decision says of everybody in a slot what the slot says, as long as
\* every verdict was given on the submission it had read.
THEOREM RecordOfTruth == Spec => []RecordAgrees
<1>1. RuleInv => RecordAgrees
  BY DEF RuleInv
<1> QED BY <1>1, RuleKept, PTL

-----------------------------------------------------------------------------
(* What saveOffer may destroy *)

\* "With an offer row saved before the first submission": there is a row, so
\* that FOR UPDATE locks it. Without one a first submission can be destroyed.
RowSaved == InitialOffers = {"PENDING"}

\* No save of the form takes a treaty to AWAITING_APPROVAL without a submission.
FormsSubmitNothing ==
  \A h \in Headers : "AWAITING_APPROVAL" \notin {h.uw, h.status}

Waits == PriorStates("RECALL")
WriteLabels == {"submit_write", "replace_write"}

\* Whoever is about to write under the row lock holds it, and a replacement
\* finds the row as its check has left it.
RowHeld ==
  /\ offer.status # "ABSENT"
  /\ \A r \in Requests :
       /\ req[r].pc \in WriteLabels => lock = r
       /\ req[r].pc = "replace_write" => Replaceable

\* A treaty in approval has its submitter, and an offer that saveOffer refuses.
Recoverable ==
  /\ offer.status \in InApproval => offer.submitter \in Users
  /\ contract.uw \in Waits =>
       offer.submitter \in Users /\ offer.status \notin {"PENDING", "RETURNED"}

\* The shapes of the steps of one request: it reads, takes the row lock, or
\* writes a row that nobody holds.
Looks(r) ==
  /\ \E now : Goto(r, now) /\ now.pc \notin WriteLabels
  /\ UNCHANGED <<offer, lock>>
  /\ contract'.uw = contract.uw \/ contract'.uw \notin Waits

Locks(r) ==
  /\ \E now : Goto(r, now) /\ (now.pc = "replace_write" => Replaceable)
  /\ OfferFree(r) /\ lock' = r
  /\ UNCHANGED <<offer, contract>>

Overwrites(r) ==
  /\ Finish(r)
  /\ OfferFree(r)
  /\ lock' = lock
  /\ offer'.submitter = offer.submitter
  /\ offer'.status \in OfferStatus \ {"ABSENT", "PENDING"}
  /\ offer'.status \in InApproval => offer.status \in InApproval
  /\ contract'.uw \in Waits =>
       /\ contract'.uw = contract.uw \/ offer.status \in InApproval
       /\ offer'.status # "RETURNED"

Shaped(r) == Looks(r) \/ Locks(r) \/ Overwrites(r)

\* The step leaves an approval in flight alone.
Spares ==
  offer.status \in {"AWAITING_APPROVAL", "DISPUTE_PENDING"} =>
    offer.status' # "PENDING"

LEMMA GotoHeld ==
  ASSUME IInv, NEW r \in Requests, NEW now, Goto(r, now), NEW q \in Requests
  PROVE  req'[q] = IF q = r THEN now ELSE req[q]
BY DEF Goto, IInv, TypeOK

LEMMA FinishHeld ==
  ASSUME IInv, NEW r \in Requests, Finish(r), NEW q \in Requests
  PROVE  req'[q].pc \in WriteLabels => q # r /\ req'[q] = req[q]
<1>1. Idle.pc \notin WriteLabels
  BY DEF Idle, WriteLabels
<1>2. req'[q] = IF q = r THEN Idle ELSE req[q]
  BY GotoHeld DEF Finish
<1> QED BY <1>1, <1>2

LEMMA ShapedHolds ==
  ASSUME IInv, RowHeld, NEW r \in Requests, Shaped(r)
  PROVE  RowHeld' /\ Spares
<1>1. r # NoRequest
  BY RequestAssumption
<1>2. CASE Looks(r)
  <2>1. PICK now : Goto(r, now) /\ now.pc \notin WriteLabels
    BY <1>2 DEF Looks
  <2>2. \A q \in Requests : req'[q] = IF q = r THEN now ELSE req[q]
    BY <2>1, GotoHeld
  <2> QED BY <1>2, <2>1, <2>2
          DEF Looks, RowHeld, Replaceable, Spares, WriteLabels
<1>3. CASE Locks(r)
  <2>1. PICK now : Goto(r, now) /\ (now.pc = "replace_write" => Replaceable)
    BY <1>3 DEF Locks
  <2>2. \A q \in Requests : req'[q] = IF q = r THEN now ELSE req[q]
    BY <2>1, GotoHeld
  <2>3. \A q \in Requests \ {r} : req[q].pc \notin WriteLabels
    BY <1>1, <1>3, RequestAssumption DEF Locks, OfferFree, RowHeld
  <2> QED BY <1>3, <2>1, <2>2, <2>3
          DEF Locks, RowHeld, Replaceable, Spares, WriteLabels
<1>4. CASE Overwrites(r)
  <2>1. \A q \in Requests : req'[q].pc \notin WriteLabels
    BY <1>4, FinishHeld, RequestAssumption DEF Overwrites, OfferFree, RowHeld
  <2> QED BY <1>4, <2>1 DEF Overwrites, RowHeld, Spares, WriteLabels
<1> QED BY <1>2, <1>3, <1>4 DEF Shaped

LEMMA ShapedRecovers ==
  ASSUME Recoverable, NEW r \in Requests, Shaped(r)
  PROVE  Recoverable'
<1>1. CASE Looks(r)
  BY <1>1 DEF Looks, Recoverable, Waits, PriorStates
<1>2. CASE Locks(r)
  BY <1>2 DEF Locks, Recoverable, Waits, PriorStates
<1>3. CASE Overwrites(r)
  BY <1>3 DEF Overwrites, Recoverable, Waits, PriorStates
<1> QED BY <1>1, <1>2, <1>3 DEF Shaped

LEMMA SubmittingShaped ==
  ASSUME IInv, RowHeld, NEW r \in Requests, Submitting(r)
  PROVE  \/ Shaped(r)
         \/ CommitSubmission(r)
<1>1. req[r] \in Request
  BY DEF IInv, TypeOK
<1>2. ASSUME NEW u \in Users, NEW line \in LineOrNull,
             PlanSubmission(r, u, line)
      PROVE  Shaped(r)
  <2>1. PICK opts \in {Eligible(u), {}} :
          Goto(r, [Idle EXCEPT !.pc = "submit_upsert", !.actor = u,
                               !.opts = opts, !.line = line])
    BY <1>2 DEF PlanSubmission
  <2> DEFINE now == [Idle EXCEPT !.pc = "submit_upsert", !.actor = u,
                                 !.opts = opts, !.line = line]
  <2>2. now.pc \notin WriteLabels
    BY DEF Idle, WriteLabels
  <2>3. Goto(r, now) /\ UNCHANGED <<contract, offer, lock>>
    BY <1>2, <2>1 DEF PlanSubmission
  <2> HIDE DEF now
  <2> QED BY <2>2, <2>3 DEF Shaped, Looks
<1>3. CASE UpsertOffer(r)
  <2> DEFINE now == [req[r] EXCEPT !.pc = "submit_write", !.from = contract.uw]
  <2>1. now.pc # "replace_write"
    BY <1>1 DEF Request
  <2>2. Goto(r, now) /\ OfferFree(r) /\ lock' = r /\ UNCHANGED <<offer, contract>>
    BY <1>3 DEF UpsertOffer
  <2> HIDE DEF now
  <2> QED BY <2>1, <2>2 DEF Shaped, Locks
<1> QED BY <1>2, <1>3 DEF Submitting

LEMMA DecidingShaped ==
  ASSUME IInv, NEW r \in Requests, Deciding(r)
  PROVE  Shaped(r)
<1>1. req[r] \in Request /\ offer \in Offer /\ TypeOK
  BY DEF IInv, TypeOK
<1>2. ASSUME NEW u \in Users, NEW dec \in Verdicts, LoadOffer(r, u, dec)
      PROVE  Shaped(r)
  <2> DEFINE now ==
        [Idle EXCEPT !.pc = "peer_route", !.actor = u, !.dec = dec,
                     !.opts = offer.opts, !.submitter = offer.submitter,
                     !.p1 = offer.p1, !.p1d = offer.p1d, !.sub = offer.sub]
  <2>1. now.pc \notin WriteLabels
    BY DEF Idle, WriteLabels
  <2>2. Goto(r, now) /\ UNCHANGED <<contract, offer, lock>>
    BY <1>2 DEF LoadOffer
  <2> HIDE DEF now
  <2> QED BY <2>1, <2>2 DEF Shaped, Looks
<1>3. CASE CheckRouting(r)
  <2> DEFINE now == [req[r] EXCEPT !.pc = "peer_claim", !.opts = {},
                                   !.submitter = NoUser]
  <2>1. now.pc \notin WriteLabels
    BY <1>1 DEF Request, WriteLabels
  <2>2. Goto(r, now) /\ UNCHANGED <<contract, offer, lock>>
    BY <1>3 DEF CheckRouting
  <2> HIDE DEF now
  <2> QED BY <2>1, <2>2 DEF Shaped, Looks
<1>4. CASE ClaimPeer1(r)
  <2> DEFINE outcome == Peer1Outcome(req[r].actor, req[r].dec)
  <2>1. outcome \in {"AWAITING_APPROVAL", "AWAITING_SIGNED_LINE", "DECLINED"}
    BY OutcomeType
  <2>2. /\ offer'.status = outcome /\ offer'.submitter = offer.submitter
        /\ offer.status \in InApproval
        /\ Finish(r) /\ OfferFree(r) /\ lock' = lock
    BY <1>1, <1>4 DEF ClaimPeer1, Peer1Open, Offer, InApproval
  <2> HIDE DEF outcome
  <2> QED BY <2>1, <2>2 DEF Shaped, Overwrites, OfferStatus
<1>5. CASE ClaimPeer2(r)
  <2> DEFINE outcome ==
        Peer2Outcome(req[r].actor, req[r].dec, req[r].p1, req[r].p1d)
  <2>1. outcome \in {"DISPUTE_PENDING", "AWAITING_SIGNED_LINE", "DECLINED"}
    BY OutcomeType
  <2>2. /\ offer'.status = outcome /\ offer'.submitter = offer.submitter
        /\ offer.status \in InApproval
        /\ Finish(r) /\ OfferFree(r) /\ lock' = lock
    BY <1>1, <1>5 DEF ClaimPeer2, Peer2Open, Offer, InApproval
  <2> HIDE DEF outcome
  <2> QED BY <2>1, <2>2 DEF Shaped, Overwrites, OfferStatus
<1>6. ASSUME NEW u \in Users, NEW dec \in Verdicts, LoadDispute(r, u, dec)
      PROVE  Shaped(r)
  <2> DEFINE now == [Idle EXCEPT !.pc = "arbiter_claim", !.actor = u,
                                 !.dec = dec, !.sub = offer.sub]
  <2>1. now.pc \notin WriteLabels
    BY DEF Idle, WriteLabels
  <2>2. Goto(r, now) /\ UNCHANGED <<contract, offer, lock>>
    BY <1>6 DEF LoadDispute
  <2> HIDE DEF now
  <2> QED BY <2>1, <2>2 DEF Shaped, Looks
<1>7. CASE ClaimArbiter(r)
  <2> DEFINE outcome == Verdict(req[r].dec)
  <2>1. outcome \in {"AWAITING_SIGNED_LINE", "DECLINED"}
    BY VerdictType
  <2>2. /\ offer'.status = outcome /\ offer'.submitter = offer.submitter
        /\ offer.status \in InApproval
        /\ Finish(r) /\ OfferFree(r) /\ lock' = lock
    BY <1>1, <1>7 DEF ClaimArbiter, Offer, InApproval
  <2> HIDE DEF outcome
  <2> QED BY <2>1, <2>2 DEF Shaped, Overwrites, OfferStatus
<1> QED BY <1>2, <1>3, <1>4, <1>5, <1>6, <1>7 DEF Deciding

LEMMA RowFree ==
  ASSUME RowHeld, NEW r, OfferWritable(r)
  PROVE  OfferFree(r)
BY DEF RowHeld, OfferWritable

LEMMA TerminatingShaped ==
  ASSUME IInv, RowHeld, NEW r \in Requests, Terminating(r)
  PROVE  Shaped(r)
<1>1. req[r] \in Request /\ offer \in Offer /\ TypeOK
  BY DEF IInv, TypeOK
<1>2. {"SIGNED", "NTU", "DRAFT"} \cap Waits = {}
  BY DEF Waits, PriorStates
<1>3. ASSUME NEW u \in Users, NEW action \in TerminalActions,
             NEW line \in LineOrNull, AssertTransition(r, u, action, line)
      PROVE  Shaped(r)
  <2> DEFINE now == [Idle EXCEPT !.pc = "terminal_auth", !.action = action,
                     !.actor = u, !.from = contract.uw, !.line = line]
  <2>1. now.pc \notin WriteLabels
    BY DEF Idle, WriteLabels
  <2>2. Goto(r, now) /\ UNCHANGED <<contract, offer, lock>>
    BY <1>3 DEF AssertTransition
  <2> HIDE DEF now
  <2> QED BY <2>1, <2>2 DEF Shaped, Looks
<1>4. CASE AuthorizeTerminal(r)
  <2> DEFINE next ==
        IF req[r].action = "SIGN" THEN "sign_line" ELSE "terminal_write"
             now == [req[r] EXCEPT !.pc = next]
  <2>1. now.pc \notin WriteLabels
    BY <1>1 DEF Request, WriteLabels
  <2>2. Goto(r, now) /\ UNCHANGED <<contract, offer, lock>>
    BY <1>4 DEF AuthorizeTerminal
  <2> HIDE DEF now
  <2> QED BY <2>1, <2>2 DEF Shaped, Looks
<1>5. CASE CheckSignedLine(r)
  <2> DEFINE now == [req[r] EXCEPT !.pc = "terminal_write"]
  <2>1. now.pc \notin WriteLabels
    BY <1>1 DEF Request, WriteLabels
  <2>2. Goto(r, now) /\ UNCHANGED <<contract, offer, lock>>
    BY <1>5 DEF CheckSignedLine
  <2> HIDE DEF now
  <2> QED BY <2>1, <2>2 DEF Shaped, Looks
<1>6. CASE Sign(r)
  <2>1. contract'.uw = "SIGNED"
    BY <1>1, <1>6 DEF Sign, ChangeUwStatus, Moved, TypeOK
  <2>2. offer'.status = "SIGNED" /\ offer'.submitter = offer.submitter
    BY <1>1, <1>6 DEF Sign, RowHeld, Offer
  <2>3. Finish(r) /\ OfferFree(r) /\ lock' = lock
    BY <1>6, RowFree DEF Sign
  <2> QED BY <1>2, <2>1, <2>2, <2>3
          DEF Shaped, Overwrites, OfferStatus, InApproval
<1>7. CASE MarkNotTakenUp(r)
  <2> DEFINE now == [Idle EXCEPT !.pc = "ntu_mirror"]
  <2>1. now.pc \notin WriteLabels
    BY DEF Idle, WriteLabels
  <2>2. Goto(r, now) /\ UNCHANGED <<offer, lock>>
    BY <1>7 DEF MarkNotTakenUp
  <2>3. contract'.uw = "NTU"
    BY <1>1, <1>7, UwAfter DEF MarkNotTakenUp
  <2> HIDE DEF now
  <2> QED BY <1>2, <2>1, <2>2, <2>3 DEF Shaped, Looks
<1>8. CASE MirrorNtu(r)
  <2>1. offer'.status = "NTU" /\ offer'.submitter = offer.submitter
    BY <1>1, <1>8 DEF MirrorNtu, Mirrored, RowHeld, Offer
  <2>2. Finish(r) /\ OfferFree(r) /\ UNCHANGED <<contract, lock>>
    BY <1>8, RowFree DEF MirrorNtu
  <2> QED BY <2>1, <2>2 DEF Shaped, Overwrites, OfferStatus, InApproval
<1>9. CASE SendBack(r)
  <2>1. offer'.status = "RETURNED" /\ offer'.submitter = offer.submitter
    BY <1>1, <1>9 DEF SendBack, ResetOffer, RowHeld, Offer
  <2>2. Finish(r) /\ OfferFree(r) /\ lock' = lock
    BY <1>9, RowFree DEF SendBack
  <2>3. contract'.uw = "DRAFT"
    BY <1>1, <1>9, UwAfter DEF SendBack
  <2> QED BY <1>2, <2>1, <2>2, <2>3
          DEF Shaped, Overwrites, OfferStatus, InApproval
<1> QED BY <1>3, <1>4, <1>5, <1>6, <1>7, <1>8, <1>9 DEF Terminating


LEMMA DecliningShaped ==
  ASSUME IInv, RowHeld, NEW r \in Requests, Declining(r)
  PROVE  Shaped(r)
<1>1. req[r] \in Request /\ offer \in Offer /\ TypeOK
  BY DEF IInv, TypeOK
<1>2. ASSUME NEW u \in Users, AuthorizeDecline(r, u)
      PROVE  Shaped(r)
  <2> DEFINE now == [Idle EXCEPT !.pc = "decline_read", !.actor = u]
  <2>1. now.pc \notin WriteLabels
    BY DEF Idle, WriteLabels
  <2>2. Goto(r, now) /\ UNCHANGED <<contract, offer, lock>>
    BY <1>2 DEF AuthorizeDecline
  <2> HIDE DEF now
  <2> QED BY <2>1, <2>2 DEF Shaped, Looks
<1>3. CASE ReadForDecline(r)
  <2> DEFINE now == [req[r] EXCEPT !.pc = "decline_write", !.from = contract.uw]
  <2>1. now.pc \notin WriteLabels
    BY <1>1 DEF Request, WriteLabels
  <2>2. Goto(r, now) /\ UNCHANGED <<contract, offer, lock>>
    BY <1>3 DEF ReadForDecline
  <2> HIDE DEF now
  <2> QED BY <2>1, <2>2 DEF Shaped, Looks
<1>4. CASE CommitDecline(r)
  <2>1. offer'.status = "DECLINED" /\ offer'.submitter = offer.submitter
    BY <1>1, <1>4 DEF CommitDecline, Mirrored, RowHeld, Offer
  <2>2. Finish(r) /\ OfferFree(r) /\ lock' = lock
    BY <1>4, RowFree DEF CommitDecline
  <2>3. contract'.uw = "DECLINED"
    BY <1>1, <1>4, UwAfter DEF CommitDecline
  <2> QED BY <2>1, <2>2, <2>3
          DEF Shaped, Overwrites, OfferStatus, InApproval, Waits, PriorStates
<1> QED BY <1>2, <1>3, <1>4 DEF Declining

LEMMA ReplacingShaped ==
  ASSUME IInv, RowHeld, NEW r \in Requests, Replacing(r)
  PROVE  \/ Shaped(r)
         \/ CommitReplace(r)
<1>1. req[r] \in Request
  BY DEF IInv, TypeOK
<1>2. ASSUME NEW u \in Users, NEW line \in LineOrNull,
             ReadForReplace(r, u, line)
      PROVE  Shaped(r)
  <2> DEFINE now == [Idle EXCEPT !.pc = "replace_check", !.actor = u,
                                 !.line = line]
  <2>1. now.pc \notin WriteLabels
    BY DEF Idle, WriteLabels
  <2>2. Goto(r, now) /\ UNCHANGED <<contract, offer, lock>>
    BY <1>2 DEF ReadForReplace
  <2> HIDE DEF now
  <2> QED BY <2>1, <2>2 DEF Shaped, Looks
<1>3. CASE LockForReplace(r)
  <2> DEFINE now == [req[r] EXCEPT !.pc = "replace_write"]
  <2>1. Goto(r, now) /\ Replaceable /\ OfferFree(r) /\ lock' = r
          /\ UNCHANGED <<offer, contract>>
    BY <1>3 DEF LockForReplace, RowHeld
  <2> HIDE DEF now
  <2> QED BY <2>1 DEF Shaped, Locks
<1> QED BY <1>2, <1>3 DEF Replacing

\* A first submission commits while it holds the row: nobody else is about to
\* write, and the row it leaves has its submitter.
LEMMA CommitSubmissionHolds ==
  ASSUME IInv, RowHeld, NEW r \in Requests, CommitSubmission(r)
  PROVE  RowHeld' /\ Spares /\ Recoverable'
<1>1. lock = r
  BY DEF CommitSubmission, At, RowHeld, WriteLabels
<1>2. \A q \in Requests \ {r} : req[q].pc \notin WriteLabels
  BY <1>1 DEF RowHeld
<1>3. \A q \in Requests : req'[q].pc \notin WriteLabels
  BY <1>2, FinishHeld DEF CommitSubmission
<1>4. offer'.status = "AWAITING_APPROVAL" /\ offer'.submitter = req[r].actor
  BY DEF CommitSubmission, NewOffer
<1>5. req[r].actor \in Users
  BY DEF CommitSubmission, At, IInv, CarriedFacts
<1> QED BY <1>3, <1>4, <1>5
        DEF RowHeld, Spares, Recoverable, InApproval, WriteLabels

\* A replacement too holds the row, so the row is what its check has read: not
\* an approval in flight, and not the offer of a treaty that waits.
LEMMA CommitReplaceHolds ==
  ASSUME IInv, RowHeld, NEW r \in Requests, CommitReplace(r)
  PROVE  RowHeld' /\ Spares /\ (Recoverable => Recoverable')
<1>1. lock = r /\ Replaceable
  BY DEF CommitReplace, At, RowHeld, WriteLabels
<1>2. \A q \in Requests \ {r} : req[q].pc \notin WriteLabels
  BY <1>1 DEF RowHeld
<1>3. ASSUME NEW q \in Requests
      PROVE  req'[q].pc \notin WriteLabels
  <2>1. req'[q] = IF q = r THEN Idle
                  ELSE [req[q] EXCEPT !.held = @ /\ req[q].pc \notin OfferLoaded]
    BY DEF CommitReplace
  <2>2. req[q] \in Request /\ Idle.pc \notin WriteLabels
    BY DEF IInv, TypeOK, Idle, WriteLabels
  <2>3. q # r => req'[q].pc = req[q].pc
    BY <2>1, <2>2 DEF Request
  <2> QED BY <1>2, <2>1, <2>2, <2>3
<1>4. offer'.status = "PENDING" /\ contract'.uw = contract.uw
  BY DEF CommitReplace, NewOffer, IInv, TypeOK
<1>5. Spares
  BY <1>1 DEF Spares, Replaceable
<1>6. Recoverable => contract.uw \notin Waits
  BY <1>1 DEF Recoverable, Replaceable
<1> QED BY <1>3, <1>4, <1>5, <1>6
        DEF RowHeld, Recoverable, InApproval, WriteLabels, Waits, PriorStates

LEMMA FailHolds ==
  ASSUME IInv, RowHeld, NEW r \in Requests, Fail(r)
  PROVE  RowHeld' /\ Spares /\ (Recoverable => Recoverable')
<1>1. \A q \in Requests : req'[q].pc \in WriteLabels => q # r /\ req'[q] = req[q]
  BY FinishHeld DEF Fail
<1>2. \A q \in Requests : req'[q].pc \in WriteLabels => lock = q /\ lock' = q
  BY <1>1 DEF Fail, RowHeld
<1> QED BY <1>1, <1>2
        DEF Fail, RowHeld, Spares, Recoverable, Replaceable, WriteLabels,
            Waits, PriorStates

\* A save of the header takes a treaty into no state of the engine.
LEMMA EditHeaderTo ==
  ASSUME TypeOK, NEW u \in Users, NEW h \in Headers, EditHeader(u, h)
  PROVE  \/ contract'.uw = contract.uw
         \/ contract'.uw \in {h.uw, h.status} \cap (SM!UwStatuses \ Privileged)
<1> DEFINE lined == [contract EXCEPT !.line = IF h.line = 0 THEN @ ELSE h.line]
           moved == IF h.uw = "NONE" THEN lined ELSE Moved(lined, h.uw)
<1>1. lined.uw = contract.uw
  BY DEF TypeOK
<1>2. moved.uw = IF h.uw = "NONE" THEN contract.uw ELSE h.uw
  BY <1>1 DEF Moved, TypeOK
<1>3. \/ moved.uw = contract.uw
      \/ moved.uw = h.uw /\ h.uw \in SM!UwStatuses \ Privileged
  BY <1>2 DEF EditHeader, HeaderMove
<1>4. Moved(moved, h.status).uw = h.status
        /\ [moved EXCEPT !.status = h.status].uw = moved.uw
  BY <1>1 DEF Moved, TypeOK
<1>5. \/ contract' = moved
      \/ /\ h.status \in SM!UwStatuses \ Privileged
         /\ contract' = Moved(moved, h.status)
      \/ contract' = [moved EXCEPT !.status = h.status]
  BY DEF EditHeader
<1> HIDE DEF moved
<1> QED BY <1>3, <1>4, <1>5

LEMMA EditHeaderHolds ==
  ASSUME FormsSubmitNothing, IInv, Recoverable,
         NEW u \in Users, NEW h \in Headers, EditHeader(u, h)
  PROVE  Recoverable'
<1>1. contract'.uw = contract.uw \/ contract'.uw \notin Waits
  BY EditHeaderTo
     DEF FormsSubmitNothing, IInv, Waits, PriorStates, Privileged,
         SM!UwStatuses
<1> QED BY <1>1 DEF EditHeader, Recoverable, Waits, PriorStates

LEMMA InitHeld ==
  ASSUME RowSaved, Init
  PROVE  RowHeld /\ Recoverable
<1>1. offer.status = "PENDING"
  BY DEF RowSaved, Init, NewOffer
<1>2. \A r \in Requests : req[r].pc \notin WriteLabels
  BY DEF Init, Idle, WriteLabels
<1>3. contract.uw = "DRAFT"
  BY DEF Init
<1> QED BY <1>1, <1>2, <1>3
        DEF RowHeld, Recoverable, InApproval, Waits, PriorStates, WriteLabels

LEMMA StepHeld == IInv /\ RowHeld /\ [Next]_vars => RowHeld' /\ [Spares]_vars
<1> SUFFICES ASSUME IInv, RowHeld, [Next]_vars
             PROVE  RowHeld' /\ [Spares]_vars
  OBVIOUS
<1>1. ASSUME NEW r \in Requests,
             Submitting(r) \/ Deciding(r) \/ Terminating(r) \/ Declining(r)
               \/ Replacing(r) \/ Fail(r)
      PROVE  RowHeld' /\ Spares
  BY <1>1, SubmittingShaped, DecidingShaped, TerminatingShaped,
     DecliningShaped, ReplacingShaped, ShapedHolds, CommitSubmissionHolds,
     CommitReplaceHolds, FailHolds
<1>2. ASSUME UNCHANGED <<offer, lock, req>>
      PROVE  RowHeld' /\ Spares
  BY <1>2 DEF RowHeld, Replaceable, Spares, WriteLabels
<1>3. CASE Reroute
  BY <1>2, <1>3 DEF Reroute
<1>4. ASSUME NEW u \in Users, NEW h \in Headers, EditHeader(u, h)
      PROVE  RowHeld' /\ Spares
  BY <1>2, <1>4 DEF EditHeader
<1>5. CASE UNCHANGED vars
  BY <1>2, <1>5 DEF vars
<1> QED BY <1>1, <1>3, <1>4, <1>5 DEF Next

LEMMA StepRecovers ==
  ASSUME FormsSubmitNothing
  PROVE  IInv /\ RowHeld /\ Recoverable /\ [Next]_vars => Recoverable'
<1> SUFFICES ASSUME IInv, RowHeld, Recoverable, [Next]_vars
             PROVE  Recoverable'
  OBVIOUS
<1>1. ASSUME NEW r \in Requests,
             Submitting(r) \/ Deciding(r) \/ Terminating(r) \/ Declining(r)
               \/ Replacing(r) \/ Fail(r)
      PROVE  Recoverable'
  BY <1>1, SubmittingShaped, DecidingShaped, TerminatingShaped,
     DecliningShaped, ReplacingShaped, ShapedRecovers, CommitSubmissionHolds,
     CommitReplaceHolds, FailHolds
<1>2. ASSUME UNCHANGED <<offer, contract>>
      PROVE  Recoverable'
  BY <1>2 DEF Recoverable, Waits, PriorStates
<1>3. CASE Reroute
  BY <1>2, <1>3 DEF Reroute
<1>4. ASSUME NEW u \in Users, NEW h \in Headers, EditHeader(u, h)
      PROVE  Recoverable'
  BY <1>4, EditHeaderHolds
<1>5. CASE UNCHANGED vars
  BY <1>2, <1>5 DEF vars
<1> QED BY <1>1, <1>3, <1>4, <1>5 DEF Next

\* An approval in flight is never destroyed: with an offer row saved before the
\* first submission, no race of saveOffer with the other handlers, and no save
\* of the form, puts a fresh offer in the place of a submitted one.
THEOREM InFlightKept ==
  ASSUME RowSaved
  PROVE  Spec => ApprovalNeverDestroyed
<1>1. Init => RowHeld
  BY InitHeld
<1>2. [Spares]_vars => [offer.status \in {"AWAITING_APPROVAL", "DISPUTE_PENDING"} =>
                          offer.status' # "PENDING"]_vars
  BY DEF Spares
<1> QED BY <1>1, <1>2, StepHeld, InductiveInvariant, PTL
        DEF Spec, ApprovalNeverDestroyed

\* Nobody is left with a treaty in approval that no one may recall: under the
\* same row lock every treaty that waits has its offer and its submitter.
THEOREM PendingHasSubmitter ==
  ASSUME RowSaved, FormsSubmitNothing
  PROVE  Spec => []PendingRecoverable
<1>1. Init => RowHeld /\ Recoverable
  BY InitHeld
<1>2. RowHeld /\ Recoverable => PendingRecoverable
  BY DEF RowHeld, Recoverable, PendingRecoverable, Waits
<1>3. IInv /\ RowHeld /\ Recoverable /\ [Next]_vars => RowHeld' /\ Recoverable'
  BY StepHeld, StepRecovers
<1> QED BY <1>1, <1>2, <1>3, InductiveInvariant, PTL DEF Spec

-----------------------------------------------------------------------------
(* One request at a time *)

\* The server has at most one request in flight, and the saves of the form
\* leave uw_status and the engine's names in the mirror alone.
OneAtATime == \A r, q \in Requests : r = q
LabelsOnly ==
  \A h \in Headers : h.uw = "NONE" /\ h.status \in Commercial \cup {"NONE"}

\* What the request has read is what the treaty still says: the state it leaves,
\* and the rule that its write relies on.
UpToDate(now, row) ==
  /\ now.pc = "submit_write" => SM!PassesGuard(row.uw, "AWAITING_APPROVAL")
  /\ now.pc \in {"terminal_auth", "sign_line", "terminal_write"} =>
       now.from = row.uw /\ row.uw \in PriorStates(now.action)
  /\ now.pc = "ntu_mirror" => row.uw = "NTU"
  /\ now.pc = "decline_write" => SM!IsLegal(row.uw, "DECLINED")
  /\ now.pc = "replace_check" => SM!IsLegal(row.uw, "AWAITING_APPROVAL")
  /\ now.pc = "replace_write" => row.uw = "DRAFT"

Serial ==
  RowsAgree /\ \A r \in Requests : UpToDate(req[r], contract)

\* A step of the machine that lib/statusMachine.js declares, or of the dispute.
MachineStep ==
  \/ contract'.uw = contract.uw
  \/ /\ contract'.uw \in SM!UwStatuses \ {"APPROVED"}
     /\ SM!IsLegal(contract.uw, contract'.uw)
  \/ <<contract.uw, contract'.uw>> \in SM!DisputeEdges

Serves == Serial' /\ MachineStep

LEMMA ReadServes ==
  ASSUME OneAtATime, IInv, Serial, NEW r \in Requests, NEW now, Goto(r, now),
         UNCHANGED <<contract, offer>>, UpToDate(now, contract)
  PROVE  Serves
<1>1. \A q \in Requests : req'[q] = now
  BY GotoHeld DEF OneAtATime
<1>2. \A q \in Requests : UpToDate(req'[q], contract')
  BY <1>1
<1>3. RowsAgree'
  BY DEF Serial, RowsAgree
<1> QED BY <1>2, <1>3 DEF Serves, Serial, MachineStep

LEMMA WriteServes ==
  ASSUME OneAtATime, IInv, NEW r \in Requests, Finish(r), RowsAgree',
         MachineStep
  PROVE  Serves
<1>1. \A q \in Requests : req'[q] = Idle
  BY GotoHeld DEF OneAtATime, Finish
<1>2. UpToDate(Idle, contract')
  BY DEF UpToDate, Idle
<1>3. \A q \in Requests : UpToDate(req'[q], contract')
  BY <1>1, <1>2
<1> QED BY <1>3 DEF Serves, Serial

\* changeUwStatus outside a dispute: both columns, and nothing else.
LEMMA MovedRow ==
  ASSUME TypeOK, NEW to, to # "DISPUTE_PENDING"
  PROVE  /\ ChangeUwStatus(to).uw = to /\ ChangeUwStatus(to).status = to
         /\ ChangeUwStatus(to).financed = contract.financed
         /\ ChangeUwStatus(to).line = contract.line
BY DEF ChangeUwStatus, Moved, TypeOK, SM!Dispute

\* The five states of the engine tell the pending rows apart.
LEMMA RowsOf ==
  ASSUME RowsAgree
  PROVE  /\ offer.status \in InApproval => contract.uw = offer.status
         /\ contract.uw \in Waits => offer.status = contract.uw
         /\ contract.financed <=> contract.uw = "SIGNED"
         /\ contract.uw = "DRAFT" =>
              offer.status \in {"ABSENT", "PENDING", "RETURNED"}
BY DEF RowsAgree, InApproval, Waits, PriorStates

LEMMA SubmittingServes ==
  ASSUME OneAtATime, IInv, Serial, NEW r \in Requests, Submitting(r)
  PROVE  Serves
<1>1. req[r] \in Request /\ TypeOK /\ RowsAgree
         /\ UpToDate(req[r], contract)
  BY DEF IInv, TypeOK, Serial
<1>2. ASSUME NEW u \in Users, NEW line \in LineOrNull,
             PlanSubmission(r, u, line)
      PROVE  Serves
  <2>1. PICK opts \in {Eligible(u), {}} :
          Goto(r, [Idle EXCEPT !.pc = "submit_upsert", !.actor = u,
                               !.opts = opts, !.line = line])
    BY <1>2 DEF PlanSubmission
  <2> DEFINE now == [Idle EXCEPT !.pc = "submit_upsert", !.actor = u,
                                 !.opts = opts, !.line = line]
  <2>2. now.pc = "submit_upsert"
    BY DEF Idle
  <2>3. Goto(r, now) /\ UNCHANGED <<contract, offer>>
    BY <1>2, <2>1 DEF PlanSubmission
  <2> HIDE DEF now
  <2>4. UpToDate(now, contract)
    BY <2>2 DEF UpToDate
  <2> QED BY <2>3, <2>4, ReadServes
<1>3. CASE UpsertOffer(r)
  <2> DEFINE now == [req[r] EXCEPT !.pc = "submit_write", !.from = contract.uw]
  <2>1. now.pc = "submit_write"
    BY <1>1 DEF Request
  <2>2. /\ Goto(r, now) /\ UNCHANGED <<contract, offer>>
        /\ SM!PassesGuard(contract.uw, "AWAITING_APPROVAL")
    BY <1>3 DEF UpsertOffer
  <2> HIDE DEF now
  <2>3. UpToDate(now, contract)
    BY <2>1, <2>2 DEF UpToDate
  <2> QED BY <2>2, <2>3, ReadServes
<1>4. CASE CommitSubmission(r)
  <2>1. SM!PassesGuard(contract.uw, "AWAITING_APPROVAL")
    BY <1>1, <1>4 DEF CommitSubmission, At, UpToDate
  <2>2. /\ contract'.uw = "AWAITING_APPROVAL"
        /\ contract'.financed = contract.financed
    BY <1>1, <1>4, MovedRow DEF CommitSubmission
  <2>3. offer'.status = "AWAITING_APPROVAL" /\ Finish(r)
    BY <1>4 DEF CommitSubmission, NewOffer
  <2>4. contract.uw # "SIGNED"
    BY <2>1 DEF SM!PassesGuard, SM!IsLegal, SM!UwStatuses, SM!LegalEdges
  <2>5. RowsAgree'
    BY <1>1, <2>2, <2>3, <2>4, RowsOf DEF RowsAgree, SM!Terminal
  <2>6. contract.uw \in UwStatus
    BY <1>1 DEF TypeOK
  <2>7. MachineStep
    BY <2>1, <2>2, <2>6
       DEF MachineStep, UwStatus, SM!PassesGuard, SM!UwStatuses,
           SM!DisputeEdges, SM!Dispute
  <2> QED BY <2>2, <2>3, <2>5, <2>7, WriteServes
<1> QED BY <1>2, <1>3, <1>4 DEF Submitting


\* The part the three claims share: the outcome is an edge of the machine from
\* the state that the treaty shares with its offer.
LEMMA ClaimServes ==
  ASSUME OneAtATime, IInv, Serial, NEW r \in Requests,
         offer.status \in InApproval,
         NEW outcome, <<offer.status, outcome>> \in
           {<<"AWAITING_APPROVAL", "AWAITING_APPROVAL">>,
            <<"AWAITING_APPROVAL", "AWAITING_SIGNED_LINE">>,
            <<"AWAITING_APPROVAL", "DECLINED">>,
            <<"AWAITING_APPROVAL", "DISPUTE_PENDING">>,
            <<"DISPUTE_PENDING", "AWAITING_SIGNED_LINE">>,
            <<"DISPUTE_PENDING", "DECLINED">>},
         offer'.status = outcome, contract' = ChangeUwStatus(outcome), Finish(r)
  PROVE  Serves
<1>1. TypeOK /\ RowsAgree
  BY DEF IInv, Serial
<1>2. contract.uw = offer.status /\ ~contract.financed
  BY <1>1, RowsOf DEF InApproval, TypeOK
<1>3. contract'.uw = outcome
  BY <1>1, UwAfter
<1>4. contract'.financed = contract.financed
  BY <1>1 DEF ChangeUwStatus, Moved, TypeOK
<1>5. outcome = "DECLINED" => contract'.status = "DECLINED"
  BY <1>1, MovedRow
<1>6. outcome \in {"AWAITING_APPROVAL", "AWAITING_SIGNED_LINE", "DECLINED",
                   "DISPUTE_PENDING"}
  OBVIOUS
<1>7. RowsAgree'
  BY <1>2, <1>3, <1>4, <1>5, <1>6 DEF RowsAgree, SM!Terminal
<1>8. MachineStep
  BY <1>2, <1>3
     DEF MachineStep, SM!IsLegal, SM!UwStatuses, SM!LegalEdges,
         SM!DisputeEdges, SM!Dispute
<1> QED BY <1>3, <1>6, <1>7, <1>8, WriteServes

LEMMA DecidingServes ==
  ASSUME OneAtATime, IInv, Serial, NEW r \in Requests, Deciding(r)
  PROVE  Serves
<1>1. req[r] \in Request /\ offer \in Offer
  BY DEF IInv, TypeOK
<1>2. ASSUME NEW u \in Users, NEW dec \in Verdicts, LoadOffer(r, u, dec)
      PROVE  Serves
  <2> DEFINE now ==
        [Idle EXCEPT !.pc = "peer_route", !.actor = u, !.dec = dec,
                     !.opts = offer.opts, !.submitter = offer.submitter,
                     !.p1 = offer.p1, !.p1d = offer.p1d, !.sub = offer.sub]
  <2>1. now.pc = "peer_route"
    BY DEF Idle
  <2>2. Goto(r, now) /\ UNCHANGED <<contract, offer>>
    BY <1>2 DEF LoadOffer
  <2> HIDE DEF now
  <2>3. UpToDate(now, contract)
    BY <2>1 DEF UpToDate
  <2> QED BY <2>2, <2>3, ReadServes
<1>3. CASE CheckRouting(r)
  <2> DEFINE now == [req[r] EXCEPT !.pc = "peer_claim", !.opts = {},
                                   !.submitter = NoUser]
  <2>1. now.pc = "peer_claim"
    BY <1>1 DEF Request
  <2>2. Goto(r, now) /\ UNCHANGED <<contract, offer>>
    BY <1>3 DEF CheckRouting
  <2> HIDE DEF now
  <2>3. UpToDate(now, contract)
    BY <2>1 DEF UpToDate
  <2> QED BY <2>2, <2>3, ReadServes
<1>4. CASE ClaimPeer1(r)
  <2> DEFINE outcome == Peer1Outcome(req[r].actor, req[r].dec)
  <2>1. outcome \in {"AWAITING_APPROVAL", "AWAITING_SIGNED_LINE", "DECLINED"}
    BY OutcomeType
  <2>2. /\ offer'.status = outcome /\ offer.status = "AWAITING_APPROVAL"
        /\ contract' = ChangeUwStatus(outcome) /\ Finish(r)
    BY <1>1, <1>4 DEF ClaimPeer1, Peer1Open, Offer
  <2> HIDE DEF outcome
  <2> QED BY <2>1, <2>2, ClaimServes DEF InApproval
<1>5. CASE ClaimPeer2(r)
  <2> DEFINE outcome ==
        Peer2Outcome(req[r].actor, req[r].dec, req[r].p1, req[r].p1d)
  <2>1. outcome \in {"DISPUTE_PENDING", "AWAITING_SIGNED_LINE", "DECLINED"}
    BY OutcomeType
  <2>2. /\ offer'.status = outcome /\ offer.status = "AWAITING_APPROVAL"
        /\ contract' = ChangeUwStatus(outcome) /\ Finish(r)
    BY <1>1, <1>5 DEF ClaimPeer2, Peer2Open, Offer
  <2> HIDE DEF outcome
  <2> QED BY <2>1, <2>2, ClaimServes DEF InApproval
<1>6. ASSUME NEW u \in Users, NEW dec \in Verdicts, LoadDispute(r, u, dec)
      PROVE  Serves
  <2> DEFINE now == [Idle EXCEPT !.pc = "arbiter_claim", !.actor = u,
                                 !.dec = dec, !.sub = offer.sub]
  <2>1. now.pc = "arbiter_claim"
    BY DEF Idle
  <2>2. Goto(r, now) /\ UNCHANGED <<contract, offer>>
    BY <1>6 DEF LoadDispute
  <2> HIDE DEF now
  <2>3. UpToDate(now, contract)
    BY <2>1 DEF UpToDate
  <2> QED BY <2>2, <2>3, ReadServes
<1>7. CASE ClaimArbiter(r)
  <2> DEFINE outcome == Verdict(req[r].dec)
  <2>1. outcome \in {"AWAITING_SIGNED_LINE", "DECLINED"}
    BY VerdictType
  <2>2. /\ offer'.status = outcome /\ offer.status = "DISPUTE_PENDING"
        /\ contract' = ChangeUwStatus(outcome) /\ Finish(r)
    BY <1>1, <1>7 DEF ClaimArbiter, Offer
  <2> HIDE DEF outcome
  <2> QED BY <2>1, <2>2, ClaimServes DEF InApproval
<1> QED BY <1>2, <1>3, <1>4, <1>5, <1>6, <1>7 DEF Deciding

LEMMA SignServes ==
  ASSUME OneAtATime, IInv, Serial, NEW r \in Requests, Sign(r)
  PROVE  Serves
<1>1. /\ req[r] \in Request /\ offer \in Offer /\ TypeOK /\ RowsAgree
      /\ UpToDate(req[r], contract)
  BY DEF IInv, TypeOK, Serial
<1>2. contract.uw = "AWAITING_SIGNED_LINE"
  BY <1>1 DEF Sign, Writes, At, UpToDate, PriorStates
<1>3. offer.status = "AWAITING_SIGNED_LINE"
  BY <1>1, <1>2, RowsOf DEF Waits, PriorStates
<1>4. contract'.uw = "SIGNED" /\ contract'.status = "SIGNED"
         /\ contract'.financed = TRUE
  <2>1. ChangeUwStatus("SIGNED") \in [uw : UwStatus, status : Mirror,
                                      line : LineOrNull, financed : BOOLEAN]
    BY <1>1, ChangeUwStatusType, StatusNames
  <2> QED BY <1>1, <2>1, MovedRow DEF Sign
<1>5. offer'.status = "SIGNED" /\ Finish(r)
  BY <1>1, <1>3 DEF Sign, Offer
<1>6. RowsAgree'
  BY <1>4, <1>5 DEF RowsAgree, SM!Terminal
<1>7. MachineStep
  BY <1>2, <1>4
     DEF MachineStep, SM!IsLegal, SM!UwStatuses, SM!LegalEdges
<1> QED BY <1>5, <1>6, <1>7, WriteServes

LEMMA TerminatingServes ==
  ASSUME OneAtATime, IInv, Serial, NEW r \in Requests, Terminating(r)
  PROVE  Serves
<1>1. /\ req[r] \in Request /\ offer \in Offer /\ TypeOK /\ RowsAgree
      /\ UpToDate(req[r], contract)
  BY DEF IInv, TypeOK, Serial
<1>2. ASSUME NEW u \in Users, NEW action \in TerminalActions,
             NEW line \in LineOrNull, AssertTransition(r, u, action, line)
      PROVE  Serves
  <2> DEFINE now == [Idle EXCEPT !.pc = "terminal_auth", !.action = action,
                     !.actor = u, !.from = contract.uw, !.line = line]
  <2>1. now.pc = "terminal_auth" /\ now.from = contract.uw /\ now.action = action
    BY DEF Idle
  <2>2. /\ Goto(r, now) /\ UNCHANGED <<contract, offer>>
        /\ contract.uw \in PriorStates(action)
    BY <1>2 DEF AssertTransition
  <2> HIDE DEF now
  <2>3. UpToDate(now, contract)
    BY <2>1, <2>2 DEF UpToDate
  <2> QED BY <2>2, <2>3, ReadServes
<1>3. CASE AuthorizeTerminal(r)
  <2> DEFINE next ==
        IF req[r].action = "SIGN" THEN "sign_line" ELSE "terminal_write"
             now == [req[r] EXCEPT !.pc = next]
  <2>1. /\ now.pc \in {"sign_line", "terminal_write"}
        /\ now.pc = "terminal_write" => now.action # "SIGN"
        /\ now.from = req[r].from /\ now.action = req[r].action
    BY <1>1 DEF Request
  <2>2. Goto(r, now) /\ UNCHANGED <<contract, offer>> /\ At(r, "terminal_auth")
    BY <1>3 DEF AuthorizeTerminal
  <2> HIDE DEF now
  <2>3. UpToDate(now, contract)
    BY <1>1, <2>1, <2>2 DEF UpToDate, At
  <2> QED BY <2>2, <2>3, ReadServes
<1>4. CASE CheckSignedLine(r)
  <2> DEFINE now == [req[r] EXCEPT !.pc = "terminal_write"]
  <2>1. /\ now.pc = "terminal_write" /\ now.from = req[r].from
        /\ now.action = req[r].action /\ now.line = req[r].line
    BY <1>1 DEF Request
  <2>2. /\ Goto(r, now) /\ UNCHANGED <<contract, offer>>
        /\ At(r, "sign_line") /\ LineAllowed(req[r].line)
    BY <1>4 DEF CheckSignedLine
  <2> HIDE DEF now
  <2>3. UpToDate(now, contract)
    BY <1>1, <2>1, <2>2 DEF UpToDate, At, LineAllowed
  <2> QED BY <2>2, <2>3, ReadServes
<1>5. CASE Sign(r)
  BY <1>5, SignServes
<1>6. CASE MarkNotTakenUp(r)
  <2> DEFINE now == [Idle EXCEPT !.pc = "ntu_mirror"]
  <2>1. now.pc = "ntu_mirror"
    BY DEF Idle
  <2>2. Goto(r, now) /\ UNCHANGED offer
    BY <1>6 DEF MarkNotTakenUp
  <2> HIDE DEF now
  <2>3. contract.uw = "AWAITING_SIGNED_LINE"
    BY <1>1, <1>6 DEF MarkNotTakenUp, Writes, At, UpToDate, PriorStates
  <2>4. /\ contract'.uw = "NTU" /\ contract'.status = "NTU"
        /\ contract'.financed = contract.financed
    BY <1>1, <1>6, MovedRow DEF MarkNotTakenUp
  <2>5. offer.status = "AWAITING_SIGNED_LINE" /\ ~contract.financed
    BY <1>1, <2>3, RowsOf DEF Waits, PriorStates, TypeOK
  <2>6. RowsAgree'
    BY <2>2, <2>4, <2>5 DEF RowsAgree, SM!Terminal
  <2>7. MachineStep
    BY <2>3, <2>4 DEF MachineStep, SM!IsLegal, SM!UwStatuses, SM!LegalEdges
  <2>8. \A q \in Requests : req'[q] = now
    BY <2>2, GotoHeld DEF OneAtATime
  <2>9. UpToDate(now, contract')
    BY <2>1, <2>4 DEF UpToDate
  <2>10. \A q \in Requests : UpToDate(req'[q], contract')
    BY <2>8, <2>9
  <2> QED BY <2>4, <2>6, <2>7, <2>10 DEF Serves, Serial
<1>7. CASE MirrorNtu(r)
  <2>1. contract.uw = "NTU" /\ UNCHANGED contract /\ Finish(r)
    BY <1>1, <1>7 DEF MirrorNtu, At, UpToDate
  <2>2. offer'.status \in {"ABSENT", "NTU"}
    BY <1>1, <1>7 DEF MirrorNtu, Mirrored, Offer
  <2>3. RowsAgree'
    BY <1>1, <2>1, <2>2 DEF RowsAgree, SM!Terminal
  <2>4. MachineStep
    BY <2>1 DEF MachineStep
  <2> QED BY <2>1, <2>3, <2>4, WriteServes
<1>8. CASE SendBack(r)
  <2>1. contract.uw \in Waits
    BY <1>1, <1>8 DEF SendBack, Writes, At, UpToDate, PriorStates, Waits
  <2>2. /\ contract'.uw = "DRAFT" /\ contract'.financed = contract.financed
        /\ Finish(r)
    BY <1>1, <1>8, MovedRow DEF SendBack
  <2>3. offer.status # "ABSENT" /\ ~contract.financed
    BY <1>1, <2>1, RowsOf DEF Waits, PriorStates, TypeOK
  <2>4. offer'.status = "RETURNED"
    BY <1>1, <1>8, <2>3 DEF SendBack, ResetOffer, Offer
  <2>5. RowsAgree'
    BY <2>2, <2>3, <2>4 DEF RowsAgree, SM!Terminal
  <2>6. MachineStep
    BY <2>1, <2>2
       DEF MachineStep, SM!IsLegal, SM!UwStatuses, SM!LegalEdges,
           SM!DisputeEdges, SM!Dispute, Waits, PriorStates
  <2> QED BY <2>2, <2>5, <2>6, WriteServes
<1> QED
  BY <1>2, <1>3, <1>4, <1>5, <1>6, <1>7, <1>8 DEF Terminating

LEMMA DecliningServes ==
  ASSUME OneAtATime, IInv, Serial, NEW r \in Requests, Declining(r)
  PROVE  Serves
<1>1. /\ req[r] \in Request /\ offer \in Offer /\ TypeOK /\ RowsAgree
      /\ UpToDate(req[r], contract)
  BY DEF IInv, TypeOK, Serial
<1>2. ASSUME NEW u \in Users, AuthorizeDecline(r, u)
      PROVE  Serves
  <2> DEFINE now == [Idle EXCEPT !.pc = "decline_read", !.actor = u]
  <2>1. now.pc = "decline_read"
    BY DEF Idle
  <2>2. Goto(r, now) /\ UNCHANGED <<contract, offer>>
    BY <1>2 DEF AuthorizeDecline
  <2> HIDE DEF now
  <2>3. UpToDate(now, contract)
    BY <2>1 DEF UpToDate
  <2> QED BY <2>2, <2>3, ReadServes
<1>3. CASE ReadForDecline(r)
  <2> DEFINE now == [req[r] EXCEPT !.pc = "decline_write", !.from = contract.uw]
  <2>1. now.pc = "decline_write"
    BY <1>1 DEF Request
  <2>2. /\ Goto(r, now) /\ UNCHANGED <<contract, offer>>
        /\ SM!IsLegal(contract.uw, "DECLINED")
    BY <1>3 DEF ReadForDecline
  <2> HIDE DEF now
  <2>3. UpToDate(now, contract)
    BY <2>1, <2>2 DEF UpToDate
  <2> QED BY <2>2, <2>3, ReadServes
<1>4. CASE CommitDecline(r)
  <2>1. SM!IsLegal(contract.uw, "DECLINED")
    BY <1>1, <1>4 DEF CommitDecline, At, UpToDate
  <2>2. contract.uw # "SIGNED"
    BY <2>1 DEF SM!IsLegal, SM!UwStatuses, SM!LegalEdges
  <2>3. /\ contract'.uw = "DECLINED" /\ contract'.status = "DECLINED"
        /\ contract'.financed = contract.financed /\ Finish(r)
    BY <1>1, <1>4, MovedRow DEF CommitDecline
  <2>4. offer'.status \in {"ABSENT", "DECLINED"}
    BY <1>1, <1>4 DEF CommitDecline, Mirrored, Offer
  <2>5. RowsAgree'
    BY <1>1, <2>2, <2>3, <2>4, RowsOf DEF RowsAgree, SM!Terminal
  <2>6. MachineStep
    BY <2>1, <2>3 DEF MachineStep, SM!UwStatuses
  <2> QED BY <2>3, <2>5, <2>6, WriteServes
<1> QED BY <1>2, <1>3, <1>4 DEF Declining


\* A replacement tells nobody else that the row is gone: there is nobody else.
LEMMA ReplaceFinishes ==
  ASSUME OneAtATime, IInv, NEW r \in Requests, CommitReplace(r)
  PROVE  Finish(r)
<1>1. \A q \in Requests : q = r
  BY DEF OneAtATime
<1>2. req' = [q \in Requests |-> Idle]
  BY <1>1 DEF CommitReplace
<1>3. [req EXCEPT ![r] = Idle] = [q \in Requests |-> Idle]
  BY <1>1 DEF IInv, TypeOK
<1> QED BY <1>2, <1>3 DEF Finish, Goto

LEMMA ReplacingServes ==
  ASSUME OneAtATime, IInv, Serial, NEW r \in Requests, Replacing(r)
  PROVE  Serves
<1>1. /\ req[r] \in Request /\ offer \in Offer /\ TypeOK /\ RowsAgree
      /\ UpToDate(req[r], contract)
  BY DEF IInv, TypeOK, Serial
<1>2. ASSUME NEW u \in Users, NEW line \in LineOrNull,
             ReadForReplace(r, u, line)
      PROVE  Serves
  <2> DEFINE now == [Idle EXCEPT !.pc = "replace_check", !.actor = u,
                                 !.line = line]
  <2>1. now.pc = "replace_check"
    BY DEF Idle
  <2>2. /\ Goto(r, now) /\ UNCHANGED <<contract, offer>>
        /\ SM!IsLegal(contract.uw, "AWAITING_APPROVAL")
    BY <1>2 DEF ReadForReplace
  <2> HIDE DEF now
  <2>3. UpToDate(now, contract)
    BY <2>1, <2>2 DEF UpToDate
  <2> QED BY <2>2, <2>3, ReadServes
<1>3. CASE LockForReplace(r)
  <2> DEFINE now == [req[r] EXCEPT !.pc = "replace_write"]
  <2>1. now.pc = "replace_write"
    BY <1>1 DEF Request
  <2>2. Goto(r, now) /\ UNCHANGED <<contract, offer>>
    BY <1>3 DEF LockForReplace
  <2> HIDE DEF now
  <2>3. contract.uw \in {"DRAFT", "AWAITING_APPROVAL"}
    BY <1>1, <1>3
       DEF LockForReplace, At, UpToDate, SM!IsLegal, SM!UwStatuses,
           SM!LegalEdges
  <2>4. offer.status # "AWAITING_APPROVAL"
    BY <1>3 DEF LockForReplace, Replaceable
  <2>5. contract.uw = "DRAFT"
    BY <1>1, <2>3, <2>4 DEF RowsAgree
  <2>6. UpToDate(now, contract)
    BY <2>1, <2>5 DEF UpToDate
  <2> QED BY <2>2, <2>6, ReadServes
<1>4. CASE CommitReplace(r)
  <2>1. contract.uw = "DRAFT"
    BY <1>1, <1>4 DEF CommitReplace, At, UpToDate
  <2>2. /\ contract'.uw = contract.uw /\ contract'.financed = contract.financed
        /\ offer'.status = "PENDING"
    BY <1>1, <1>4 DEF CommitReplace, NewOffer, TypeOK
  <2>3. Finish(r)
    BY <1>4, ReplaceFinishes
  <2>4. RowsAgree'
    BY <1>1, <2>1, <2>2, RowsOf DEF RowsAgree, SM!Terminal
  <2>5. MachineStep
    BY <2>2 DEF MachineStep
  <2> QED BY <2>1, <2>2, <2>3, <2>4, <2>5, WriteServes
<1> QED BY <1>2, <1>3, <1>4 DEF Replacing

LEMMA FailServes ==
  ASSUME OneAtATime, IInv, Serial, NEW r \in Requests, Fail(r)
  PROVE  Serves
<1>1. UpToDate(Idle, contract)
  BY DEF UpToDate, Idle
<1> QED BY <1>1, ReadServes DEF Fail, Finish

\* A save that carries labels writes the mirror of a treaty that may change.
\* A save that carries labels writes the mirror of a treaty that may change.
LEMMA EditHeaderServes ==
  ASSUME LabelsOnly, IInv, Serial, NEW u \in Users, NEW h \in Headers,
         EditHeader(u, h)
  PROVE  Serves
<1>1. h.uw = "NONE" /\ h.status \in Commercial \cup {"NONE"} /\ TypeOK
  BY DEF LabelsOnly, IInv
<1> DEFINE lined == [contract EXCEPT !.line = IF h.line = 0 THEN @ ELSE h.line]
<1>2. /\ lined.uw = contract.uw /\ lined.status = contract.status
      /\ lined.financed = contract.financed
  BY <1>1 DEF TypeOK
<1>3. /\ [lined EXCEPT !.status = h.status].uw = lined.uw
      /\ [lined EXCEPT !.status = h.status].financed = lined.financed
  BY <1>1 DEF TypeOK
<1>4. h.status \notin SM!UwStatuses
  BY <1>1 DEF Commercial, SM!UwStatuses
<1>5. \/ contract' = lined
      \/ /\ contract' = [lined EXCEPT !.status = h.status]
         /\ lined.uw \notin SM!Terminal
  BY <1>1, <1>4 DEF EditHeader
<1> HIDE DEF lined
<1>6. /\ contract'.uw = contract.uw /\ contract'.financed = contract.financed
      /\ \/ contract'.status = contract.status
         \/ contract.uw \notin SM!Terminal
  BY <1>2, <1>3, <1>5
<1>7. UNCHANGED <<offer, req>>
  BY DEF EditHeader
<1>8. RowsAgree'
  BY <1>6, <1>7 DEF Serial, RowsAgree, SM!Terminal
<1>9. \A r \in Requests : UpToDate(req'[r], contract')
  BY <1>6, <1>7 DEF Serial, UpToDate
<1> QED BY <1>6, <1>8, <1>9 DEF Serves, Serial, MachineStep

LEMMA InitSerial == Init => Serial
<1> SUFFICES ASSUME Init
             PROVE  Serial
  OBVIOUS
<1>1. /\ contract.uw = "DRAFT" /\ contract.financed = FALSE
      /\ offer.status \in {"ABSENT", "PENDING"}
  BY InitialAssumption DEF Init, NewOffer
<1>2. RowsAgree
  BY <1>1 DEF RowsAgree, SM!Terminal
<1>3. \A r \in Requests : UpToDate(req[r], contract)
  BY DEF Init, Idle, UpToDate
<1> QED BY <1>2, <1>3 DEF Serial

LEMMA StepSerial ==
  ASSUME OneAtATime, LabelsOnly
  PROVE  IInv /\ Serial /\ [Next]_vars => Serves
<1> SUFFICES ASSUME IInv, Serial, [Next]_vars
             PROVE  Serves
  OBVIOUS
<1>1. ASSUME NEW r \in Requests,
             Submitting(r) \/ Deciding(r) \/ Terminating(r) \/ Declining(r)
               \/ Replacing(r) \/ Fail(r)
      PROVE  Serves
  BY <1>1, SubmittingServes, DecidingServes, TerminatingServes,
     DecliningServes, ReplacingServes, FailServes
<1>2. ASSUME UNCHANGED <<contract, offer, req>>
      PROVE  Serves
  BY <1>2 DEF Serves, Serial, RowsAgree, UpToDate, MachineStep
<1>3. CASE Reroute
  BY <1>2, <1>3 DEF Reroute
<1>4. ASSUME NEW u \in Users, NEW h \in Headers, EditHeader(u, h)
      PROVE  Serves
  BY <1>4, EditHeaderServes
<1>5. CASE UNCHANGED vars
  BY <1>2, <1>5 DEF vars
<1> QED BY <1>1, <1>3, <1>4, <1>5 DEF Next

LEMMA MachineNext ==
  ASSUME MachineStep
  PROVE  [SM!Next]_(contract.uw)
<1>1. CASE contract'.uw \in SM!UwStatuses \ {"APPROVED"}
             /\ SM!IsLegal(contract.uw, contract'.uw)
  BY <1>1 DEF SM!Next, SM!Advance, SM!Move
<1>2. ASSUME <<contract.uw, contract'.uw>> \in SM!DisputeEdges
      PROVE  SM!DisputeMove
  <2> DEFINE edge == <<contract.uw, contract'.uw>>
  <2>1. edge \in SM!DisputeEdges /\ contract.uw = edge[1] /\ contract'.uw = edge[2]
    BY <1>2
  <2> QED BY <2>1 DEF SM!DisputeMove
<1> QED BY <1>1, <1>2 DEF MachineStep, SM!Next

\* One story in two rows: without a race, and with labels only in the saves of
\* the form, the treaty, its mirror, its offer and its Finance entry agree in
\* every state, the terminal ones included.
THEOREM RowsInStep ==
  ASSUME OneAtATime, LabelsOnly
  PROVE  Spec => []RowsAgree
<1>1. IInv /\ Serial /\ [Next]_vars => Serial'
  BY StepSerial DEF Serves
<1>2. Serial => RowsAgree
  BY DEF Serial
<1> QED BY <1>1, <1>2, InitSerial, InductiveInvariant, PTL DEF Spec

\* The engine implements the machine: without a race every step of the handlers
\* is an edge that lib/statusMachine.js declares, an edge of the dispute, or
\* none at all.
THEOREM MachineImplemented ==
  ASSUME OneAtATime, LabelsOnly
  PROVE  Spec => StatusRefinement
<1>1. Init => SM!Init
  BY DEF Init, SM!Init
<1>2. IInv /\ Serial /\ [Next]_vars => Serial' /\ [SM!Next]_(contract.uw)
  BY StepSerial, MachineNext DEF Serves
<1> QED BY <1>1, <1>2, InitSerial, InductiveInvariant, PTL
        DEF Spec, StatusRefinement, SM!Spec
-----------------------------------------------------------------------------
(* The signed line *)

\* The saves of the form leave the signed line alone, whatever else they write.
LinesKept == \A h \in Headers : h.line = 0

\* What the one request knows of the written line: a line that passed the check
\* is within it, and a replacement, which sets it anew, is not of a signed treaty.
Weighed(now, row, written) ==
  /\ now.pc = "terminal_write" /\ now.action = "SIGN" /\ written # 0 =>
       now.line <= written
  /\ now.pc \in {"replace_check", "replace_write"} => row.uw # "SIGNED"

LineInv ==
  /\ SignedWithinWritten
  /\ \A r \in Requests : Weighed(req[r], contract, offer.line)

WeighedLabels == {"terminal_write", "replace_check", "replace_write"}

\* A step that only reads, and one that writes and leaves nothing to weigh.
LEMMA ReadWeighs ==
  ASSUME OneAtATime, IInv, LineInv, NEW r \in Requests, NEW now, Goto(r, now),
         UNCHANGED <<contract, offer>>,
         now.pc \in WeighedLabels => Weighed(now, contract, offer.line)
  PROVE  LineInv'
<1>1. \A q \in Requests : req'[q] = now
  BY GotoHeld DEF OneAtATime
<1>2. Weighed(now, contract, offer.line)
  BY DEF Weighed, WeighedLabels
<1>3. \A q \in Requests : Weighed(req'[q], contract', offer'.line)
  BY <1>1, <1>2
<1>4. SignedWithinWritten'
  BY DEF LineInv, SignedWithinWritten
<1> QED BY <1>3, <1>4 DEF LineInv

LEMMA WriteWeighs ==
  ASSUME OneAtATime, IInv, NEW r \in Requests, NEW now, Goto(r, now),
         now.pc \notin WeighedLabels, SignedWithinWritten'
  PROVE  LineInv'
<1>1. \A q \in Requests : req'[q] = now
  BY GotoHeld DEF OneAtATime
<1>2. Weighed(now, contract', offer'.line)
  BY DEF Weighed, WeighedLabels
<1>3. \A q \in Requests : Weighed(req'[q], contract', offer'.line)
  BY <1>1, <1>2
<1> QED BY <1>3 DEF LineInv

\* A request ends with a treaty that is not signed, or as signed as it was.
LEMMA EndWeighs ==
  ASSUME OneAtATime, IInv, LineInv, NEW r \in Requests, Finish(r),
         \/ contract'.uw # "SIGNED"
         \/ UNCHANGED contract /\ offer'.line = offer.line
  PROVE  LineInv'
<1>1. Idle.pc \notin WeighedLabels
  BY DEF Idle, WeighedLabels
<1>2. SignedWithinWritten'
  BY DEF LineInv, SignedWithinWritten
<1> QED BY <1>1, <1>2, WriteWeighs DEF Finish

LEMMA SubmittingWeighs ==
  ASSUME OneAtATime, IInv, LineInv, NEW r \in Requests, Submitting(r)
  PROVE  LineInv'
<1>1. req[r] \in Request /\ TypeOK
  BY DEF IInv, TypeOK
<1>2. ASSUME NEW u \in Users, NEW line \in LineOrNull,
             PlanSubmission(r, u, line)
      PROVE  LineInv'
  <2>1. PICK opts \in {Eligible(u), {}} :
          Goto(r, [Idle EXCEPT !.pc = "submit_upsert", !.actor = u,
                               !.opts = opts, !.line = line])
    BY <1>2 DEF PlanSubmission
  <2> DEFINE now == [Idle EXCEPT !.pc = "submit_upsert", !.actor = u,
                                 !.opts = opts, !.line = line]
  <2>2. now.pc = "submit_upsert"
    BY DEF Idle
  <2>3. Goto(r, now) /\ UNCHANGED <<contract, offer>>
    BY <1>2, <2>1 DEF PlanSubmission
  <2> HIDE DEF now
  <2> QED BY <2>2, <2>3, ReadWeighs DEF WeighedLabels
<1>3. CASE UpsertOffer(r)
  <2> DEFINE now == [req[r] EXCEPT !.pc = "submit_write", !.from = contract.uw]
  <2>1. now.pc = "submit_write"
    BY <1>1 DEF Request
  <2>2. Goto(r, now) /\ UNCHANGED <<contract, offer>>
    BY <1>3 DEF UpsertOffer
  <2> HIDE DEF now
  <2> QED BY <2>1, <2>2, ReadWeighs DEF WeighedLabels
<1>4. CASE CommitSubmission(r)
  <2>1. contract'.uw = "AWAITING_APPROVAL" /\ Finish(r)
    BY <1>1, <1>4, UwAfter DEF CommitSubmission
  <2> QED BY <2>1, EndWeighs
<1> QED BY <1>2, <1>3, <1>4 DEF Submitting

LEMMA DecidingWeighs ==
  ASSUME OneAtATime, IInv, LineInv, NEW r \in Requests, Deciding(r)
  PROVE  LineInv'
<1>1. req[r] \in Request /\ TypeOK
  BY DEF IInv, TypeOK
<1>2. ASSUME NEW u \in Users, NEW dec \in Verdicts, LoadOffer(r, u, dec)
      PROVE  LineInv'
  <2> DEFINE now ==
        [Idle EXCEPT !.pc = "peer_route", !.actor = u, !.dec = dec,
                     !.opts = offer.opts, !.submitter = offer.submitter,
                     !.p1 = offer.p1, !.p1d = offer.p1d, !.sub = offer.sub]
  <2>1. now.pc = "peer_route"
    BY DEF Idle
  <2>2. Goto(r, now) /\ UNCHANGED <<contract, offer>>
    BY <1>2 DEF LoadOffer
  <2> HIDE DEF now
  <2> QED BY <2>1, <2>2, ReadWeighs DEF WeighedLabels
<1>3. CASE CheckRouting(r)
  <2> DEFINE now == [req[r] EXCEPT !.pc = "peer_claim", !.opts = {},
                                   !.submitter = NoUser]
  <2>1. now.pc = "peer_claim"
    BY <1>1 DEF Request
  <2>2. Goto(r, now) /\ UNCHANGED <<contract, offer>>
    BY <1>3 DEF CheckRouting
  <2> HIDE DEF now
  <2> QED BY <2>1, <2>2, ReadWeighs DEF WeighedLabels
<1>4. ASSUME NEW outcome, outcome # "SIGNED",
             contract' = ChangeUwStatus(outcome), Finish(r)
      PROVE  LineInv'
  BY <1>1, <1>4, UwAfter, EndWeighs
<1>5. CASE ClaimPeer1(r)
  BY <1>4, <1>5, OutcomeType DEF ClaimPeer1
<1>6. CASE ClaimPeer2(r)
  BY <1>4, <1>6, OutcomeType DEF ClaimPeer2
<1>7. ASSUME NEW u \in Users, NEW dec \in Verdicts, LoadDispute(r, u, dec)
      PROVE  LineInv'
  <2> DEFINE now == [Idle EXCEPT !.pc = "arbiter_claim", !.actor = u,
                                 !.dec = dec, !.sub = offer.sub]
  <2>1. now.pc = "arbiter_claim"
    BY DEF Idle
  <2>2. Goto(r, now) /\ UNCHANGED <<contract, offer>>
    BY <1>7 DEF LoadDispute
  <2> HIDE DEF now
  <2> QED BY <2>1, <2>2, ReadWeighs DEF WeighedLabels
<1>8. CASE ClaimArbiter(r)
  BY <1>4, <1>8, VerdictType DEF ClaimArbiter
<1> QED BY <1>2, <1>3, <1>5, <1>6, <1>7, <1>8 DEF Deciding

\* Signing: the line that passed the check, against the written line it read.
LEMMA SignWeighs ==
  ASSUME OneAtATime, IInv, LineInv, NEW r \in Requests, Sign(r)
  PROVE  LineInv'
<1>1. /\ req[r] \in Request /\ offer \in Offer /\ TypeOK
      /\ Weighed(req[r], contract, offer.line)
  BY DEF IInv, TypeOK, LineInv
<1>2. ChangeUwStatus("SIGNED") \in [uw : UwStatus, status : Mirror,
                                    line : LineOrNull, financed : BOOLEAN]
  BY <1>1, ChangeUwStatusType, StatusNames
<1>3. contract'.line = req[r].line
  BY <1>2 DEF Sign
<1>4. \/ offer'.line = offer.line
      \/ offer.line = 0 /\ offer'.line = req[r].line
  BY <1>1 DEF Sign, Offer
<1>5. offer.line # 0 => req[r].line <= offer.line
  BY <1>1 DEF Sign, Writes, At, Weighed
<1>6. req[r].line \in Nat
  <2>1. req[r].line \in LineOrNull
    BY <1>1 DEF Request
  <2>2. Lines \subseteq Nat
    BY BoundAssumption
  <2>3. LineOrNull \subseteq Nat
    BY <2>2 DEF LineOrNull
  <2> QED BY <2>1, <2>3
<1>7. SignedWithinWritten'
  BY <1>3, <1>4, <1>5, <1>6 DEF SignedWithinWritten
<1>8. Idle.pc \notin WeighedLabels
  BY DEF Idle, WeighedLabels
<1> QED BY <1>7, <1>8, WriteWeighs DEF Sign, Finish

LEMMA TerminatingWeighs ==
  ASSUME OneAtATime, IInv, LineInv, NEW r \in Requests, Terminating(r)
  PROVE  LineInv'
<1>1. req[r] \in Request /\ offer \in Offer /\ TypeOK
  BY DEF IInv, TypeOK
<1>2. ASSUME NEW u \in Users, NEW action \in TerminalActions,
             NEW line \in LineOrNull, AssertTransition(r, u, action, line)
      PROVE  LineInv'
  <2> DEFINE now == [Idle EXCEPT !.pc = "terminal_auth", !.action = action,
                     !.actor = u, !.from = contract.uw, !.line = line]
  <2>1. now.pc = "terminal_auth"
    BY DEF Idle
  <2>2. Goto(r, now) /\ UNCHANGED <<contract, offer>>
    BY <1>2 DEF AssertTransition
  <2> HIDE DEF now
  <2> QED BY <2>1, <2>2, ReadWeighs DEF WeighedLabels
<1>3. CASE AuthorizeTerminal(r)
  <2> DEFINE next ==
        IF req[r].action = "SIGN" THEN "sign_line" ELSE "terminal_write"
             now == [req[r] EXCEPT !.pc = next]
  <2>1. \/ now.pc = "sign_line"
        \/ now.pc = "terminal_write" /\ now.action # "SIGN"
    BY <1>1 DEF Request
  <2>2. Goto(r, now) /\ UNCHANGED <<contract, offer>>
    BY <1>3 DEF AuthorizeTerminal
  <2> HIDE DEF now
  <2>3. now.pc \in WeighedLabels => Weighed(now, contract, offer.line)
    BY <2>1 DEF Weighed, WeighedLabels
  <2> QED BY <2>2, <2>3, ReadWeighs
<1>4. CASE CheckSignedLine(r)
  <2> DEFINE now == [req[r] EXCEPT !.pc = "terminal_write"]
  <2>1. now.pc = "terminal_write" /\ now.line = req[r].line
    BY <1>1 DEF Request
  <2>2. /\ Goto(r, now) /\ UNCHANGED <<contract, offer>>
        /\ LineAllowed(req[r].line)
    BY <1>4 DEF CheckSignedLine
  <2> HIDE DEF now
  <2>3. Weighed(now, contract, offer.line)
    BY <2>1, <2>2 DEF Weighed, LineAllowed
  <2> QED BY <2>2, <2>3, ReadWeighs
<1>5. CASE Sign(r)
  BY <1>5, SignWeighs
<1>6. CASE MarkNotTakenUp(r)
  <2> DEFINE now == [Idle EXCEPT !.pc = "ntu_mirror"]
  <2>1. now.pc = "ntu_mirror" /\ Goto(r, now)
    BY <1>6 DEF MarkNotTakenUp, Idle
  <2> HIDE DEF now
  <2>2. contract'.uw = "NTU"
    BY <1>1, <1>6, UwAfter DEF MarkNotTakenUp
  <2>3. SignedWithinWritten'
    BY <2>2 DEF SignedWithinWritten
  <2> QED BY <2>1, <2>3, WriteWeighs DEF WeighedLabels
<1>7. CASE MirrorNtu(r)
  <2>1. offer'.line = offer.line
    BY <1>1, <1>7 DEF MirrorNtu, Mirrored, Offer
  <2> QED BY <1>7, <2>1, EndWeighs DEF MirrorNtu
<1>8. CASE SendBack(r)
  <2>1. contract'.uw = "DRAFT"
    BY <1>1, <1>8, UwAfter DEF SendBack
  <2> QED BY <1>8, <2>1, EndWeighs DEF SendBack
<1> QED
  BY <1>2, <1>3, <1>4, <1>5, <1>6, <1>7, <1>8 DEF Terminating

LEMMA DecliningWeighs ==
  ASSUME OneAtATime, IInv, LineInv, NEW r \in Requests, Declining(r)
  PROVE  LineInv'
<1>1. req[r] \in Request /\ TypeOK
  BY DEF IInv, TypeOK
<1>2. ASSUME NEW u \in Users, AuthorizeDecline(r, u)
      PROVE  LineInv'
  <2> DEFINE now == [Idle EXCEPT !.pc = "decline_read", !.actor = u]
  <2>1. now.pc = "decline_read"
    BY DEF Idle
  <2>2. Goto(r, now) /\ UNCHANGED <<contract, offer>>
    BY <1>2 DEF AuthorizeDecline
  <2> HIDE DEF now
  <2> QED BY <2>1, <2>2, ReadWeighs DEF WeighedLabels
<1>3. CASE ReadForDecline(r)
  <2> DEFINE now == [req[r] EXCEPT !.pc = "decline_write", !.from = contract.uw]
  <2>1. now.pc = "decline_write"
    BY <1>1 DEF Request
  <2>2. Goto(r, now) /\ UNCHANGED <<contract, offer>>
    BY <1>3 DEF ReadForDecline
  <2> HIDE DEF now
  <2> QED BY <2>1, <2>2, ReadWeighs DEF WeighedLabels
<1>4. CASE CommitDecline(r)
  <2>1. contract'.uw = "DECLINED"
    BY <1>1, <1>4, UwAfter DEF CommitDecline
  <2> QED BY <1>4, <2>1, EndWeighs DEF CommitDecline
<1> QED BY <1>2, <1>3, <1>4 DEF Declining

LEMMA ReplacingWeighs ==
  ASSUME OneAtATime, IInv, LineInv, NEW r \in Requests, Replacing(r)
  PROVE  LineInv'
<1>1. req[r] \in Request /\ TypeOK /\ Weighed(req[r], contract, offer.line)
  BY DEF IInv, TypeOK, LineInv
<1>2. ASSUME NEW u \in Users, NEW line \in LineOrNull,
             ReadForReplace(r, u, line)
      PROVE  LineInv'
  <2> DEFINE now == [Idle EXCEPT !.pc = "replace_check", !.actor = u,
                                 !.line = line]
  <2>1. now.pc = "replace_check" /\ Goto(r, now)
    BY <1>2 DEF ReadForReplace, Idle
  <2> HIDE DEF now
  <2>2. contract.uw # "SIGNED"
    BY <1>2 DEF ReadForReplace, SM!IsLegal, SM!UwStatuses, SM!LegalEdges
  <2>3. Weighed(now, contract, offer.line)
    BY <2>1, <2>2 DEF Weighed
  <2> QED BY <1>2, <2>1, <2>3, ReadWeighs DEF ReadForReplace
<1>3. CASE LockForReplace(r)
  <2> DEFINE now == [req[r] EXCEPT !.pc = "replace_write"]
  <2>1. now.pc = "replace_write" /\ Goto(r, now)
    BY <1>1, <1>3 DEF LockForReplace, Request
  <2> HIDE DEF now
  <2>2. contract.uw # "SIGNED"
    BY <1>1, <1>3 DEF LockForReplace, At, Weighed
  <2>3. Weighed(now, contract, offer.line)
    BY <2>1, <2>2 DEF Weighed
  <2> QED BY <1>3, <2>1, <2>3, ReadWeighs DEF LockForReplace
<1>4. CASE CommitReplace(r)
  <2>1. contract.uw # "SIGNED"
    BY <1>1, <1>4 DEF CommitReplace, At, Weighed
  <2>2. contract'.uw = contract.uw
    BY <1>1, <1>4 DEF CommitReplace, TypeOK
  <2>3. Finish(r)
    BY <1>4, ReplaceFinishes
  <2> QED BY <2>1, <2>2, <2>3, EndWeighs
<1> QED BY <1>2, <1>3, <1>4 DEF Replacing

\* A save without a line keeps the one there is, and signs nothing.
LEMMA EditHeaderWeighs ==
  ASSUME LinesKept, IInv, LineInv, NEW u \in Users, NEW h \in Headers,
         EditHeader(u, h)
  PROVE  LineInv'
<1>1. h.line = 0 /\ TypeOK
  BY DEF LinesKept, IInv
<1> DEFINE moved == IF h.uw = "NONE" THEN contract ELSE Moved(contract, h.uw)
<1>2. [contract EXCEPT !.line = contract.line] = contract
  BY <1>1 DEF TypeOK
<1>3. \/ contract' = moved
      \/ contract' = Moved(moved, h.status)
      \/ contract' = [moved EXCEPT !.status = h.status]
  BY <1>1, <1>2 DEF EditHeader
<1>4. contract'.line = contract.line
  BY <1>1, <1>3 DEF Moved, TypeOK
<1>5. contract'.uw = "SIGNED" => contract.uw = "SIGNED"
  BY <1>1, EditHeaderUw DEF Privileged
<1>6. UNCHANGED <<offer, req>>
  BY DEF EditHeader
<1>7. SignedWithinWritten'
  BY <1>4, <1>5, <1>6 DEF LineInv, SignedWithinWritten
<1>8. \A r \in Requests : Weighed(req'[r], contract', offer'.line)
  BY <1>5, <1>6 DEF LineInv, Weighed
<1> QED BY <1>7, <1>8 DEF LineInv

LEMMA StepLine ==
  ASSUME OneAtATime, LinesKept
  PROVE  IInv /\ LineInv /\ [Next]_vars => LineInv'
<1> SUFFICES ASSUME IInv, LineInv, [Next]_vars
             PROVE  LineInv'
  OBVIOUS
<1>1. ASSUME NEW r \in Requests, Fail(r)
      PROVE  LineInv'
  BY <1>1, EndWeighs DEF Fail
<1>2. ASSUME NEW r \in Requests,
             Submitting(r) \/ Deciding(r) \/ Terminating(r) \/ Declining(r)
               \/ Replacing(r)
      PROVE  LineInv'
  BY <1>2, SubmittingWeighs, DecidingWeighs, TerminatingWeighs,
     DecliningWeighs, ReplacingWeighs
<1>3. ASSUME UNCHANGED <<contract, offer, req>>
      PROVE  LineInv'
  BY <1>3 DEF LineInv, SignedWithinWritten, Weighed
<1>4. CASE Reroute
  BY <1>3, <1>4 DEF Reroute
<1>5. ASSUME NEW u \in Users, NEW h \in Headers, EditHeader(u, h)
      PROVE  LineInv'
  BY <1>5, EditHeaderWeighs
<1>6. CASE UNCHANGED vars
  BY <1>3, <1>6 DEF vars
<1> QED BY <1>1, <1>2, <1>4, <1>5, <1>6 DEF Next

\* Without a race, and when no save of the form touches it, a signed line is
\* within the written line that was approved, whatever states the saves ask for.
THEOREM LineWithinApproval ==
  ASSUME OneAtATime, LinesKept
  PROVE  Spec => []SignedWithinWritten
<1>1. Init => LineInv
  BY DEF Init, Idle, LineInv, SignedWithinWritten, Weighed
<1>2. LineInv => SignedWithinWritten
  BY DEF LineInv
<1> QED BY <1>1, <1>2, StepLine, InductiveInvariant, PTL DEF Spec
=============================================================================
