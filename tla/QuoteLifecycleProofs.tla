------------------------- MODULE QuoteLifecycleProofs -------------------------
(***************************************************************************)
(* What holds of the versions of a quote for any number of users, requests *)
(* and versions, with every request racing on every version: the row lock  *)
(* does its work although half of the handlers write without looking. And, *)
(* when nothing races, that the handlers implement QuoteFamily, keep the   *)
(* offer in step with its quote and keep four eyes on an approval.         *)
(***************************************************************************)
EXTENDS QuoteLifecycle, FiniteSetTheorems, TLAPS

(* Types *)

LEMMA IdleType == Idle \in Request
BY QuoteRowsAssumption DEF Idle, Request, PcLabels, UserOrNull

LEMMA RowTypes ==
  ASSUME TypeOK, NEW q \in Quotes
  PROVE  quote[q] \in QuoteRow /\ offer[q] \in OfferRow /\ lock[q] \in Requests \cup {NoRequest}
BY DEF TypeOK

LEMMA NewVersionType ==
  ASSUME NEW u \in UserOrNull, NEW version \in Nat, NEW row, row = NewVersion(u, version)
  PROVE  /\ row \in QuoteRow /\ row.status = "DRAFT" /\ row.bound = FALSE
         /\ NoRow \in QuoteRow /\ NoRow.status = "NONE" /\ NoRow.bound = FALSE
BY DEF NewVersion, NoRow, QuoteRow, QuoteStatus, SM!UwStatuses, UserOrNull

LEMMA InitType == Init => TypeOK
<1> SUFFICES ASSUME Init PROVE TypeOK
  OBVIOUS
<1>1. PICK status \in InitialStatuses, u \in Creators, uw \in {"DRAFT", "SIGNED"} :
        quote = [q \in Quotes |->
          IF q = Root THEN [NewVersion(u, 1) EXCEPT !.status = status, !.uw = uw]
          ELSE NoRow]
  BY DEF Init
<1>2. PICK row : row = NewVersion(u, 1)
  OBVIOUS
<1>3. row \in QuoteRow /\ NoRow \in QuoteRow
  BY <1>2, NewVersionType, QuoteUsersAssumption DEF UserOrNull
<1>4. [row EXCEPT !.status = status, !.uw = uw] \in QuoteRow
  BY <1>3, QuoteInitialAssumption DEF QuoteRow, QuoteStatus, SM!UwStatuses
<1>5. quote \in [Quotes -> QuoteRow]
  BY <1>1, <1>2, <1>3, <1>4
<1>6. NoOffer \in OfferRow
  BY DEF NoOffer, OfferRow, OfferStatus, UserOrNull
<1> QED BY <1>5, <1>6, IdleType DEF Init, TypeOK, UserOrNull

LEMMA SubmittingType ==
  ASSUME TypeOK, NEW r \in Requests, Submitting(r) \/ Declining(r)
  PROVE  TypeOK'
<1>0. /\ req[r] \in Request /\ Idle \in Request /\ req[r].quote \in Quotes
      /\ Users \subseteq UserOrNull /\ NoUser \in UserOrNull
      /\ req \in [Requests -> Request] /\ lock \in [Quotes -> Requests \cup {NoRequest}]
      /\ quote \in [Quotes -> QuoteRow] /\ offer \in [Quotes -> OfferRow]
  BY IdleType DEF TypeOK, Request, UserOrNull
<1>1. ASSUME NEW q \in Targets, NEW u \in Users, NEW nominee \in UserOrNull,
             PlanSubmission(r, q, u, nominee)
      PROVE  TypeOK'
  <2>1. [Idle EXCEPT !.pc = "submit_lock", !.quote = q, !.actor = u,
                     !.other = nominee] \in Request
    BY <1>0, QuoteRowsAssumption DEF Request, PcLabels
  <2> QED BY <1>0, <1>1, <2>1 DEF PlanSubmission, Goto, TypeOK
<1>2. CASE LockForSubmission(r)
  <2>1. [req[r] EXCEPT !.pc = "submit_write"] \in Request
    BY <1>0 DEF Request, PcLabels
  <2> QED BY <1>0, <1>2, <2>1 DEF LockForSubmission, Hold, Goto, TypeOK
<1>3. CASE CommitSubmission(r)
  <2>1. PICK q : q = req[r].quote
    OBVIOUS
  <2>2. /\ q \in Quotes /\ req[r].other \in UserOrNull /\ req[r].actor \in UserOrNull
        /\ submitter[q] \in UserOrNull
    BY <1>0, <2>1 DEF Request, TypeOK
  <2>3. [quote[q] EXCEPT !.status = "AWAITING_APPROVAL", !.nominee = req[r].other] \in QuoteRow
    BY <1>0, <2>2 DEF QuoteRow, QuoteStatus, SM!UwStatuses
  <2>4. quote' \in [Quotes -> QuoteRow]
    <3>1. quote' = [quote EXCEPT ![q] =
            [quote[q] EXCEPT !.status = "AWAITING_APPROVAL", !.nominee = req[r].other]]
      BY <1>0, <1>3, <2>1, <2>2 DEF CommitSubmission, QuoteRow
    <3> QED BY <1>0, <2>3, <3>1
  <2>5. [status |-> "AWAITING_APPROVAL", nominee |-> req[r].other] \in OfferRow
    BY <2>2 DEF OfferRow, OfferStatus
  <2>6. offer' \in [Quotes -> OfferRow] /\ lock' \in [Quotes -> Requests \cup {NoRequest}]
    BY <1>0, <1>3, <2>1, <2>5 DEF CommitSubmission, Release
  <2>7. submitter' \in [Quotes -> UserOrNull]
    <3>1. PICK who \in {req[r].actor} \cup (IF req[r].late THEN {submitter[q]} ELSE {}) :
            submitter' = [submitter EXCEPT ![q] = who]
      BY <1>3, <2>1 DEF CommitSubmission
    <3>2. who \in UserOrNull
      BY <2>2, <3>1
    <3> QED BY <3>1, <3>2 DEF TypeOK
  <2>8. req' \in [Requests -> Request]
    <3>1. ASSUME NEW s \in Requests, s # r
          PROVE  [req[s] EXCEPT !.late =
                    @ \/ (req[s].pc = "submit_lock" /\ req[s].quote = q)] \in Request
      <4>1. PICK late : late = (req[s].late
                                  \/ (req[s].pc = "submit_lock" /\ req[s].quote = q))
        OBVIOUS
      <4>2. late \in BOOLEAN /\ req[s] \in Request
        BY <1>0, <4>1
      <4>3. [req[s] EXCEPT !.late = late] \in Request
        BY <4>2 DEF Request
      <4> QED BY <4>1, <4>3, Zenon
    <3> QED BY <1>0, <1>3, <2>1, <3>1 DEF CommitSubmission
  <2> QED BY <1>3, <2>4, <2>6, <2>7, <2>8 DEF CommitSubmission, TypeOK
<1>4. ASSUME NEW q \in Targets, NEW u \in Users, AuthorizeDecline(r, q, u)
      PROVE  TypeOK'
  <2>1. [Idle EXCEPT !.pc = "decline_lock", !.quote = q, !.actor = u] \in Request
    BY <1>0, QuoteRowsAssumption DEF Request, PcLabels
  <2> QED BY <1>0, <1>4, <2>1 DEF AuthorizeDecline, Goto, TypeOK
<1>5. CASE LockForDecline(r)
  <2>1. [req[r] EXCEPT !.pc = "decline_write"] \in Request
    BY <1>0 DEF Request, PcLabels
  <2> QED BY <1>0, <1>5, <2>1 DEF LockForDecline, Hold, Goto, TypeOK
<1>6. CASE CommitDecline(r)
  <2>1. PICK q : q = req[r].quote
    OBVIOUS
  <2>2. /\ [quote[q] EXCEPT !.status = "DECLINED"] \in QuoteRow
        /\ [offer[q] EXCEPT !.status = IF @ = "ABSENT" THEN @ ELSE "DECLINED"] \in OfferRow
    BY <1>0, <2>1 DEF QuoteRow, QuoteStatus, SM!UwStatuses, OfferRow, OfferStatus
  <2> QED BY <1>0, <1>6, <2>1, <2>2 DEF CommitDecline, SetStatus, Release, Finish, Goto, TypeOK
<1> QED BY <1>1, <1>2, <1>3, <1>4, <1>5, <1>6 DEF Submitting, Declining

LEMMA ApprovingType ==
  ASSUME TypeOK, NEW r \in Requests, Approving(r) \/ Terminating(r),
         At(r, "mirror") => req[r].action # "NONE"
  PROVE  TypeOK'
<1>0. /\ req[r] \in Request /\ Idle \in Request /\ req[r].quote \in Quotes
      /\ Users \subseteq UserOrNull /\ NoUser \in UserOrNull
      /\ req \in [Requests -> Request] /\ lock \in [Quotes -> Requests \cup {NoRequest}]
      /\ quote \in [Quotes -> QuoteRow] /\ offer \in [Quotes -> OfferRow]
  BY IdleType DEF TypeOK, Request, UserOrNull
<1>1. ASSUME NEW q \in Targets, NEW u \in Users, ReadForApproval(r, q, u)
      PROVE  TypeOK'
  <2>1. PICK named : named = (offer[q].nominee = u)
    OBVIOUS
  <2>2. named \in BOOLEAN
    BY <2>1
  <2>3. PICK new : new = [Idle EXCEPT !.pc = "approve_check", !.quote = q, !.actor = u,
                                      !.action = "APPROVE", !.named = named]
    OBVIOUS
  <2>4. new \in Request
    BY <1>0, <2>2, <2>3, QuoteRowsAssumption DEF Request, PcLabels
  <2>5. req' = [req EXCEPT ![r] = new]
    BY <1>1, <2>1, <2>3, Zenon DEF ReadForApproval, Goto
  <2> QED BY <1>0, <1>1, <2>4, <2>5 DEF ReadForApproval, TypeOK
<1>2. CASE CheckApprover(r)
  <2>1. [req[r] EXCEPT !.pc = "approve_assert", !.named = FALSE] \in Request
    BY <1>0 DEF Request, PcLabels
  <2> QED BY <1>0, <1>2, <2>1 DEF CheckApprover, Goto, TypeOK
<1>3. CASE AssertApproval(r)
  <2>1. [req[r] EXCEPT !.pc = "approve_write"] \in Request
    BY <1>0 DEF Request, PcLabels
  <2> QED BY <1>0, <1>3, <2>1 DEF AssertApproval, Goto, TypeOK
<1>4. CASE CommitApproval(r)
  <2>1. [req[r] EXCEPT !.pc = "mirror", !.actor = NoUser] \in Request
    BY <1>0 DEF Request, PcLabels
  <2>2. [quote[req[r].quote] EXCEPT !.status = "AWAITING_SIGNED_LINE"] \in QuoteRow
    BY <1>0 DEF QuoteRow, QuoteStatus, SM!UwStatuses
  <2> QED BY <1>0, <1>4, <2>1, <2>2 DEF CommitApproval, SetStatus, Goto, TypeOK
<1>5. ASSUME NEW q \in Targets, NEW u \in Users, NEW action \in TerminalActions,
             AssertTransition(r, q, u, action)
      PROVE  TypeOK'
  <2>1. [Idle EXCEPT !.pc = "terminal_auth", !.quote = q, !.actor = u,
                     !.action = action] \in Request
    BY <1>0, QuoteRowsAssumption DEF Request, PcLabels
  <2> QED BY <1>0, <1>5, <2>1 DEF AssertTransition, Goto, TypeOK
<1>6. CASE AuthorizeTerminal(r)
  <2>1. [req[r] EXCEPT !.pc = "terminal_write", !.actor = NoUser] \in Request
    BY <1>0 DEF Request, PcLabels
  <2> QED BY <1>0, <1>6, <2>1 DEF AuthorizeTerminal, Goto, TypeOK
<1>7. CASE CommitTerminal(r)
  <2>1. [req[r] EXCEPT !.pc = "mirror"] \in Request
    BY <1>0 DEF Request, PcLabels
  <2>2. [quote[req[r].quote] EXCEPT !.status = Target(req[r].action)] \in QuoteRow
    BY <1>0 DEF QuoteRow, QuoteStatus, SM!UwStatuses, Target
  <2> QED BY <1>0, <1>7, <2>1, <2>2 DEF CommitTerminal, SetStatus, Goto, TypeOK
<1>8. CASE MirrorOffer(r)
  <2>1. OfferMirror(req[r].action) \in OfferStatus
    BY <1>0, <1>8 DEF MirrorOffer, Request, TerminalActions, OfferMirror, OfferStatus
  <2>2. offer' \in [Quotes -> OfferRow]
    BY <1>0, <1>8, <2>1 DEF MirrorOffer, OfferRow
  <2> QED BY <1>0, <1>8, <2>2 DEF MirrorOffer, Finish, Goto, TypeOK
<1> QED BY <1>1, <1>2, <1>3, <1>4, <1>5, <1>6, <1>7, <1>8 DEF Approving, Terminating

LEMMA AmendingType ==
  ASSUME TypeOK, NEW r \in Requests,
         Amending(r) \/ Binding(r) \/ HandingOver(r) \/ Fail(r)
  PROVE  TypeOK'
<1>0. /\ req[r] \in Request /\ Idle \in Request /\ req[r].quote \in Quotes
      /\ Users \subseteq UserOrNull /\ NoUser \in UserOrNull /\ req[r].other \in UserOrNull
      /\ req \in [Requests -> Request] /\ lock \in [Quotes -> Requests \cup {NoRequest}]
      /\ quote \in [Quotes -> QuoteRow] /\ offer \in [Quotes -> OfferRow]
      /\ contracts \in [Quotes -> Nat] /\ Targets \subseteq Quotes
  BY IdleType, QuoteRowsAssumption DEF TypeOK, Request, UserOrNull
<1>1. ASSUME NEW q \in Targets, NEW u \in Users, ReadForAmendment(r, q, u)
      PROVE  TypeOK'
  <2>1. [Idle EXCEPT !.pc = "amend_write", !.quote = q, !.actor = u] \in Request
    BY <1>0 DEF Request, PcLabels
  <2> QED BY <1>0, <1>1, <2>1 DEF ReadForAmendment, Goto, TypeOK
<1>2. [Idle EXCEPT !.pc = "amended"] \in Request
  BY <1>0 DEF Request, PcLabels
<1>3. CASE CommitAmendment(r)
  <2>1. PICK q, new, row :
          /\ q = req[r].quote /\ new \in Quotes
          /\ row = NewVersion(req[r].actor, quote[q].version + 1)
          /\ quote' = [quote EXCEPT ![q].status = "SUPERSEDED", ![new] = row]
    BY <1>3 DEF CommitAmendment
  <2>2. quote[q].version + 1 \in Nat /\ req[r].actor \in UserOrNull
    BY <1>0, <2>1 DEF QuoteRow, Request
  <2>3. row \in QuoteRow
    BY <2>1, <2>2, NewVersionType
  <2>4. [quote[q] EXCEPT !.status = "SUPERSEDED"] \in QuoteRow
    BY <1>0, <2>1 DEF QuoteRow, QuoteStatus, SM!UwStatuses
  <2>5. quote' \in [Quotes -> QuoteRow]
    BY <1>0, <2>1, <2>3, <2>4
  <2> QED BY <1>0, <1>2, <1>3, <2>5 DEF CommitAmendment, Goto, TypeOK
<1>4. CASE AbortedAmendment(r)
  BY <1>0, <1>2, <1>4 DEF AbortedAmendment, Goto, TypeOK
<1>5. CASE AnswerAmendment(r)
  BY <1>0, <1>5 DEF AnswerAmendment, Finish, Goto, TypeOK
<1>6. ASSUME NEW q \in Targets, NEW u \in Users, AuthorizeBind(r, q, u)
      PROVE  TypeOK'
  <2>1. [Idle EXCEPT !.pc = "bind_lock", !.quote = q, !.actor = u] \in Request
    BY <1>0 DEF Request, PcLabels
  <2> QED BY <1>0, <1>6, <2>1 DEF AuthorizeBind, Goto, TypeOK
<1>7. CASE LockForBind(r)
  <2>1. [req[r] EXCEPT !.pc = "bind_write"] \in Request
    BY <1>0 DEF Request, PcLabels
  <2> QED BY <1>0, <1>7, <2>1 DEF LockForBind, Hold, Goto, TypeOK
<1>8. CASE CommitBind(r)
  <2>1. [quote[req[r].quote] EXCEPT !.bound = TRUE] \in QuoteRow
    BY <1>0 DEF QuoteRow
  <2> QED BY <1>0, <1>8, <2>1 DEF CommitBind, Release, Finish, Goto, TypeOK
<1>9. ASSUME NEW q \in Targets, NEW u \in Users, NEW to \in Users, GuardHandOver(r, q, u, to)
      PROVE  TypeOK'
  <2>1. [Idle EXCEPT !.pc = "assign_read", !.quote = q, !.actor = u,
                     !.other = to] \in Request
    BY <1>0 DEF Request, PcLabels
  <2> QED BY <1>0, <1>9, <2>1 DEF GuardHandOver, Goto, TypeOK
<1>10. CASE ReadForHandOver(r)
  <2>1. [req[r] EXCEPT !.pc = "assign_write", !.actor = NoUser] \in Request
    BY <1>0 DEF Request, PcLabels
  <2> QED BY <1>0, <1>10, <2>1 DEF ReadForHandOver, Goto, TypeOK
<1>11. CASE CommitHandOver(r)
  <2>1. [quote[req[r].quote] EXCEPT !.owner = req[r].other] \in QuoteRow
    BY <1>0 DEF QuoteRow
  <2> QED BY <1>0, <1>11, <2>1 DEF CommitHandOver, Finish, Goto, TypeOK
<1>12. CASE Fail(r)
  BY <1>0, <1>12 DEF Fail, Finish, Goto, TypeOK
<1> QED BY <1>1, <1>3, <1>4, <1>5, <1>6, <1>7, <1>8, <1>9, <1>10, <1>11, <1>12
        DEF Amending, Binding, HandingOver

-----------------------------------------------------------------------------
(* What a request may rely on when it writes *)

HoldsLock  == {"submit_write", "decline_write", "bind_write"}
OutOfLock  == {"approve_write", "terminal_auth", "terminal_write"}
InApproval == {"approve_check", "approve_assert"}

\* The holder of a row lock finds the row as it read it. The writers that hold
\* none know less: theirs is no signed quote, and no quote ever becomes one; and
\* whoever approves did not create the version.
Ready(r) ==
  LET row == quote[req[r].quote]
  IN /\ req[r].pc \in HoldsLock => lock[req[r].quote] = r
     /\ At(r, "submit_write") => SM!IsLegal(row.status, "AWAITING_APPROVAL")
     /\ At(r, "decline_write") => SM!IsLegal(row.status, "DECLINED")
     /\ At(r, "bind_write") => row.status = "SIGNED" /\ row.bound = FALSE
     /\ req[r].pc \in OutOfLock =>
          row.status \notin {"NONE", "SIGNED"} /\ row.bound = FALSE
     /\ req[r].pc \in InApproval => row.status # "NONE"
     /\ req[r].pc \in {"approve_assert", "approve_write"} => req[r].actor # row.creator
     /\ req[r].pc \in OutOfLock \cup InApproval \cup {"mirror"} => req[r].action # "NONE"

IInv == TypeOK /\ BoundOnce /\ \A r \in Requests : Ready(r)

\* What a step of r may do to a row: it respects the locks of the others, never
\* signs, never ends the existence of a version or renames its creator, and binds
\* a signed quote only.
Touched(r, q) ==
  \/ quote'[q] = quote[q]
  \/ /\ lock[q] \in {NoRequest, r} \/ quote[q].status = "NONE"
     /\ quote'[q].status \notin {"NONE", "SIGNED"} \/ quote'[q].status = quote[q].status
     /\ quote'[q].creator = quote[q].creator \/ quote[q].status = "NONE"
     /\ quote'[q].bound = quote[q].bound \/ quote[q].status \in {"NONE", "SIGNED"}

LegalMove(q) ==
  /\ quote'[q].status # quote[q].status
  /\ quote'[q].status \in {"AWAITING_APPROVAL", "DECLINED"}
  => SM!IsLegal(quote[q].status, quote'[q].status)

ApprovedByOther(q) ==
  quote'[q].status = "AWAITING_SIGNED_LINE"
    /\ quote[q].status # "AWAITING_SIGNED_LINE" =>
      \E r \in Requests : Approves(r, q) /\ req[r].actor # quote[q].creator

\* What a step of r does to the requests of the others: nothing they rely on.
Apart(r) ==
  \A k \in Requests \ {r} :
    /\ req'[k].pc = req[k].pc /\ req'[k].quote = req[k].quote
    /\ req'[k].actor = req[k].actor /\ req'[k].action = req[k].action
    /\ \A q \in Quotes : lock[q] = k => lock'[q] = k

Linked(q) ==
  /\ contracts[q] = IF quote[q].bound THEN 1 ELSE 0
  /\ quote[q].bound => quote[q].status \in {"SIGNED", "SUPERSEDED"}

\* A step of r as far as row q goes.
RowStep(r, q) == Touched(r, q) /\ LegalMove(q) /\ ApprovedByOther(q) /\ Linked(q)'

Good(r) == Apart(r) /\ Ready(r)' /\ \A q \in Quotes : RowStep(r, q)

LEMMA OthersReady ==
  ASSUME IInv, NEW r \in Requests, Good(r), NEW k \in Requests, k # r
  PROVE  Ready(k)'
<1> DEFINE q == req[k].quote
<1>0. q \in Quotes /\ k # NoRequest /\ Ready(k) /\ Touched(r, q)
  BY QuoteRequestAssumption DEF IInv, TypeOK, Request, Good, RowStep
<1>1. /\ req'[k].pc = req[k].pc /\ req'[k].quote = q
      /\ req'[k].actor = req[k].actor /\ req'[k].action = req[k].action
      /\ lock[q] = k => lock'[q] = k
  BY <1>0 DEF Good, Apart
<1>2. CASE req[k].pc \in HoldsLock
  <2>1. lock[q] = k /\ quote[q].status # "NONE"
    BY <1>0, <1>2 DEF Ready, HoldsLock, At, SM!IsLegal, SM!UwStatuses
  <2>2. quote'[q] = quote[q]
    BY <1>0, <2>1 DEF Touched
  <2> QED BY <1>0, <1>1, <1>2, <2>1, <2>2 DEF Ready, At, HoldsLock, OutOfLock, InApproval
<1>3. CASE req[k].pc \in OutOfLock \cup InApproval
  <2>1. quote[q].status # "NONE"
    BY <1>0, <1>3 DEF Ready
  <2>2. quote'[q].status # "NONE" /\ quote'[q].creator = quote[q].creator
    BY <1>0, <2>1 DEF Touched
  <2>3. req[k].pc \in OutOfLock => quote'[q].status # "SIGNED" /\ quote'[q].bound = FALSE
    BY <1>0, <2>1 DEF Touched, Ready
  <2> QED BY <1>0, <1>1, <1>3, <2>1, <2>2, <2>3
          DEF Ready, At, HoldsLock, OutOfLock, InApproval
<1>4. CASE req[k].pc \notin HoldsLock \cup OutOfLock \cup InApproval
  BY <1>0, <1>1, <1>4 DEF Ready, At, HoldsLock, OutOfLock, InApproval
<1> QED BY <1>2, <1>3, <1>4

\* Most steps leave the rows alone.
LEMMA Quiet ==
  ASSUME IInv, NEW r \in Requests, UNCHANGED <<quote, contracts>>, NEW q \in Quotes
  PROVE  RowStep(r, q)
BY DEF RowStep, Touched, LegalMove, ApprovedByOther, Linked, IInv, BoundOnce

LEMMA OwnRequest ==
  ASSUME IInv, NEW r \in Requests, NEW now, Goto(r, now)
  PROVE  /\ req'[r] = now
         /\ \A k \in Requests \ {r} : req'[k] = req[k]
BY DEF IInv, TypeOK, Goto

LEMMA SubmittingGood ==
  ASSUME IInv, NEW r \in Requests, Submitting(r) \/ Declining(r)
  PROVE  Good(r)
<1>q. PICK q : q = req[r].quote
  OBVIOUS
<1>0. /\ q \in Quotes /\ req[r] \in Request /\ Idle \in Request /\ Ready(r) /\ Linked(q)
      /\ quote[q] \in QuoteRow /\ lock \in [Quotes -> Requests \cup {NoRequest}]
      /\ quote \in [Quotes -> QuoteRow] /\ req \in [Requests -> Request]
  BY <1>q, IdleType DEF IInv, TypeOK, Request, BoundOnce, Linked
<1>1. ASSUME UNCHANGED <<quote, contracts, lock>>, NEW now, Goto(r, now),
             now.pc \notin HoldsLock \cup OutOfLock \cup InApproval \cup {"mirror"}
      PROVE  Good(r)
  <2>1. Ready(r)'
    BY <1>1, OwnRequest DEF Ready, At, HoldsLock, OutOfLock, InApproval
  <2>2. Apart(r)
    BY <1>1, OwnRequest DEF Apart
  <2> QED BY <1>1, <2>1, <2>2, Quiet DEF Good
<1>2. ASSUME NEW p \in Targets, NEW u \in Users, NEW nominee \in UserOrNull,
             PlanSubmission(r, p, u, nominee)
      PROVE  Good(r)
  <2>1. PICK now : now = [Idle EXCEPT !.pc = "submit_lock", !.quote = p, !.actor = u,
                                      !.other = nominee]
    OBVIOUS
  <2>2. now.pc = "submit_lock"
    BY <1>0, <2>1 DEF Request
  <2> QED BY <1>1, <1>2, <2>1, <2>2
          DEF PlanSubmission, HoldsLock, OutOfLock, InApproval
<1>3. ASSUME NEW p \in Targets, NEW u \in Users, AuthorizeDecline(r, p, u)
      PROVE  Good(r)
  <2>1. PICK now : now = [Idle EXCEPT !.pc = "decline_lock", !.quote = p, !.actor = u]
    OBVIOUS
  <2>2. now.pc = "decline_lock"
    BY <1>0, <2>1 DEF Request
  <2> QED BY <1>1, <1>3, <2>1, <2>2
          DEF AuthorizeDecline, HoldsLock, OutOfLock, InApproval
<1>4. ASSUME NEW pc \in HoldsLock, NEW now, now = [req[r] EXCEPT !.pc = pc],
             Goto(r, now), Hold(r, q), RowFree(r, q), UNCHANGED <<quote, contracts>>,
             pc = "submit_write" => SM!IsLegal(quote[q].status, "AWAITING_APPROVAL"),
             pc = "decline_write" => SM!IsLegal(quote[q].status, "DECLINED"),
             pc # "bind_write"
      PROVE  Good(r)
  <2>1. /\ now.pc = pc /\ now.quote = q /\ req'[r] = now
        /\ lock'[q] = r /\ \A p \in Quotes \ {q} : lock'[p] = lock[p]
    BY <1>q, <1>0, <1>4, OwnRequest DEF Request, Hold
  <2>2. Ready(r)'
    BY <1>q, <1>4, <2>1 DEF Ready, At, HoldsLock, OutOfLock, InApproval
  <2>3. Apart(r)
    BY <1>q, <1>4, <2>1, OwnRequest, QuoteRequestAssumption DEF Apart, RowFree
  <2> QED BY <1>q, <1>4, <2>2, <2>3, Quiet DEF Good
<1>5. CASE LockForSubmission(r)
  BY <1>q, <1>4, <1>5 DEF LockForSubmission, HoldsLock
<1>6. CASE LockForDecline(r)
  BY <1>q, <1>4, <1>6 DEF LockForDecline, HoldsLock
<1>7. ASSUME NEW to \in {"AWAITING_APPROVAL", "DECLINED"},
             SM!IsLegal(quote[q].status, to), req[r].pc \in HoldsLock,
             quote' \in [Quotes -> QuoteRow],
             quote'[q].status = to, quote'[q].bound = quote[q].bound,
             quote'[q].creator = quote[q].creator,
             \A p \in Quotes \ {q} : quote'[p] = quote[p],
             UNCHANGED contracts, req'[r] = Idle, Release(q), Apart(r)
      PROVE  Good(r)
  <2>1. lock[q] = r /\ quote[q].status \notin {"SIGNED", "SUPERSEDED", "NONE"}
    BY <1>q, <1>0, <1>7 DEF Ready, SM!IsLegal, SM!LegalEdges, SM!UwStatuses
  <2>2. Ready(r)'
    BY <1>q, <1>7 DEF Ready, At, HoldsLock, OutOfLock, InApproval, Idle
  <2>3. RowStep(r, q)
    <3>1. Linked(q)'
      BY <1>q, <1>0, <1>7, <2>1 DEF Linked
    <3> QED BY <1>q, <1>7, <2>1, <3>1 DEF RowStep, Touched, LegalMove, ApprovedByOther
  <2>4. ASSUME NEW p \in Quotes \ {q}
        PROVE  RowStep(r, p)
    BY <1>q, <1>7 DEF RowStep, Touched, LegalMove, ApprovedByOther, Linked, IInv, BoundOnce
  <2> QED BY <1>q, <1>7, <2>2, <2>3, <2>4 DEF Good
<1>8. CASE CommitSubmission(r)
  <2>1. TypeOK' /\ SM!IsLegal(quote[q].status, "AWAITING_APPROVAL")
    BY <1>q, <1>0, <1>8, SubmittingType DEF IInv, CommitSubmission, Ready, Submitting
  <2>2. /\ quote'[q].status = "AWAITING_APPROVAL" /\ quote'[q].bound = quote[q].bound
        /\ quote'[q].creator = quote[q].creator
        /\ \A p \in Quotes \ {q} : quote'[p] = quote[p]
    BY <1>q, <1>0, <1>8 DEF CommitSubmission, QuoteRow
  <2>3. lock[q] = r /\ \A p \in Quotes \ {q} : lock'[p] = lock[p]
    BY <1>q, <1>0, <1>8 DEF CommitSubmission, Ready, At, HoldsLock, Release
  <2>4. req'[r] = Idle /\ \A k \in Requests \ {r} :
          /\ req'[k].pc = req[k].pc /\ req'[k].quote = req[k].quote
          /\ req'[k].actor = req[k].actor /\ req'[k].action = req[k].action
    BY <1>q, <1>0, <1>8 DEF CommitSubmission, Request
  <2>5. Apart(r)
    BY <2>3, <2>4 DEF Apart
  <2> QED BY <1>q, <1>7, <1>8, <2>1, <2>2, <2>4, <2>5 DEF CommitSubmission, TypeOK, HoldsLock, At
<1>9. CASE CommitDecline(r)
  <2>1. TypeOK' /\ SM!IsLegal(quote[q].status, "DECLINED")
    BY <1>q, <1>0, <1>9, SubmittingType DEF IInv, CommitDecline, Ready, Declining
  <2>2. /\ quote'[q].status = "DECLINED" /\ quote'[q].bound = quote[q].bound
        /\ quote'[q].creator = quote[q].creator
        /\ \A p \in Quotes \ {q} : quote'[p] = quote[p]
    BY <1>q, <1>0, <1>9 DEF CommitDecline, SetStatus, QuoteRow
  <2>3. lock[q] = r /\ \A p \in Quotes \ {q} : lock'[p] = lock[p]
    BY <1>q, <1>0, <1>9 DEF CommitDecline, Ready, At, HoldsLock, Release
  <2>4. req'[r] = Idle /\ Apart(r)
    BY <1>q, <1>9, <2>3, OwnRequest DEF CommitDecline, Finish, Apart
  <2> QED BY <1>q, <1>7, <1>9, <2>1, <2>2, <2>4 DEF CommitDecline, TypeOK, HoldsLock, At
<1> QED BY <1>2, <1>3, <1>5, <1>6, <1>8, <1>9 DEF Submitting, Declining

\* A step that only takes the request further.
LEMMA OnlyGoto ==
  ASSUME IInv, NEW r \in Requests, UNCHANGED <<quote, contracts, lock>>, NEW now,
         Goto(r, now), Ready(r)'
  PROVE  Good(r)
<1>1. Apart(r)
  BY OwnRequest DEF Apart
<1> QED BY <1>1, Quiet DEF Good

\* A write without a lock that gives a version a new status.
LEMMA BareWrite ==
  ASSUME IInv, NEW r \in Requests, NEW q \in Quotes, q = req[r].quote, RowFree(r, q),
         NEW to \in {"AWAITING_SIGNED_LINE", "NTU", "DRAFT"}, SetStatus(q, to),
         req[r].pc \in OutOfLock, UNCHANGED <<contracts, lock>>,
         NEW now, Goto(r, now), now.pc = "mirror", now.action # "NONE",
         to = "AWAITING_SIGNED_LINE" =>
           At(r, "approve_write") /\ req[r].actor # quote[q].creator
  PROVE  Good(r)
<1>0. /\ quote[q].status \notin {"NONE", "SIGNED"} /\ quote[q].bound = FALSE
      /\ quote \in [Quotes -> QuoteRow] /\ Linked(q)
  BY DEF IInv, TypeOK, Ready, BoundOnce, Linked
<1>1. /\ quote'[q].status = to /\ quote'[q].bound = FALSE
      /\ quote'[q].creator = quote[q].creator
      /\ \A p \in Quotes \ {q} : quote'[p] = quote[p]
  BY <1>0 DEF SetStatus, QuoteRow
<1>2. req'[r] = now /\ Apart(r)
  BY OwnRequest DEF Apart
<1>3. Ready(r)'
  BY <1>2 DEF Ready, At, HoldsLock, OutOfLock, InApproval
<1>4. ApprovedByOther(q)
  BY <1>1, <1>2 DEF ApprovedByOther, Approves
<1>5. Linked(q)'
  BY <1>0, <1>1 DEF Linked
<1>6. RowStep(r, q)
  BY <1>0, <1>1, <1>4, <1>5 DEF RowStep, Touched, RowFree, LegalMove
<1>7. ASSUME NEW p \in Quotes \ {q}
      PROVE  RowStep(r, p)
  BY <1>1 DEF RowStep, Touched, LegalMove, ApprovedByOther, Linked, IInv, BoundOnce
<1> QED BY <1>2, <1>3, <1>6, <1>7 DEF Good

LEMMA ApprovingGood ==
  ASSUME IInv, NEW r \in Requests, Approving(r) \/ Terminating(r)
  PROVE  Good(r)
<1>q. PICK q : q = req[r].quote
  OBVIOUS
<1>0. /\ q \in Quotes /\ req[r] \in Request /\ Idle \in Request /\ Ready(r) /\ Linked(q)
      /\ Targets \subseteq Quotes /\ \A p \in Quotes : Linked(p)
  BY <1>q, IdleType, QuoteRowsAssumption DEF IInv, TypeOK, Request, BoundOnce, Linked
<1>1. ASSUME NEW p \in Targets, NEW u \in Users, ReadForApproval(r, p, u)
      PROVE  Good(r)
  <2>1. PICK now : now = [Idle EXCEPT !.pc = "approve_check", !.quote = p, !.actor = u,
                            !.action = "APPROVE", !.named = offer[p].nominee = u]
    OBVIOUS
  <2>2. now.pc = "approve_check" /\ now.quote = p /\ now.action = "APPROVE"
    BY <2>1 DEF Idle
  <2>3. Goto(r, now) /\ quote[p].status # "NONE" /\ UNCHANGED <<quote, contracts, lock>>
    BY <1>1, <2>1, Zenon DEF ReadForApproval, Existing
  <2>4. Ready(r)'
    BY <2>2, <2>3, OwnRequest DEF Ready, At, HoldsLock, OutOfLock, InApproval
  <2> QED BY <2>3, <2>4, OnlyGoto
<1>2. CASE CheckApprover(r)
  <2>1. PICK now : now = [req[r] EXCEPT !.pc = "approve_assert", !.named = FALSE]
    OBVIOUS
  <2>2. /\ now.pc = "approve_assert" /\ now.quote = q /\ now.action = req[r].action
        /\ now.actor = req[r].actor
    BY <1>q, <1>0, <2>1 DEF Request
  <2>3. /\ Goto(r, now) /\ quote[q].status # "NONE" /\ UNCHANGED <<quote, contracts, lock>>
        /\ req[r].actor # quote[q].creator /\ req[r].action # "NONE"
    BY <1>q, <1>0, <1>2, <2>1 DEF CheckApprover, MayApprove, Ready, At, InApproval
  <2>4. Ready(r)'
    BY <2>2, <2>3, OwnRequest DEF Ready, At, HoldsLock, OutOfLock, InApproval
  <2> QED BY <2>3, <2>4, OnlyGoto
<1>3. CASE AssertApproval(r)
  <2>1. PICK now : now = [req[r] EXCEPT !.pc = "approve_write"]
    OBVIOUS
  <2>2. /\ now.pc = "approve_write" /\ now.quote = q /\ now.action = req[r].action
        /\ now.actor = req[r].actor
    BY <1>q, <1>0, <2>1 DEF Request
  <2>3. /\ Goto(r, now) /\ UNCHANGED <<quote, contracts, lock>>
        /\ req[r].actor # quote[q].creator /\ req[r].action # "NONE"
        /\ SM!IsLegal(quote[q].status, "AWAITING_SIGNED_LINE")
    BY <1>q, <1>0, <1>3, <2>1 DEF AssertApproval, Approvable, Ready, At, InApproval
  <2>4. quote[q].status \notin {"NONE", "SIGNED", "SUPERSEDED"}
    BY <2>3 DEF SM!IsLegal, SM!LegalEdges, SM!UwStatuses
  <2>5. quote[q].bound = FALSE
    BY <1>0, <2>4 DEF Linked, IInv, TypeOK, QuoteRow
  <2>6. Ready(r)'
    BY <2>2, <2>3, <2>4, <2>5, OwnRequest DEF Ready, At, HoldsLock, OutOfLock, InApproval
  <2> QED BY <2>3, <2>6, OnlyGoto
<1>4. CASE CommitApproval(r)
  <2>1. PICK now : now = [req[r] EXCEPT !.pc = "mirror", !.actor = NoUser]
    OBVIOUS
  <2>2. now.pc = "mirror" /\ now.action = req[r].action
    BY <1>0, <2>1 DEF Request
  <2>3. req[r].action # "NONE" /\ req[r].actor # quote[q].creator
    BY <1>q, <1>0, <1>4 DEF CommitApproval, Ready, At, OutOfLock
  <2> QED BY <1>q, <1>0, <1>4, <2>1, <2>2, <2>3, BareWrite DEF CommitApproval, At, OutOfLock
<1>5. ASSUME NEW p \in Targets, NEW u \in Users, NEW action \in TerminalActions,
             AssertTransition(r, p, u, action)
      PROVE  Good(r)
  <2>1. PICK now : now = [Idle EXCEPT !.pc = "terminal_auth", !.quote = p, !.actor = u,
                                      !.action = action]
    OBVIOUS
  <2>2. now.pc = "terminal_auth" /\ now.quote = p /\ now.action # "NONE"
    BY <2>1 DEF Idle, TerminalActions
  <2>3. /\ Goto(r, now) /\ UNCHANGED <<quote, contracts, lock>>
        /\ quote[p].status \notin {"NONE", "SIGNED", "SUPERSEDED"}
    BY <1>5, <2>1 DEF AssertTransition, PriorStates
  <2>4. quote[p].bound = FALSE
    BY <1>0, <2>3 DEF Linked, IInv, TypeOK, QuoteRow
  <2>5. Ready(r)'
    BY <2>2, <2>3, <2>4, OwnRequest DEF Ready, At, HoldsLock, OutOfLock, InApproval
  <2> QED BY <2>3, <2>5, OnlyGoto
<1>6. CASE AuthorizeTerminal(r)
  <2>1. PICK now : now = [req[r] EXCEPT !.pc = "terminal_write", !.actor = NoUser]
    OBVIOUS
  <2>2. now.pc = "terminal_write" /\ now.quote = q /\ now.action = req[r].action
    BY <1>q, <1>0, <2>1 DEF Request
  <2>3. Goto(r, now) /\ UNCHANGED <<quote, contracts, lock>>
    BY <1>6, <2>1 DEF AuthorizeTerminal
  <2>4. Ready(r)'
    BY <1>q, <1>0, <1>6, <2>2, <2>3, OwnRequest
       DEF AuthorizeTerminal, Ready, At, HoldsLock, OutOfLock, InApproval
  <2> QED BY <2>3, <2>4, OnlyGoto
<1>7. CASE CommitTerminal(r)
  <2>1. PICK now : now = [req[r] EXCEPT !.pc = "mirror"]
    OBVIOUS
  <2>2. PICK to : to = Target(req[r].action)
    OBVIOUS
  <2>3. /\ now.pc = "mirror" /\ now.action = req[r].action /\ to \in {"NTU", "DRAFT"}
        /\ req[r].action # "NONE"
    BY <1>0, <1>7, <2>1, <2>2 DEF Request, Target, CommitTerminal, Ready, At, OutOfLock
  <2> QED BY <1>q, <1>0, <1>7, <2>1, <2>2, <2>3, BareWrite DEF CommitTerminal, At, OutOfLock
<1>8. CASE MirrorOffer(r)
  <2>1. Goto(r, Idle) /\ UNCHANGED <<quote, contracts, lock>>
    BY <1>8 DEF MirrorOffer, Finish
  <2>2. Ready(r)'
    BY <2>1, OwnRequest DEF Ready, At, HoldsLock, OutOfLock, InApproval, Idle
  <2> QED BY <2>1, <2>2, OnlyGoto
<1> QED BY <1>1, <1>2, <1>3, <1>4, <1>5, <1>6, <1>7, <1>8 DEF Approving, Terminating

LEMMA AmendingGood ==
  ASSUME IInv, NEW r \in Requests, Amending(r) \/ HandingOver(r)
  PROVE  Good(r)
<1>q. PICK q : q = req[r].quote
  OBVIOUS
<1>0. /\ q \in Quotes /\ req[r] \in Request /\ Idle \in Request /\ Linked(q)
      /\ quote \in [Quotes -> QuoteRow] /\ \A p \in Quotes : Linked(p)
  BY <1>q, IdleType DEF IInv, TypeOK, Request, BoundOnce, Linked
<1>1. ASSUME UNCHANGED <<contracts, lock>>, NEW now, Goto(r, now),
             now.pc \notin HoldsLock \cup OutOfLock \cup InApproval \cup {"mirror"}
      PROVE  Apart(r) /\ Ready(r)' /\ (UNCHANGED quote => Good(r))
  <2>1. Ready(r)' /\ Apart(r)
    BY <1>1, OwnRequest DEF Ready, At, HoldsLock, OutOfLock, InApproval, Apart
  <2> QED BY <1>1, <2>1, OnlyGoto
<1>2. ASSUME NEW p \in Targets, NEW u \in Users, ReadForAmendment(r, p, u)
      PROVE  Good(r)
  <2>1. PICK now : now = [Idle EXCEPT !.pc = "amend_write", !.quote = p, !.actor = u]
    OBVIOUS
  <2>2. now.pc = "amend_write"
    BY <2>1 DEF Idle
  <2> QED BY <1>1, <1>2, <2>1, <2>2
          DEF ReadForAmendment, HoldsLock, OutOfLock, InApproval
<1>3. PICK amended : amended = [Idle EXCEPT !.pc = "amended"]
  OBVIOUS
<1>4. amended.pc = "amended"
  BY <1>3 DEF Idle
<1>5. CASE CommitAmendment(r)
  <2>1. PICK new, row :
          /\ new \in Quotes \ Existing
          /\ row = NewVersion(req[r].actor, quote[q].version + 1)
          /\ quote' = [quote EXCEPT ![q].status = "SUPERSEDED", ![new] = row]
    BY <1>q, <1>5 DEF CommitAmendment
  <2>2. quote[q].version + 1 \in Nat /\ req[r].actor \in UserOrNull
    BY <1>0, <2>1 DEF QuoteRow, Request
  <2>3. row.status = "DRAFT" /\ row.bound = FALSE
    BY <2>1, <2>2, NewVersionType
  <2>4. /\ quote[new].status = "NONE" /\ quote'[new] = row
        /\ q # new => /\ quote'[q].status = "SUPERSEDED" /\ quote'[q].bound = quote[q].bound
                      /\ quote'[q].creator = quote[q].creator
        /\ \A p \in Quotes \ {q, new} : quote'[p] = quote[p]
    BY <1>0, <2>1 DEF Existing, QuoteRow
  <2>5. contracts' = contracts /\ RowFree(r, q) /\ Apart(r) /\ Ready(r)'
    BY <1>q, <1>1, <1>3, <1>4, <1>5
       DEF CommitAmendment, HoldsLock, OutOfLock, InApproval
  <2>6. Linked(new)' /\ contracts[new] = 0
    <3>1. Linked(new) /\ quote[new].bound = FALSE
      BY <1>0, <2>1, <2>4 DEF Linked, QuoteRow
    <3> QED BY <2>3, <2>4, <2>5, <3>1 DEF Linked
  <2>7. RowStep(r, new)
    BY <2>3, <2>4, <2>6 DEF RowStep, Touched, LegalMove, ApprovedByOther
  <2>8. q # new => RowStep(r, q)
    <3>1. q # new => Linked(q)'
      BY <1>0, <2>4, <2>5 DEF Linked
    <3> QED BY <2>4, <2>5, <3>1 DEF RowStep, Touched, LegalMove, ApprovedByOther, RowFree
  <2>9. ASSUME NEW p \in Quotes \ {q, new}
        PROVE  RowStep(r, p)
    BY <1>0, <2>4, <2>5 DEF RowStep, Touched, LegalMove, ApprovedByOther, Linked
  <2> QED BY <2>5, <2>7, <2>8, <2>9 DEF Good
<1>6. CASE AbortedAmendment(r)
  BY <1>1, <1>3, <1>4, <1>6 DEF AbortedAmendment, HoldsLock, OutOfLock, InApproval
<1>7. Idle.pc = "idle"
  BY DEF Idle
<1>8. CASE AnswerAmendment(r)
  BY <1>1, <1>7, <1>8 DEF AnswerAmendment, Finish, HoldsLock, OutOfLock, InApproval
<1>9. ASSUME NEW p \in Targets, NEW u \in Users, NEW to \in Users, GuardHandOver(r, p, u, to)
      PROVE  Good(r)
  <2>1. PICK now : now = [Idle EXCEPT !.pc = "assign_read", !.quote = p, !.actor = u,
                                      !.other = to]
    OBVIOUS
  <2>2. now.pc = "assign_read"
    BY <2>1 DEF Idle
  <2> QED BY <1>1, <1>9, <2>1, <2>2 DEF GuardHandOver, HoldsLock, OutOfLock, InApproval
<1>10. CASE ReadForHandOver(r)
  <2>1. PICK now : now = [req[r] EXCEPT !.pc = "assign_write", !.actor = NoUser]
    OBVIOUS
  <2>2. now.pc = "assign_write"
    BY <1>0, <2>1 DEF Request
  <2> QED BY <1>1, <1>10, <2>1, <2>2 DEF ReadForHandOver, HoldsLock, OutOfLock, InApproval
<1>11. CASE CommitHandOver(r)
  <2>1. /\ quote'[q].status = quote[q].status /\ quote'[q].bound = quote[q].bound
        /\ quote'[q].creator = quote[q].creator
        /\ \A p \in Quotes \ {q} : quote'[p] = quote[p]
    BY <1>q, <1>0, <1>11 DEF CommitHandOver, QuoteRow
  <2>2. contracts' = contracts /\ RowFree(r, q) /\ Apart(r) /\ Ready(r)'
    BY <1>q, <1>1, <1>7, <1>11
       DEF CommitHandOver, Finish, HoldsLock, OutOfLock, InApproval
  <2>3. ASSUME NEW p \in Quotes
        PROVE  RowStep(r, p)
    BY <1>0, <2>1, <2>2 DEF RowStep, Touched, LegalMove, ApprovedByOther, Linked, RowFree
  <2> QED BY <2>2, <2>3 DEF Good
<1> QED BY <1>2, <1>5, <1>6, <1>8, <1>9, <1>10, <1>11 DEF Amending, HandingOver

LEMMA BindingGood ==
  ASSUME IInv, NEW r \in Requests, Binding(r) \/ Fail(r)
  PROVE  Good(r)
<1>q. PICK q : q = req[r].quote
  OBVIOUS
<1>0. /\ q \in Quotes /\ req[r] \in Request /\ Ready(r) /\ Linked(q)
      /\ quote \in [Quotes -> QuoteRow] /\ contracts \in [Quotes -> Nat]
      /\ lock \in [Quotes -> Requests \cup {NoRequest}]
      /\ \A p \in Quotes : Linked(p)
  BY <1>q DEF IInv, TypeOK, Request, BoundOnce, Linked
<1>1. ASSUME req'[r] = Idle
      PROVE  Ready(r)'
  BY <1>1 DEF Ready, At, HoldsLock, OutOfLock, InApproval, Idle
<1>2. ASSUME NEW p \in Targets, NEW u \in Users, AuthorizeBind(r, p, u)
      PROVE  Good(r)
  <2>1. PICK now : now = [Idle EXCEPT !.pc = "bind_lock", !.quote = p, !.actor = u]
    OBVIOUS
  <2>2. now.pc = "bind_lock" /\ Goto(r, now) /\ UNCHANGED <<quote, contracts, lock>>
    BY <1>2, <2>1 DEF Idle, AuthorizeBind
  <2>3. Ready(r)'
    BY <2>2, OwnRequest DEF Ready, At, HoldsLock, OutOfLock, InApproval
  <2> QED BY <2>2, <2>3, OnlyGoto
<1>3. CASE LockForBind(r)
  <2>1. PICK now : now = [req[r] EXCEPT !.pc = "bind_write"]
    OBVIOUS
  <2>2. /\ now.pc = "bind_write" /\ now.quote = q /\ req'[r] = now
        /\ lock'[q] = r /\ \A p \in Quotes \ {q} : lock'[p] = lock[p]
        /\ UNCHANGED <<quote, contracts>>
        /\ quote[q].status = "SIGNED" /\ ~quote[q].bound
    BY <1>q, <1>0, <1>3, <2>1, OwnRequest DEF LockForBind, Hold, Request
  <2>3. quote[q].bound = FALSE
    BY <1>0, <2>2 DEF QuoteRow
  <2>4. Ready(r)'
    BY <2>2, <2>3 DEF Ready, At, HoldsLock, OutOfLock, InApproval
  <2>5. Apart(r)
    BY <1>q, <1>3, <2>2, OwnRequest, QuoteRequestAssumption DEF LockForBind, Apart, RowFree
  <2> QED BY <2>2, <2>4, <2>5, Quiet DEF Good
<1>4. CASE CommitBind(r)
  <2>1. /\ lock[q] = r /\ quote[q].status = "SIGNED" /\ quote[q].bound = FALSE
        /\ contracts[q] = 0
    BY <1>q, <1>0, <1>4 DEF CommitBind, Ready, At, HoldsLock, Linked
  <2>2. /\ quote'[q].status = "SIGNED" /\ quote'[q].bound = TRUE
        /\ quote'[q].creator = quote[q].creator /\ contracts'[q] = 1
        /\ \A p \in Quotes \ {q} : quote'[p] = quote[p] /\ contracts'[p] = contracts[p]
        /\ \A p \in Quotes \ {q} : lock'[p] = lock[p]
    BY <1>q, <1>0, <1>4, <2>1 DEF CommitBind, Release, QuoteRow
  <2>3. req'[r] = Idle /\ Apart(r)
    BY <1>4, <2>1, <2>2, OwnRequest DEF CommitBind, Finish, Apart
  <2>4. Linked(q)'
    BY <2>2 DEF Linked
  <2>5. RowStep(r, q)
    BY <2>1, <2>2, <2>4 DEF RowStep, Touched, LegalMove, ApprovedByOther
  <2>6. ASSUME NEW p \in Quotes \ {q}
        PROVE  RowStep(r, p)
    BY <1>0, <2>2 DEF RowStep, Touched, LegalMove, ApprovedByOther, Linked
  <2> QED BY <1>1, <2>3, <2>5, <2>6 DEF Good
<1>5. CASE Fail(r)
  <2>1. req'[r] = Idle /\ Apart(r) /\ UNCHANGED <<quote, contracts>>
    BY <1>5, OwnRequest DEF Fail, Finish, Apart
  <2> QED BY <1>1, <2>1, Quiet DEF Good
<1> QED BY <1>2, <1>3, <1>4, <1>5 DEF Binding

-----------------------------------------------------------------------------
LEMMA InitReady == Init => IInv
<1> SUFFICES ASSUME Init PROVE IInv
  OBVIOUS
<1>1. TypeOK
  BY InitType
<1>2. PICK status \in InitialStatuses, u \in Creators, uw \in {"DRAFT", "SIGNED"} :
        quote = [q \in Quotes |->
          IF q = Root THEN [NewVersion(u, 1) EXCEPT !.status = status, !.uw = uw]
          ELSE NoRow]
  BY DEF Init
<1>3. \A q \in Quotes : quote[q].bound = FALSE
  BY <1>2 DEF NewVersion, NoRow
<1>4. BoundOnce
  BY <1>3 DEF Init, BoundOnce
<1>5. \A r \in Requests : Ready(r)
  BY DEF Init, Idle, Ready, At, HoldsLock, OutOfLock, InApproval
<1> QED BY <1>1, <1>4, <1>5 DEF IInv

LEMMA EachStep ==
  ASSUME IInv, Next
  PROVE  /\ IInv'
         /\ \A q \in Quotes : LegalMove(q) /\ ApprovedByOther(q)
<1>1. PICK r \in Requests :
        \/ Submitting(r) \/ Declining(r) \/ Approving(r) \/ Terminating(r)
        \/ Amending(r) \/ Binding(r) \/ HandingOver(r) \/ Fail(r)
  BY DEF Next
<1>2. TypeOK'
  <2>1. At(r, "mirror") => req[r].action # "NONE"
    BY DEF IInv, Ready, At
  <2> QED BY <1>1, <2>1, SubmittingType, ApprovingType, AmendingType DEF IInv
<1>3. Good(r)
  BY <1>1, SubmittingGood, ApprovingGood, AmendingGood, BindingGood
<1>4. \A k \in Requests : Ready(k)'
  BY <1>3, OthersReady DEF Good
<1>5. BoundOnce'
  BY <1>3 DEF Good, RowStep, Linked, BoundOnce
<1> QED BY <1>2, <1>3, <1>4, <1>5 DEF IInv, Good, RowStep

LEMMA IInvStep == IInv /\ [Next]_vars => IInv'
<1> SUFFICES ASSUME IInv, UNCHANGED vars PROVE IInv'
  BY EachStep
<1> QED BY DEF vars, IInv, TypeOK, BoundOnce, Ready, At

LEMMA Always == Spec => []IInv
BY InitReady, IInvStep, PTL DEF Spec

\* Every row and every request stays in its domain.
THEOREM TypeCorrect == Spec => []TypeOK
<1>1. IInv => TypeOK
  BY DEF IInv
<1> QED BY <1>1, Always, PTL

\* However many binds race with whatever else, a quote becomes one contract.
THEOREM OneContract == Spec => []BoundOnce
<1>1. IInv => BoundOnce
  BY DEF IInv
<1> QED BY <1>1, Always, PTL

\* The handlers that read under the row lock move a quote along legal edges only.
THEOREM LockedMoves == Spec => LockedMovesLegal
<1>1. IInv /\ [Next]_vars =>
        [\A q \in Quotes :
           /\ quote'[q].status # quote[q].status
           /\ quote'[q].status \in {"AWAITING_APPROVAL", "DECLINED"}
           => SM!IsLegal(quote[q].status, quote'[q].status)]_vars
  BY EachStep DEF LegalMove
<1> QED BY <1>1, Always, PTL DEF Spec, LockedMovesLegal

\* Only approveQuote brings a quote to its signed line, and never for the user
\* who created the version.
THEOREM CreatorApart == Spec => CreatorNeverApproves
<1>1. IInv /\ [Next]_vars =>
        [\A q \in Quotes :
           quote'[q].status = "AWAITING_SIGNED_LINE"
             /\ quote[q].status # "AWAITING_SIGNED_LINE" =>
               \E r \in Requests : Approves(r, q) /\ req[r].actor # quote[q].creator]_vars
  BY EachStep DEF ApprovedByOther
<1> QED BY <1>1, Always, PTL DEF Spec, CreatorNeverApproves

-----------------------------------------------------------------------------
(* The chain of versions, of any table of rows *)

In(rows)   == {q \in Quotes : rows[q].status # "NONE"}
Open(rows) == {q \in In(rows) : rows[q].status # "SUPERSEDED"}
Size(rows) == Cardinality(In(rows))
Top(rows)  ==
  IF Cardinality(Open(rows)) = 1 THEN rows[CHOOSE q \in Open(rows) : TRUE].status
  ELSE "SUPERSEDED"

\* The versions are numbered 1 .. n, each number once, and the last one is open.
Numbered(rows, n) ==
  /\ \A q \in In(rows) :
       /\ rows[q].version \in 1..n
       /\ rows[q].status # "SUPERSEDED" <=> rows[q].version = n
  /\ \A i \in 1..n : \E q \in In(rows) : rows[q].version = i
  /\ \A p, q \in In(rows) : rows[p].version = rows[q].version => p = q

ChainOf(rows) == In(rows) # {} /\ Numbered(rows, Size(rows))

\* The three things a step may do to the rows, as far as the chain goes.
SameRows(rows, next) ==
  \A p \in Quotes :
    next[p].status = rows[p].status /\ next[p].version = rows[p].version

MovesRow(rows, next, q) ==
  /\ SM!IsLegal(rows[q].status, next[q].status) /\ next[q].status # "SIGNED"
  /\ \A p \in Quotes : next[p].version = rows[p].version
  /\ \A p \in Quotes \ {q} : next[p].status = rows[p].status

AmendsRow(rows, next, q, new) ==
  /\ rows[q].status \in Amendable /\ rows[new].status = "NONE"
  /\ next[q].status = "SUPERSEDED" /\ next[q].version = rows[q].version
  /\ next[new].status = "DRAFT" /\ next[new].version = rows[q].version + 1
  /\ \A p \in Quotes \ {q, new} :
       next[p].status = rows[p].status /\ next[p].version = rows[p].version

RowsMove(rows, next) ==
  \/ SameRows(rows, next)
  \/ \E q \in Quotes : MovesRow(rows, next, q)
  \/ \E q, new \in Quotes : AmendsRow(rows, next, q, new)

\* A step of QuoteFamily, the versions and the live status read off the rows.
FamilyMove(rows, next) ==
  \/ /\ Size(next) = Size(rows)
     /\ \/ Top(next) = Top(rows)
        \/ SM!IsLegal(Top(rows), Top(next)) /\ Top(next) # "SIGNED"
  \/ /\ Size(next) = Size(rows) + 1
     /\ Top(rows) \in Amendable /\ Top(next) = "DRAFT"

LEMMA SizeType ==
  ASSUME NEW rows
  PROVE  /\ IsFiniteSet(In(rows)) /\ Size(rows) \in Nat
         /\ Size(rows) = 0 <=> In(rows) = {}
<1>1. In(rows) \in SUBSET Quotes
  BY DEF In
<1>2. IsFiniteSet(In(rows))
  BY <1>1, QuoteFiniteAssumption, FS_Subset
<1> QED BY <1>2, FS_CardinalityType, FS_EmptySet DEF Size

LEMMA Statuses ==
  ASSUME NEW from, NEW to, SM!IsLegal(from, to)
  PROVE  /\ from \notin {"NONE", "SUPERSEDED"} /\ from \in SM!UwStatuses
         /\ to \notin {"NONE", "SUPERSEDED"} /\ to \in SM!UwStatuses
BY DEF SM!IsLegal, SM!UwStatuses

LEMMA AmendableStatuses ==
  Amendable \subseteq SM!UwStatuses \ {"NTU", "DECLINED"}
BY DEF Amendable, Family!Amendable, SM!UwStatuses

\* A chain has one open end, whose status is the live one.
LEMMA OpenEnd ==
  ASSUME NEW rows, ChainOf(rows), NEW q \in In(rows),
         rows[q].status # "SUPERSEDED"
  PROVE  Top(rows) = rows[q].status
<1>1. Open(rows) = {q}
  BY DEF ChainOf, Numbered, Open
<1>2. Cardinality(Open(rows)) = 1
  BY <1>1, FS_Singleton
<1>3. (CHOOSE p \in Open(rows) : TRUE) = q
  BY <1>1
<1> QED BY <1>2, <1>3 DEF Top

LEMMA HasEnd ==
  ASSUME NEW rows, ChainOf(rows)
  PROVE  \E q \in In(rows) : rows[q].status # "SUPERSEDED"
<1>1. Size(rows) \in 1..Size(rows)
  BY SizeType DEF ChainOf
<1> QED BY <1>1 DEF ChainOf, Numbered

LEMMA SameKept ==
  ASSUME NEW rows, NEW next, ChainOf(rows),
         \A p \in Quotes : next[p].version = rows[p].version,
         \A p \in Quotes :
           /\ next[p].status = "NONE" <=> rows[p].status = "NONE"
           /\ next[p].status = "SUPERSEDED" <=> rows[p].status = "SUPERSEDED"
  PROVE  ChainOf(next) /\ In(next) = In(rows) /\ Size(next) = Size(rows)
<1>1. In(next) = In(rows)
  BY DEF In
<1>2. Size(next) = Size(rows)
  BY <1>1 DEF Size
<1>3. \A p \in In(rows) : p \in Quotes
  BY DEF In
<1>4. Numbered(next, Size(rows))
  BY <1>1, <1>3 DEF ChainOf, Numbered
<1> QED BY <1>1, <1>2, <1>4 DEF ChainOf

LEMMA AmendKept ==
  ASSUME NEW rows, NEW next, ChainOf(rows), NEW q \in Quotes, NEW new \in Quotes,
         AmendsRow(rows, next, q, new)
  PROVE  /\ ChainOf(next) /\ Size(next) = Size(rows) + 1
         /\ Top(rows) = rows[q].status /\ Top(next) = "DRAFT"
<1>1. /\ rows[q].status \notin {"NONE", "SUPERSEDED"}
      /\ q \in In(rows) /\ new \notin In(rows) /\ q # new
  BY AmendableStatuses DEF AmendsRow, In, SM!UwStatuses
<1>2. In(next) = In(rows) \cup {new}
  BY <1>1 DEF AmendsRow, In
<1>3. Size(next) = Size(rows) + 1 /\ Size(rows) \in Nat
  BY <1>1, <1>2, SizeType, FS_AddElement DEF Size
<1> DEFINE n == Size(rows)
<1>4. rows[q].version = n
  BY <1>1 DEF ChainOf, Numbered
<1>5. next[new].version = n + 1 /\ next[new].status = "DRAFT"
  BY <1>4 DEF AmendsRow
<1>6. \A p \in In(rows) : p \in Quotes \ {new} /\ next[p].version = rows[p].version
  BY <1>1 DEF AmendsRow, In
<1>7. \A p \in In(rows) : next[p].status = "SUPERSEDED"
  <2>1. \A p \in In(rows) \ {q} : rows[p].status = "SUPERSEDED"
    BY <1>1, <1>4 DEF ChainOf, Numbered
  <2> QED BY <1>6, <2>1 DEF AmendsRow
<1>8. \A p \in In(rows) : rows[p].version \in 1..n
  BY DEF ChainOf, Numbered
<1> HIDE DEF n
<1>9. n \in Nat /\ Size(next) = n + 1
  BY <1>3 DEF n
<1>10. \A p \in In(next) :
         /\ next[p].version \in 1..(n + 1)
         /\ next[p].status # "SUPERSEDED" <=> next[p].version = n + 1
  BY <1>2, <1>5, <1>6, <1>7, <1>8, <1>9
<1>11. \A i \in 1..(n + 1) : \E p \in In(next) : next[p].version = i
  <2>1. \A i \in 1..n : \E p \in In(rows) : rows[p].version = i
    BY DEF ChainOf, Numbered, n
  <2>2. \A i \in 1..(n + 1) : i \in 1..n \/ i = n + 1
    BY <1>9
  <2> QED BY <1>2, <1>5, <1>6, <2>1, <2>2
<1>12. \A p, s \in In(next) : next[p].version = next[s].version => p = s
  <2>1. \A p, s \in In(rows) : rows[p].version = rows[s].version => p = s
    BY DEF ChainOf, Numbered
  <2>2. \A p \in In(rows) : next[p].version # n + 1
    BY <1>6, <1>8, <1>9
  <2> QED BY <1>2, <1>5, <1>6, <2>1, <2>2
<1>13. ChainOf(next)
  BY <1>2, <1>9, <1>10, <1>11, <1>12 DEF ChainOf, Numbered
<1>14. Top(next) = "DRAFT"
  BY <1>2, <1>5, <1>13, OpenEnd
<1>15. Top(rows) = rows[q].status
  BY <1>1, OpenEnd
<1> QED BY <1>3, <1>13, <1>14, <1>15

\* The chain stays a chain, and its ends are those of QuoteFamily.
LEMMA ChainKept ==
  ASSUME NEW rows, NEW next, ChainOf(rows), RowsMove(rows, next)
  PROVE  ChainOf(next) /\ FamilyMove(rows, next)
<1>1. CASE SameRows(rows, next)
  <2>1. ChainOf(next) /\ In(next) = In(rows) /\ Size(next) = Size(rows)
    BY <1>1, SameKept DEF SameRows
  <2>2. PICK q \in In(rows) : rows[q].status # "SUPERSEDED"
    BY HasEnd
  <2>3. next[q].status = rows[q].status
    BY <1>1, <2>2 DEF SameRows, In
  <2>4. Top(next) = Top(rows)
    BY <2>1, <2>2, <2>3, OpenEnd
  <2> QED BY <2>1, <2>4 DEF FamilyMove
<1>2. ASSUME NEW q \in Quotes, MovesRow(rows, next, q)
      PROVE  ChainOf(next) /\ FamilyMove(rows, next)
  <2>1. /\ rows[q].status \notin {"NONE", "SUPERSEDED"}
        /\ next[q].status \notin {"NONE", "SUPERSEDED"}
    BY <1>2, Statuses DEF MovesRow
  <2>2. \A p \in Quotes :
          /\ next[p].status = "NONE" <=> rows[p].status = "NONE"
          /\ next[p].status = "SUPERSEDED" <=> rows[p].status = "SUPERSEDED"
    BY <1>2, <2>1 DEF MovesRow
  <2>3. ChainOf(next) /\ In(next) = In(rows) /\ Size(next) = Size(rows)
    BY <1>2, <2>2, SameKept DEF MovesRow
  <2>4. Top(rows) = rows[q].status /\ Top(next) = next[q].status
    BY <2>1, <2>3, OpenEnd DEF In
  <2> QED BY <1>2, <2>3, <2>4 DEF MovesRow, FamilyMove
<1>3. ASSUME NEW q \in Quotes, NEW new \in Quotes, AmendsRow(rows, next, q, new)
      PROVE  ChainOf(next) /\ FamilyMove(rows, next)
  BY <1>3, AmendKept DEF AmendsRow, FamilyMove
<1> QED BY <1>1, <1>2, <1>3 DEF RowsMove


-----------------------------------------------------------------------------
(* One request at a time *)

\* The server has at most one request in flight.
OneAtATime == \A r, s \in Requests : r = s

ApproveLabels == {"approve_check", "approve_assert", "approve_write"}

\* What the request has read is what the rows still say.
UpToDate(now, row, latest) ==
  /\ now.pc = "submit_write" => SM!IsLegal(row.status, "AWAITING_APPROVAL")
  /\ now.pc = "decline_write" => SM!IsLegal(row.status, "DECLINED")
  /\ now.pc \in ApproveLabels => now.action = "APPROVE"
  /\ now.pc = "approve_write" => SM!IsLegal(row.status, "AWAITING_SIGNED_LINE")
  /\ now.pc \in {"approve_assert", "approve_write"} /\ EventReadsFail = FALSE =>
       now.actor # latest
  /\ now.pc \in {"terminal_auth", "terminal_write"} =>
       now.action \in TerminalActions /\ row.status \in PriorStates(now.action)
  /\ now.pc = "mirror" =>
       \/ now.action = "APPROVE" /\ row.status = "AWAITING_SIGNED_LINE"
       \/ now.action \in TerminalActions /\ row.status = Target(now.action)
  /\ now.pc = "amend_write" => row.status \in Amendable

\* The offer tells the story of its row, and a version yet to come has none.
Follows(row, mirror) ==
  /\ row.status = "NONE" => mirror.status = "ABSENT"
  /\ row.status = "AWAITING_APPROVAL" => mirror.status = "AWAITING_APPROVAL"
  /\ row.status = "DECLINED" => mirror.status \in {"ABSENT", "DECLINED"}
  /\ mirror.status \in {"NTU", "DECLINED"} => row.status = mirror.status
  /\ mirror.status \in {"RETURNED", "RECALLED"} =>
       row.status \in {"DRAFT", "SUPERSEDED"}

Serial ==
  /\ ChainOf(quote)
  /\ \A q \in Quotes : Follows(quote[q], offer[q])
  /\ \A r \in Requests :
       UpToDate(req[r], quote[req[r].quote], submitter[req[r].quote])

Serves == Serial' /\ FamilyMove(quote, quote')

LEMMA WriteServes ==
  ASSUME OneAtATime, Serial, NEW r \in Requests, NEW now, req'[r] = now,
         RowsMove(quote, quote'), \A q \in Quotes : Follows(quote'[q], offer'[q]),
         UpToDate(now, quote'[now.quote], submitter'[now.quote])
  PROVE  Serves
<1>1. \A k \in Requests : req'[k] = now
  BY DEF OneAtATime
<1>2. ChainOf(quote') /\ FamilyMove(quote, quote')
  BY ChainKept DEF Serial
<1>3. \A k \in Requests :
        UpToDate(req'[k], quote'[req'[k].quote], submitter'[req'[k].quote])
  BY <1>1
<1> QED BY <1>2, <1>3 DEF Serves, Serial

LEMMA ReadServes ==
  ASSUME OneAtATime, IInv, Serial, NEW r \in Requests, NEW now, Goto(r, now),
         UNCHANGED <<quote, offer, submitter>>,
         UpToDate(now, quote[now.quote], submitter[now.quote])
  PROVE  Serves
<1>1. req'[r] = now
  BY OwnRequest
<1>2. RowsMove(quote, quote')
  BY DEF RowsMove, SameRows
<1>3. \A q \in Quotes : Follows(quote'[q], offer'[q])
  BY DEF Serial
<1> QED BY <1>1, <1>2, <1>3, WriteServes

LEMMA IdleKnows ==
  ASSUME NEW row, NEW latest
  PROVE  UpToDate(Idle, row, latest)
BY DEF UpToDate, Idle, ApproveLabels

\* A label under which a request relies on nothing.
Unburdened == {"submit_lock", "decline_lock", "amended", "bind_lock",
               "bind_write", "assign_read", "assign_write"}

LEMMA LightKnows ==
  ASSUME NEW now, now.pc \in Unburdened, NEW row, NEW latest
  PROVE  UpToDate(now, row, latest)
BY DEF UpToDate, Unburdened, ApproveLabels

LEMMA SubmittingServes ==
  ASSUME OneAtATime, IInv, Serial, NEW r \in Requests,
         Submitting(r) \/ Declining(r)
  PROVE  Serves
<1>q. PICK q : q = req[r].quote
  OBVIOUS
<1>0. /\ q \in Quotes /\ req[r] \in Request /\ quote[q] \in QuoteRow
      /\ quote \in [Quotes -> QuoteRow] /\ offer \in [Quotes -> OfferRow]
      /\ req \in [Requests -> Request]
      /\ UpToDate(req[r], quote[q], submitter[q])
      /\ \A p \in Quotes : Follows(quote[p], offer[p])
  BY <1>q DEF IInv, TypeOK, Request, Serial
<1>1. ASSUME NEW p \in Targets, NEW u \in Users, NEW nominee \in UserOrNull,
             PlanSubmission(r, p, u, nominee)
      PROVE  Serves
  <2>1. PICK now : now = [Idle EXCEPT !.pc = "submit_lock", !.quote = p,
                                      !.actor = u, !.other = nominee]
    OBVIOUS
  <2>2. now.pc \in Unburdened
    BY <2>1 DEF Idle, Unburdened
  <2>3. Goto(r, now) /\ UNCHANGED <<quote, offer, submitter>>
    BY <1>1, <2>1 DEF PlanSubmission
  <2> QED BY <2>2, <2>3, LightKnows, ReadServes
<1>2. CASE LockForSubmission(r)
  <2>1. PICK now : now = [req[r] EXCEPT !.pc = "submit_write"]
    OBVIOUS
  <2>2. now.pc = "submit_write" /\ now.quote = q
    BY <1>q, <1>0, <2>1 DEF Request
  <2>3. /\ Goto(r, now) /\ UNCHANGED <<quote, offer, submitter>>
        /\ SM!IsLegal(quote[q].status, "AWAITING_APPROVAL")
    BY <1>q, <1>2, <2>1 DEF LockForSubmission
  <2>4. UpToDate(now, quote[now.quote], submitter[now.quote])
    BY <2>2, <2>3 DEF UpToDate, ApproveLabels
  <2> QED BY <2>3, <2>4, ReadServes
<1>3. CASE CommitSubmission(r)
  <2>1. SM!IsLegal(quote[q].status, "AWAITING_APPROVAL")
    BY <1>q, <1>0, <1>3 DEF CommitSubmission, At, UpToDate
  <2>2. /\ quote'[q].status = "AWAITING_APPROVAL"
        /\ quote'[q].version = quote[q].version
        /\ \A p \in Quotes \ {q} : quote'[p] = quote[p]
    BY <1>q, <1>0, <1>3 DEF CommitSubmission, QuoteRow
  <2>3. /\ offer'[q].status = "AWAITING_APPROVAL"
        /\ \A p \in Quotes \ {q} : offer'[p] = offer[p]
    BY <1>q, <1>0, <1>3 DEF CommitSubmission
  <2>4. MovesRow(quote, quote', q)
    BY <2>1, <2>2 DEF MovesRow
  <2>5. \A p \in Quotes : Follows(quote'[p], offer'[p])
    BY <1>0, <2>2, <2>3 DEF Follows
  <2>6. req'[r] = Idle
    BY <1>3 DEF CommitSubmission
  <2> QED BY <1>0, <2>4, <2>5, <2>6, IdleKnows, WriteServes DEF RowsMove
<1>4. ASSUME NEW p \in Targets, NEW u \in Users, AuthorizeDecline(r, p, u)
      PROVE  Serves
  <2>1. PICK now : now = [Idle EXCEPT !.pc = "decline_lock", !.quote = p,
                                      !.actor = u]
    OBVIOUS
  <2>2. now.pc \in Unburdened
    BY <2>1 DEF Idle, Unburdened
  <2>3. Goto(r, now) /\ UNCHANGED <<quote, offer, submitter>>
    BY <1>4, <2>1 DEF AuthorizeDecline
  <2> QED BY <2>2, <2>3, LightKnows, ReadServes
<1>5. CASE LockForDecline(r)
  <2>1. PICK now : now = [req[r] EXCEPT !.pc = "decline_write"]
    OBVIOUS
  <2>2. now.pc = "decline_write" /\ now.quote = q
    BY <1>q, <1>0, <2>1 DEF Request
  <2>3. /\ Goto(r, now) /\ UNCHANGED <<quote, offer, submitter>>
        /\ SM!IsLegal(quote[q].status, "DECLINED")
    BY <1>q, <1>5, <2>1 DEF LockForDecline
  <2>4. UpToDate(now, quote[now.quote], submitter[now.quote])
    BY <2>2, <2>3 DEF UpToDate, ApproveLabels
  <2> QED BY <2>3, <2>4, ReadServes
<1>6. CASE CommitDecline(r)
  <2>1. SM!IsLegal(quote[q].status, "DECLINED")
    BY <1>q, <1>0, <1>6 DEF CommitDecline, At, UpToDate
  <2>2. /\ quote'[q].status = "DECLINED"
        /\ quote'[q].version = quote[q].version
        /\ \A p \in Quotes \ {q} : quote'[p] = quote[p]
    BY <1>q, <1>0, <1>6 DEF CommitDecline, SetStatus, QuoteRow
  <2>3. /\ offer'[q].status \in {"ABSENT", "DECLINED"}
        /\ \A p \in Quotes \ {q} : offer'[p] = offer[p]
    BY <1>q, <1>0, <1>6 DEF CommitDecline, OfferRow
  <2>4. MovesRow(quote, quote', q)
    BY <2>1, <2>2 DEF MovesRow
  <2>5. \A p \in Quotes : Follows(quote'[p], offer'[p])
    BY <1>0, <2>2, <2>3 DEF Follows
  <2>6. req'[r] = Idle
    BY <1>6, OwnRequest DEF CommitDecline, Finish
  <2> QED BY <1>0, <2>4, <2>5, <2>6, IdleKnows, WriteServes DEF RowsMove
<1> QED BY <1>1, <1>2, <1>3, <1>4, <1>5, <1>6 DEF Submitting, Declining


LEMMA ApprovingServes ==
  ASSUME OneAtATime, IInv, Serial, NEW r \in Requests, Approving(r)
  PROVE  Serves
<1>q. PICK q : q = req[r].quote
  OBVIOUS
<1>0. /\ q \in Quotes /\ req[r] \in Request /\ quote[q] \in QuoteRow
      /\ quote \in [Quotes -> QuoteRow]
      /\ UpToDate(req[r], quote[q], submitter[q])
      /\ \A p \in Quotes : Follows(quote[p], offer[p])
  BY <1>q DEF IInv, TypeOK, Request, Serial
<1>1. ASSUME NEW p \in Targets, NEW u \in Users, ReadForApproval(r, p, u)
      PROVE  Serves
  <2>1. PICK now : now = [Idle EXCEPT !.pc = "approve_check", !.quote = p, !.actor = u,
                            !.action = "APPROVE", !.named = offer[p].nominee = u]
    OBVIOUS
  <2>2. now.pc = "approve_check" /\ now.action = "APPROVE"
    BY <2>1 DEF Idle
  <2>3. Goto(r, now) /\ UNCHANGED <<quote, offer, submitter>>
    BY <1>1, <2>1, Zenon DEF ReadForApproval
  <2>4. UpToDate(now, quote[now.quote], submitter[now.quote])
    BY <2>2 DEF UpToDate, ApproveLabels
  <2> QED BY <2>3, <2>4, ReadServes
<1>2. CASE CheckApprover(r)
  <2>1. PICK now : now = [req[r] EXCEPT !.pc = "approve_assert", !.named = FALSE]
    OBVIOUS
  <2>2. /\ now.pc = "approve_assert" /\ now.quote = q
        /\ now.action = req[r].action /\ now.actor = req[r].actor
    BY <1>q, <1>0, <2>1 DEF Request
  <2>3. /\ Goto(r, now) /\ UNCHANGED <<quote, offer, submitter>>
        /\ req[r].pc = "approve_check" /\ SubmitEvent(q) # {req[r].actor}
    BY <1>q, <1>2, <2>1 DEF CheckApprover, MayApprove, At
  <2>4. EventReadsFail = FALSE => req[r].actor # submitter[q]
    BY <2>3 DEF SubmitEvent
  <2>5. UpToDate(now, quote[now.quote], submitter[now.quote])
    BY <1>0, <2>2, <2>3, <2>4 DEF UpToDate, ApproveLabels
  <2> QED BY <2>3, <2>5, ReadServes
<1>3. CASE AssertApproval(r)
  <2>1. PICK now : now = [req[r] EXCEPT !.pc = "approve_write"]
    OBVIOUS
  <2>2. /\ now.pc = "approve_write" /\ now.quote = q
        /\ now.action = req[r].action /\ now.actor = req[r].actor
    BY <1>q, <1>0, <2>1 DEF Request
  <2>3. /\ Goto(r, now) /\ UNCHANGED <<quote, offer, submitter>>
        /\ req[r].pc = "approve_assert"
        /\ SM!IsLegal(quote[q].status, "AWAITING_SIGNED_LINE")
    BY <1>q, <1>3, <2>1 DEF AssertApproval, Approvable, At
  <2>4. UpToDate(now, quote[now.quote], submitter[now.quote])
    BY <1>0, <2>2, <2>3 DEF UpToDate, ApproveLabels
  <2> QED BY <2>3, <2>4, ReadServes
<1>4. CASE CommitApproval(r)
  <2>1. PICK now : now = [req[r] EXCEPT !.pc = "mirror", !.actor = NoUser]
    OBVIOUS
  <2>2. now.pc = "mirror" /\ now.quote = q /\ now.action = req[r].action
    BY <1>q, <1>0, <2>1 DEF Request
  <2>3. /\ Goto(r, now) /\ UNCHANGED <<offer, submitter>>
        /\ req[r].pc = "approve_write" /\ SetStatus(q, "AWAITING_SIGNED_LINE")
    BY <1>q, <1>4, <2>1 DEF CommitApproval, At
  <2>4. /\ SM!IsLegal(quote[q].status, "AWAITING_SIGNED_LINE")
        /\ req[r].action = "APPROVE"
    BY <1>0, <2>3 DEF UpToDate, ApproveLabels
  <2>5. /\ quote'[q].status = "AWAITING_SIGNED_LINE"
        /\ quote'[q].version = quote[q].version
        /\ \A p \in Quotes \ {q} : quote'[p] = quote[p]
    BY <1>0, <2>3 DEF SetStatus, QuoteRow
  <2>6. MovesRow(quote, quote', q)
    BY <2>4, <2>5 DEF MovesRow
  <2>7. quote[q].status \in {"AWAITING_APPROVAL", "APPROVED", "AWAITING_SIGNED_LINE"}
    BY <2>4 DEF SM!IsLegal, SM!LegalEdges, SM!UwStatuses
  <2>8. \A p \in Quotes : Follows(quote'[p], offer'[p])
    BY <1>0, <2>3, <2>5, <2>7 DEF Follows
  <2>9. UpToDate(now, quote'[now.quote], submitter'[now.quote])
    BY <2>2, <2>4, <2>5 DEF UpToDate, ApproveLabels
  <2> QED BY <1>0, <2>3, <2>6, <2>8, <2>9, OwnRequest, WriteServes DEF RowsMove
<1> QED BY <1>1, <1>2, <1>3, <1>4 DEF Approving

LEMMA TerminatingServes ==
  ASSUME OneAtATime, IInv, Serial, NEW r \in Requests, Terminating(r)
  PROVE  Serves
<1>q. PICK q : q = req[r].quote
  OBVIOUS
<1>0. /\ q \in Quotes /\ req[r] \in Request /\ quote[q] \in QuoteRow
      /\ quote \in [Quotes -> QuoteRow] /\ offer \in [Quotes -> OfferRow]
      /\ UpToDate(req[r], quote[q], submitter[q])
      /\ \A p \in Quotes : Follows(quote[p], offer[p])
  BY <1>q DEF IInv, TypeOK, Request, Serial
<1>1. ASSUME NEW p \in Targets, NEW u \in Users, NEW action \in TerminalActions,
             AssertTransition(r, p, u, action)
      PROVE  Serves
  <2>1. PICK now : now = [Idle EXCEPT !.pc = "terminal_auth", !.quote = p, !.actor = u,
                                      !.action = action]
    OBVIOUS
  <2>2. now.pc = "terminal_auth" /\ now.quote = p /\ now.action = action
    BY <2>1 DEF Idle
  <2>3. /\ Goto(r, now) /\ UNCHANGED <<quote, offer, submitter>>
        /\ quote[p].status \in PriorStates(action)
    BY <1>1, <2>1 DEF AssertTransition
  <2>4. UpToDate(now, quote[now.quote], submitter[now.quote])
    BY <2>2, <2>3 DEF UpToDate, ApproveLabels
  <2> QED BY <2>3, <2>4, ReadServes
<1>2. CASE AuthorizeTerminal(r)
  <2>1. PICK now : now = [req[r] EXCEPT !.pc = "terminal_write", !.actor = NoUser]
    OBVIOUS
  <2>2. now.pc = "terminal_write" /\ now.quote = q /\ now.action = req[r].action
    BY <1>q, <1>0, <2>1 DEF Request
  <2>3. /\ Goto(r, now) /\ UNCHANGED <<quote, offer, submitter>>
        /\ req[r].pc = "terminal_auth"
    BY <1>2, <2>1 DEF AuthorizeTerminal, At
  <2>4. UpToDate(now, quote[now.quote], submitter[now.quote])
    BY <1>0, <2>2, <2>3 DEF UpToDate, ApproveLabels
  <2> QED BY <2>3, <2>4, ReadServes
<1>3. CASE CommitTerminal(r)
  <2>1. PICK now : now = [req[r] EXCEPT !.pc = "mirror"]
    OBVIOUS
  <2>2. PICK to : to = Target(req[r].action)
    OBVIOUS
  <2>3. now.pc = "mirror" /\ now.quote = q /\ now.action = req[r].action
    BY <1>q, <1>0, <2>1 DEF Request
  <2>4. /\ Goto(r, now) /\ UNCHANGED <<offer, submitter>>
        /\ req[r].pc = "terminal_write" /\ SetStatus(q, to)
    BY <1>q, <1>3, <2>1, <2>2 DEF CommitTerminal, At
  <2>5. /\ req[r].action \in TerminalActions
        /\ quote[q].status \in PriorStates(req[r].action)
    BY <1>0, <2>4 DEF UpToDate
  <2>6. /\ SM!IsLegal(quote[q].status, to) /\ to \in {"NTU", "DRAFT"}
        /\ quote[q].status \in {"AWAITING_APPROVAL", "AWAITING_SIGNED_LINE"}
    BY <2>2, <2>5
       DEF TerminalActions, PriorStates, Target, SM!IsLegal, SM!LegalEdges,
           SM!UwStatuses
  <2>7. /\ quote'[q].status = to /\ quote'[q].version = quote[q].version
        /\ \A p \in Quotes \ {q} : quote'[p] = quote[p]
    BY <1>0, <2>4 DEF SetStatus, QuoteRow
  <2>8. MovesRow(quote, quote', q)
    BY <2>6, <2>7 DEF MovesRow
  <2>9. \A p \in Quotes : Follows(quote'[p], offer'[p])
    BY <1>0, <2>4, <2>6, <2>7 DEF Follows
  <2>10. UpToDate(now, quote'[now.quote], submitter'[now.quote])
    BY <2>2, <2>3, <2>5, <2>7 DEF UpToDate, ApproveLabels
  <2> QED BY <1>0, <2>4, <2>8, <2>9, <2>10, OwnRequest, WriteServes DEF RowsMove
<1>4. CASE MirrorOffer(r)
  <2>1. PICK to : to = OfferMirror(req[r].action)
    OBVIOUS
  <2>2. /\ \/ req[r].action = "APPROVE" /\ quote[q].status = "AWAITING_SIGNED_LINE"
           \/ /\ req[r].action \in TerminalActions
              /\ quote[q].status = Target(req[r].action)
    BY <1>0, <1>4 DEF MirrorOffer, At, UpToDate
  <2>3. \/ to = "AWAITING_SIGNED_LINE" /\ quote[q].status = to
        \/ to = "NTU" /\ quote[q].status = to
        \/ to \in {"RETURNED", "RECALLED"} /\ quote[q].status = "DRAFT"
    BY <2>1, <2>2 DEF OfferMirror, Target, TerminalActions
  <2>4. /\ offer'[q].status = to /\ UNCHANGED <<quote, submitter>>
        /\ \A p \in Quotes \ {q} : offer'[p] = offer[p]
    BY <1>q, <1>0, <1>4, <2>1 DEF MirrorOffer, OfferRow
  <2>5. \A p \in Quotes : Follows(quote'[p], offer'[p])
    BY <1>0, <2>3, <2>4 DEF Follows
  <2>6. RowsMove(quote, quote')
    BY <2>4 DEF RowsMove, SameRows
  <2>7. req'[r] = Idle
    BY <1>4, OwnRequest DEF MirrorOffer, Finish
  <2> QED BY <2>5, <2>6, <2>7, IdleKnows, WriteServes
<1> QED BY <1>1, <1>2, <1>3, <1>4 DEF Terminating


LEMMA AmendingServes ==
  ASSUME OneAtATime, IInv, Serial, NEW r \in Requests, Amending(r)
  PROVE  Serves
<1>q. PICK q : q = req[r].quote
  OBVIOUS
<1>0. /\ q \in Quotes /\ req[r] \in Request /\ quote[q] \in QuoteRow
      /\ quote \in [Quotes -> QuoteRow]
      /\ UpToDate(req[r], quote[q], submitter[q])
      /\ \A p \in Quotes : Follows(quote[p], offer[p])
  BY <1>q DEF IInv, TypeOK, Request, Serial
<1>1. ASSUME NEW p \in Targets, NEW u \in Users, ReadForAmendment(r, p, u)
      PROVE  Serves
  <2>1. PICK now : now = [Idle EXCEPT !.pc = "amend_write", !.quote = p, !.actor = u]
    OBVIOUS
  <2>2. now.pc = "amend_write" /\ now.quote = p
    BY <2>1 DEF Idle
  <2>3. /\ Goto(r, now) /\ UNCHANGED <<quote, offer, submitter>>
        /\ quote[p].status \in Amendable
    BY <1>1, <2>1 DEF ReadForAmendment
  <2>4. UpToDate(now, quote[now.quote], submitter[now.quote])
    BY <2>2, <2>3 DEF UpToDate, ApproveLabels
  <2> QED BY <2>3, <2>4, ReadServes
<1>2. PICK amended : amended = [Idle EXCEPT !.pc = "amended"]
  OBVIOUS
<1>3. amended.pc \in Unburdened
  BY <1>2 DEF Idle, Unburdened
<1>4. CASE CommitAmendment(r)
  <2>1. PICK new, row :
          /\ new \in Quotes \ Existing
          /\ row = NewVersion(req[r].actor, quote[q].version + 1)
          /\ quote' = [quote EXCEPT ![q].status = "SUPERSEDED", ![new] = row]
    BY <1>q, <1>4 DEF CommitAmendment
  <2>2. /\ quote[q].status \in Amendable /\ quote[new].status = "NONE"
        /\ quote[q].status \notin {"NONE", "NTU", "DECLINED"} /\ q # new
    <3>1. quote[q].status \in Amendable
      BY <1>0, <1>4 DEF CommitAmendment, At, UpToDate
    <3> QED BY <2>1, <3>1, AmendableStatuses DEF Existing, SM!UwStatuses
  <2>3. row.status = "DRAFT" /\ row.version = quote[q].version + 1
    BY <2>1 DEF NewVersion, NoRow
  <2>4. /\ quote'[new] = row /\ quote'[q].status = "SUPERSEDED"
        /\ quote'[q].version = quote[q].version
        /\ \A p \in Quotes \ {q, new} : quote'[p] = quote[p]
    BY <1>0, <2>1, <2>2 DEF QuoteRow
  <2>5. AmendsRow(quote, quote', q, new)
    BY <2>2, <2>3, <2>4 DEF AmendsRow
  <2>6. Goto(r, amended) /\ UNCHANGED <<offer, submitter>>
    BY <1>2, <1>4 DEF CommitAmendment
  <2>7. \A p \in Quotes : Follows(quote'[p], offer'[p])
    <3>1. Follows(quote'[new], offer'[new])
      BY <1>0, <2>1, <2>2, <2>3, <2>4, <2>6 DEF Follows
    <3>2. Follows(quote'[q], offer'[q])
      BY <1>0, <2>2, <2>4, <2>6 DEF Follows
    <3> QED BY <1>0, <2>4, <2>6, <3>1, <3>2
  <2>8. RowsMove(quote, quote')
    BY <1>0, <2>1, <2>5 DEF RowsMove
  <2> QED BY <1>3, <2>6, <2>7, <2>8, LightKnows, OwnRequest, WriteServes
<1>5. CASE AbortedAmendment(r)
  BY <1>2, <1>3, <1>5, LightKnows, ReadServes DEF AbortedAmendment
<1>6. CASE AnswerAmendment(r)
  BY <1>6, IdleKnows, ReadServes DEF AnswerAmendment, Finish
<1> QED BY <1>1, <1>4, <1>5, <1>6 DEF Amending

\* A write that changes no status and no number of a version.
LEMMA SideWrite ==
  ASSUME OneAtATime, IInv, Serial, NEW r \in Requests, Finish(r),
         UNCHANGED offer, SameRows(quote, quote')
  PROVE  Serves
<1>1. \A p \in Quotes : Follows(quote'[p], offer'[p])
  BY DEF Serial, SameRows, Follows
<1>2. req'[r] = Idle
  BY OwnRequest DEF Finish
<1> QED BY <1>1, <1>2, IdleKnows, WriteServes DEF RowsMove

LEMMA BindingServes ==
  ASSUME OneAtATime, IInv, Serial, NEW r \in Requests,
         Binding(r) \/ HandingOver(r) \/ Fail(r)
  PROVE  Serves
<1>0. /\ req[r] \in Request /\ req[r].quote \in Quotes
      /\ quote \in [Quotes -> QuoteRow]
  BY DEF IInv, TypeOK, Request
<1>1. ASSUME NEW now, Goto(r, now), now.pc \in Unburdened,
             UNCHANGED <<quote, offer, submitter>>
      PROVE  Serves
  BY <1>1, LightKnows, ReadServes
<1>2. ASSUME NEW p \in Targets, NEW u \in Users, AuthorizeBind(r, p, u)
      PROVE  Serves
  <2>1. PICK now : now = [Idle EXCEPT !.pc = "bind_lock", !.quote = p, !.actor = u]
    OBVIOUS
  <2>2. now.pc \in Unburdened
    BY <2>1 DEF Idle, Unburdened
  <2> QED BY <1>1, <1>2, <2>1, <2>2 DEF AuthorizeBind
<1>3. CASE LockForBind(r)
  <2>1. PICK now : now = [req[r] EXCEPT !.pc = "bind_write"]
    OBVIOUS
  <2>2. now.pc \in Unburdened
    BY <1>0, <2>1 DEF Request, Unburdened
  <2> QED BY <1>1, <1>3, <2>1, <2>2 DEF LockForBind
<1>4. CASE CommitBind(r)
  <2>1. SameRows(quote, quote')
    BY <1>0, <1>4 DEF CommitBind, SameRows, QuoteRow
  <2> QED BY <1>4, <2>1, SideWrite DEF CommitBind
<1>5. ASSUME NEW p \in Targets, NEW u \in Users, NEW to \in Users,
             GuardHandOver(r, p, u, to)
      PROVE  Serves
  <2>1. PICK now : now = [Idle EXCEPT !.pc = "assign_read", !.quote = p, !.actor = u,
                                      !.other = to]
    OBVIOUS
  <2>2. now.pc \in Unburdened
    BY <2>1 DEF Idle, Unburdened
  <2> QED BY <1>1, <1>5, <2>1, <2>2 DEF GuardHandOver
<1>6. CASE ReadForHandOver(r)
  <2>1. PICK now : now = [req[r] EXCEPT !.pc = "assign_write", !.actor = NoUser]
    OBVIOUS
  <2>2. now.pc \in Unburdened
    BY <1>0, <2>1 DEF Request, Unburdened
  <2> QED BY <1>1, <1>6, <2>1, <2>2 DEF ReadForHandOver
<1>7. CASE CommitHandOver(r)
  <2>1. SameRows(quote, quote')
    BY <1>0, <1>7 DEF CommitHandOver, SameRows, QuoteRow
  <2> QED BY <1>7, <2>1, SideWrite DEF CommitHandOver
<1>8. CASE Fail(r)
  BY <1>8, IdleKnows, ReadServes DEF Fail, Finish
<1> QED BY <1>2, <1>3, <1>4, <1>5, <1>6, <1>7, <1>8 DEF Binding, HandingOver

LEMMA FirstVersion ==
  ASSUME Init
  PROVE  /\ ChainOf(quote) /\ Size(quote) = 1
         /\ Top(quote) \in {"DRAFT", "SIGNED"}
<1>1. PICK status \in InitialStatuses, u \in Creators, uw \in {"DRAFT", "SIGNED"} :
        quote = [q \in Quotes |->
          IF q = Root THEN [NewVersion(u, 1) EXCEPT !.status = status, !.uw = uw]
          ELSE NoRow]
  BY DEF Init
<1>2. Root \in Quotes /\ status \in {"DRAFT", "SIGNED"}
  BY QuoteRowsAssumption, QuoteInitialAssumption
<1>3. quote[Root].status = status /\ quote[Root].version = 1
  BY <1>1, <1>2 DEF NewVersion, NoRow
<1>4. \A q \in Quotes \ {Root} : quote[q].status = "NONE"
  BY <1>1 DEF NoRow
<1>5. In(quote) = {Root}
  BY <1>2, <1>3, <1>4 DEF In
<1>6. Size(quote) = 1
  BY <1>5, FS_Singleton DEF Size
<1>7. Numbered(quote, 1)
  BY <1>2, <1>3, <1>5 DEF Numbered
<1>8. ChainOf(quote)
  BY <1>5, <1>6, <1>7 DEF ChainOf
<1>9. Top(quote) = status
  BY <1>2, <1>3, <1>5, <1>8, OpenEnd
<1> QED BY <1>2, <1>6, <1>8, <1>9

LEMMA InitSerial == Init => Serial
<1> SUFFICES ASSUME Init PROVE Serial
  OBVIOUS
<1>1. \A q \in Quotes : offer[q].status = "ABSENT"
  BY DEF Init, NoOffer
<1>2. \A q \in Quotes : quote[q].status \in {"DRAFT", "SIGNED", "NONE"}
  <2>1. PICK status \in InitialStatuses, u \in Creators, uw \in {"DRAFT", "SIGNED"} :
          quote = [q \in Quotes |->
            IF q = Root THEN [NewVersion(u, 1) EXCEPT !.status = status, !.uw = uw]
            ELSE NoRow]
    BY DEF Init
  <2> QED BY <2>1, QuoteInitialAssumption DEF NewVersion, NoRow
<1>3. \A q \in Quotes : Follows(quote[q], offer[q])
  BY <1>1, <1>2 DEF Follows
<1>4. \A r \in Requests : req[r] = Idle
  BY DEF Init
<1> QED BY <1>3, <1>4, FirstVersion, IdleKnows DEF Serial

LEMMA StepSerial ==
  ASSUME OneAtATime
  PROVE  IInv /\ Serial /\ [Next]_vars => Serves
<1> SUFFICES ASSUME IInv, Serial, [Next]_vars
             PROVE  Serves
  OBVIOUS
<1>1. ASSUME NEW r \in Requests,
             \/ Submitting(r) \/ Declining(r) \/ Approving(r) \/ Terminating(r)
             \/ Amending(r) \/ Binding(r) \/ HandingOver(r) \/ Fail(r)
      PROVE  Serves
  BY <1>1, SubmittingServes, ApprovingServes, TerminatingServes,
     AmendingServes, BindingServes
<1>2. CASE UNCHANGED vars
  <2>1. Serial'
    BY <1>2 DEF vars, Serial
  <2>2. FamilyMove(quote, quote')
    BY <1>2 DEF vars, FamilyMove
  <2> QED BY <2>1, <2>2 DEF Serves
<1> QED BY <1>1, <1>2 DEF Next

LEMMA AlwaysSerial ==
  ASSUME OneAtATime
  PROVE  Spec => []Serial
<1>1. IInv /\ Serial /\ [Next]_vars => Serial'
  BY StepSerial DEF Serves
<1> QED BY <1>1, InitSerial, Always, PTL DEF Spec

\* The rows that QuoteFamily sees.
LEMMA FamilyView ==
  /\ Cardinality(Existing) = Size(quote) /\ LiveStatus = Top(quote)
  /\ Cardinality(Existing)' = Size(quote') /\ LiveStatus' = Top(quote')
BY DEF Existing, Live, LiveStatus, In, Open, Size, Top


\* One live end: without a race the versions of a quote are numbered without a
\* gap, the newest is the live one and no superseded version comes back, for
\* any number of amendments.
THEOREM OneLiveEnd ==
  ASSUME OneAtATime
  PROVE  Spec => []NewestIsLive
<1>1. Serial => NewestIsLive
  <2> SUFFICES ASSUME Serial PROVE NewestIsLive
    OBVIOUS
  <2>1. Numbered(quote, Size(quote)) /\ Existing = In(quote)
          /\ Cardinality(Existing) = Size(quote)
    BY FamilyView DEF Serial, ChainOf, Existing, In
  <2>2. {quote[q].version : q \in Existing} = 1..Size(quote)
    BY <2>1 DEF Numbered
  <2> QED BY <2>1, <2>2 DEF NewestIsLive, Numbered
<1> QED BY <1>1, AlwaysSerial, PTL

\* The offer row is never ahead of its quote: without a race it says of a
\* pending, closed, returned or recalled quote what the quote says.
THEOREM OfferInStep ==
  ASSUME OneAtATime
  PROVE  Spec => []OfferFollows
<1>1. Serial => OfferFollows
  BY DEF Serial, Follows, OfferFollows, Existing
<1> QED BY <1>1, AlwaysSerial, PTL

\* Four eyes on a quote: without a race, and with an event table that answers,
\* no approval comes from the creator of the version or its last submitter.
THEOREM ApproverApart ==
  ASSUME OneAtATime, EventReadsFail = FALSE
  PROVE  Spec => ApproverIndependent
<1>1. IInv /\ Serial /\ [Next]_vars =>
        [\A q \in Quotes, r \in Requests :
           Approves(r, q) =>
             req[r].actor \notin {quote[q].creator, submitter[q]}]_vars
  <2> SUFFICES ASSUME IInv, Serial, NEW q \in Quotes, NEW r \in Requests,
                      Approves(r, q)
               PROVE  req[r].actor \notin {quote[q].creator, submitter[q]}
    OBVIOUS
  <2>1. req[r].pc = "approve_write" /\ req[r].quote = q
    BY DEF Approves, At
  <2>2. req[r].actor # quote[q].creator
    BY <2>1 DEF IInv, Ready
  <2>3. req[r].actor # submitter[q]
    BY <2>1 DEF Serial, UpToDate
  <2> QED BY <2>2, <2>3
<1> QED BY <1>1, Always, AlwaysSerial, PTL DEF Spec, ApproverIndependent

\* The handlers implement the family: without a race every step moves the one
\* live version along the status machine, opens the next version of a live one,
\* or changes nothing that migration 044 speaks of.
THEOREM FamilyImplemented ==
  ASSUME OneAtATime
  PROVE  Spec => FamilyRefinement
<1>1. Init => Family!Init
  BY FirstVersion, FamilyView DEF Family!Init
<1>2. IInv /\ Serial /\ [Next]_vars =>
        [Family!Next]_<<Cardinality(Existing), LiveStatus>>
  <2> SUFFICES ASSUME IInv, Serial, [Next]_vars
               PROVE  [Family!Next]_<<Cardinality(Existing), LiveStatus>>
    OBVIOUS
  <2>1. FamilyMove(quote, quote')
    BY StepSerial DEF Serves
  <2>2. CASE Size(quote') = Size(quote) /\ Top(quote') = Top(quote)
    BY <2>2, FamilyView
  <2>3. CASE /\ Size(quote') = Size(quote)
             /\ SM!IsLegal(Top(quote), Top(quote')) /\ Top(quote') # "SIGNED"
    <3>1. Top(quote') \in SM!UwStatuses \ {"SIGNED"}
      BY <2>3, Statuses
    <3>2. Family!Move
      BY <2>3, <3>1, FamilyView
         DEF Family!Move, Family!SM!IsLegal, Family!SM!UwStatuses,
             Family!SM!LegalEdges, SM!IsLegal, SM!UwStatuses, SM!LegalEdges
    <3> QED BY <3>2 DEF Family!Next
  <2>4. CASE /\ Size(quote') = Size(quote) + 1
             /\ Top(quote) \in Amendable /\ Top(quote') = "DRAFT"
    <3>1. Family!Amend
      BY <2>4, FamilyView DEF Family!Amend, Amendable
    <3> QED BY <3>1 DEF Family!Next
  <2> QED BY <2>1, <2>2, <2>3, <2>4 DEF FamilyMove
<1> QED BY <1>1, <1>2, Always, AlwaysSerial, PTL
        DEF Spec, FamilyRefinement, Family!Spec
================================================================================
