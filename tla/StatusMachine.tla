---------------------------- MODULE StatusMachine ----------------------------
(***************************************************************************)
(* The uw_status lifecycle of a treaty, as server/src/lib/statusMachine.js *)
(* declares it, together with the two transient offer states the approval  *)
(* engine adds to it (services/approvals.js, services/workflow.js).        *)
(* It is the abstract specification ApprovalWorkflow is compared with:     *)
(* one variable, one action per kind of move.                              *)
(***************************************************************************)

VARIABLE status         \* contract.uw_status

\* The seven canonical states the machine knows.
UwStatuses ==
  {"DRAFT", "AWAITING_APPROVAL", "APPROVED", "AWAITING_SIGNED_LINE",
   "SIGNED", "NTU", "DECLINED"}

Terminal == {"SIGNED", "NTU", "DECLINED"}

\* LEGAL_TRANSITIONS without the self edges, which are always allowed.
LegalEdges ==
       ({"DRAFT"} \X {"AWAITING_APPROVAL", "DECLINED"})
  \cup ({"AWAITING_APPROVAL"} \X
          {"APPROVED", "AWAITING_SIGNED_LINE", "DRAFT", "DECLINED"})
  \cup ({"APPROVED"} \X {"AWAITING_SIGNED_LINE", "DECLINED"})
  \cup ({"AWAITING_SIGNED_LINE"} \X {"SIGNED", "NTU", "DRAFT", "DECLINED"})

\* isLegalTransition: an unknown state is never legal.
IsLegal(from, to) ==
  /\ from \in UwStatuses
  /\ to \in UwStatuses
  /\ from = to \/ <<from, to>> \in LegalEdges

\* The guard of changeUwStatus: only a pair of canonical states is checked.
PassesGuard(from, to) ==
  from \in UwStatuses /\ to \in UwStatuses => IsLegal(from, to)

\* The transient state the engine adds, entered by a split decision only and
\* left by the arbiter, by a return or recall, or by a fresh submission.
Dispute == "DISPUTE_PENDING"
DisputeEdges ==
       {<<"AWAITING_APPROVAL", Dispute>>}
  \cup ({Dispute} \X
          {"AWAITING_SIGNED_LINE", "DECLINED", "DRAFT", "AWAITING_APPROVAL"})
-----------------------------------------------------------------------------
Init == status = "DRAFT"

Move(to) == IsLegal(status, to) /\ status' = to

\* The engine never parks a treaty in APPROVED (the legacy state).
Advance == \E to \in UwStatuses \ {"APPROVED"} : Move(to)

DisputeMove == \E edge \in DisputeEdges : status = edge[1] /\ status' = edge[2]

Next == Advance \/ DisputeMove

Spec == Init /\ [][Next]_status
=============================================================================
