---------------------------- MODULE ClaimLedger ----------------------------
(***************************************************************************)
(* One claim on the treaty of FinanceLedger, composed with it.             *)
(*                                                                         *)
(*   server/src/routes/claims.js                                           *)
(*                                                                         *)
(* Bookings and transitions lock the claim row before they look at it, so  *)
(* each is one action, but the signed line they read beside it is the one  *)
(* of the moment the statement began, before it waited for the lock: that  *)
(* read is a step. Attachments are checked on the pool, stored, and then   *)
(* recorded. A refusal, an error or a crash ends a request (Abandon).      *)
(***************************************************************************)
EXTENDS FinanceLedger

CONSTANTS
  Clerks,       \* concurrent requests on the claim
  Amounts,      \* gross amounts at 100%
  Headers,      \* what the claim header says
  Documents,    \* uploads, each under a name of its own
  MaxMovements, \* bound on the ledger
  NoDocument

ASSUME ClaimAssumption ==
  /\ Amounts \subseteq Nat /\ 0 \in Amounts
  /\ MaxMovements \in Nat \ {0}
  /\ NoDocument \notin Documents

VARIABLES
  claim,      \* the claim row
  position,   \* the latest claim_movement; its number counts the movements
  documents,  \* claim_document rows
  files,      \* what the upload storage holds
  job,        \* what each request carries
  filed       \* history: the header and position of the latest submission

claimVars == <<claim, position, documents, files, job, filed>>
vars == <<financeVars, claimVars>>

Statuses  == {"OPEN", "REOPENED", "CLOSED", "DECLINED"}
Approvals == {"DRAFT", "WAITING_APPROVAL", "REJECTED", "FINALISED"}

Claim ==
  [status : Statuses \cup {"NONE"}, approval : Approvals, header : Headers,
   submitter : UserOrNull, reviewer : UserOrNull]
Position ==
  [no : Nat, paid : Amounts, os : Amounts, share : LineOrNull]

Off   == [pc |-> "off", line |-> 0, document |-> NoDocument]
Empty == [no |-> 0, paid |-> 0, os |-> 0, share |-> 0]
Pack  == <<claim.header, position.paid, position.os>>

Exists  == claim.status # "NONE"
IsOpen  == claim.status \in {"OPEN", "REOPENED"}
Frozen  == claim.approval = "WAITING_APPROVAL"

Doing(j, pc) == job[j].pc = pc
Turn(j, pc)  == job' = [job EXCEPT ![j].pc = pc]
Done(j)      == job' = [job EXCEPT ![j] = Off]

\* Mutant: only a rejected claim falls back to draft.
UndraftedRejection(row) ==
  IF row.approval = "REJECTED"
  THEN [row EXCEPT !.approval = "DRAFT", !.reviewer = NoUser] ELSE row

\* A finalised claim that is restated or edited must be reviewed again.
Redrafted(row) ==
  IF row.approval = "FINALISED"
  THEN [row EXCEPT !.approval = "DRAFT", !.reviewer = NoUser] ELSE row

\* The next movement. MaxMovements bounds the ledger.
Move(paid, os, share) ==
  /\ position.no < MaxMovements
  /\ position' = [no |-> position.no + 1, paid |-> paid, os |-> os,
                  share |-> share]

-----------------------------------------------------------------------------
(* The ledger *)

\* POST /claims holds the treaty row: claim and opening movement are one step.
Create(header, paid, os) ==
  /\ ~Exists
  /\ contract.status = "SIGNED"
  /\ claim' = [status |-> "OPEN", approval |-> "DRAFT", header |-> header,
               submitter |-> NoUser, reviewer |-> NoUser]
  /\ Move(paid, os, contract.line)
  /\ UNCHANGED <<financeVars, documents, files, job, filed>>

\* SELECT .. FOR UPDATE OF cl begins: the joined treaty row is read now, the
\* claim row once its lock is granted.
BeginBooking(j) ==
  /\ Doing(j, "off") /\ Exists
  /\ job' = [job EXCEPT ![j] = [@ EXCEPT !.pc = "book", !.line = contract.line]]
  /\ UNCHANGED <<financeVars, claim, position, documents, files, filed>>

\* POST /claims/:id/movements.
Book(j, paid, os) ==
  /\ Doing(j, "book")
  /\ IsOpen /\ ~Frozen
  /\ Move(paid, os, job[j].line)
  /\ claim' = Redrafted(claim)
  /\ Done(j)
  /\ UNCHANGED <<financeVars, documents, files, filed>>

\* POST /claims/:id/close and /decline: the reserve goes to nil, which a
\* finalised claim allows only when it is nil already (F82).
Close(j, to) ==
  /\ Doing(j, "book")
  /\ IsOpen /\ ~Frozen
  /\ claim.approval = "FINALISED" => position.os = 0
  /\ Move(position.paid, 0, job[j].line)
  /\ claim' = [claim EXCEPT !.status = to]
  /\ Done(j)
  /\ UNCHANGED <<financeVars, documents, files, filed>>

\* POST /claims/:id/reopen restates the latest position.
Reopen(j) ==
  /\ Doing(j, "book")
  /\ claim.status \in {"CLOSED", "DECLINED"} /\ ~Frozen
  /\ Move(position.paid, position.os, job[j].line)
  /\ claim' = [claim EXCEPT !.status = "REOPENED"]
  /\ Done(j)
  /\ UNCHANGED <<financeVars, documents, files, filed>>

\* PUT /claims/:id: one conditional UPDATE.
EditClaim(header) ==
  /\ IsOpen /\ ~Frozen
  /\ claim' = [Redrafted(claim) EXCEPT !.header = header]
  /\ UNCHANGED <<financeVars, position, documents, files, job, filed>>

-----------------------------------------------------------------------------
(* The review: transitionApproval, under the lock of the claim row *)

Submit(u) ==
  /\ Exists
  /\ claim.approval \in {"DRAFT", "REJECTED"}
  /\ claim' = [claim EXCEPT !.approval = "WAITING_APPROVAL", !.submitter = u,
                            !.reviewer = NoUser]
  /\ filed' = Pack
  /\ UNCHANGED <<financeVars, position, documents, files, job>>

\* Mutant: the approver tier is all that is asked of a reviewer.
SelfApproved(u) ==
  /\ Frozen
  /\ u \in Approvers
  /\ claim' = [claim EXCEPT !.approval = "FINALISED", !.reviewer = u]
  /\ UNCHANGED <<financeVars, position, documents, files, job, filed>>

Finalise(u) ==
  /\ Frozen
  /\ u \in Approvers \ {claim.submitter}
  /\ claim' = [claim EXCEPT !.approval = "FINALISED", !.reviewer = u]
  /\ UNCHANGED <<financeVars, position, documents, files, job, filed>>

\* Rejecting is open to the submitter too, when it is an approver.
Reject(u) ==
  /\ Frozen
  /\ u \in Approvers
  /\ claim' = [claim EXCEPT !.approval = "REJECTED", !.reviewer = u]
  /\ UNCHANGED <<financeVars, position, documents, files, job, filed>>

-----------------------------------------------------------------------------
(* Attachments *)

\* The freeze is checked on the pool; scan and upload follow.
BeginAttach(j, d) ==
  /\ Doing(j, "off") /\ Exists /\ ~Frozen
  /\ d \notin files /\ \A k \in Clerks : job[k].document # d
  /\ job' = [job EXCEPT ![j] = [@ EXCEPT !.pc = "store", !.document = d]]
  /\ UNCHANGED <<financeVars, claim, position, documents, files, filed>>

StoreFile(j) ==
  /\ Doing(j, "store")
  /\ files' = files \cup {job[j].document}
  /\ Turn(j, "record")
  /\ UNCHANGED <<financeVars, claim, position, documents, filed>>

RecordDocument(j) ==
  /\ Doing(j, "record")
  /\ documents' = documents \cup {job[j].document}
  /\ Done(j)
  /\ UNCHANGED <<financeVars, claim, position, files, filed>>

\* Again the freeze is checked on the pool, before the transaction.
BeginDelete(j, d) ==
  /\ Doing(j, "off") /\ ~Frozen
  /\ d \in documents
  /\ job' = [job EXCEPT ![j] = [@ EXCEPT !.pc = "delete", !.document = d]]
  /\ UNCHANGED <<financeVars, claim, position, documents, files, filed>>

\* Mutant: the stored file is removed before the row is.
DeleteFileFirst(j) ==
  /\ Doing(j, "delete")
  /\ job[j].document \in documents
  /\ files' = files \ {job[j].document}
  /\ Turn(j, "record_gone")
  /\ UNCHANGED <<financeVars, claim, position, documents, filed>>

DeleteRow(j) ==
  /\ Doing(j, "delete")
  /\ job[j].document \in documents
  /\ documents' = documents \ {job[j].document}
  /\ Turn(j, "clean")
  /\ UNCHANGED <<financeVars, claim, position, files, filed>>

\* Best effort after COMMIT: Abandon leaves the file behind.
RemoveFile(j) ==
  /\ Doing(j, "clean")
  /\ files' = files \ {job[j].document}
  /\ Done(j)
  /\ UNCHANGED <<financeVars, claim, position, documents, filed>>

Abandon(j) ==
  /\ ~Doing(j, "off")
  /\ Done(j)
  /\ UNCHANGED <<financeVars, claim, position, documents, files, filed>>

-----------------------------------------------------------------------------
Init ==
  /\ FinanceInit
  /\ \E h \in Headers :
       claim = [status |-> "NONE", approval |-> "DRAFT", header |-> h,
                submitter |-> NoUser, reviewer |-> NoUser]
  /\ position = Empty
  /\ documents = {} /\ files = {}
  /\ job = [j \in Clerks |-> Off]
  /\ filed = Pack

Booking(j) ==
  \/ BeginBooking(j)
  \/ \E paid, os \in Amounts : Book(j, paid, os)
  \/ \E to \in {"CLOSED", "DECLINED"} : Close(j, to)
  \/ Reopen(j)

Attaching(j) ==
  \/ \E d \in Documents : BeginAttach(j, d) \/ BeginDelete(j, d)
  \/ StoreFile(j)
  \/ RecordDocument(j)
  \/ DeleteRow(j)
  \/ RemoveFile(j)

Reviewing(u) == Submit(u) \/ Finalise(u) \/ Reject(u)

ClaimNext ==
  \/ \E h \in Headers, paid, os \in Amounts : Create(h, paid, os)
  \/ \E h \in Headers : EditClaim(h)
  \/ \E u \in Users : Reviewing(u)
  \/ \E j \in Clerks : Booking(j) \/ Attaching(j) \/ Abandon(j)

\* The foreign key of the claim refuses the deletion of its treaty as well.
Next ==
  \/ FinanceNext /\ UNCHANGED claimVars /\ (Exists => contract'.status # "DELETED")
  \/ ClaimNext

Spec == Init /\ [][Next]_vars
-----------------------------------------------------------------------------
(* Properties *)

TypeOK ==
  /\ FinanceTypeOK
  /\ claim \in Claim
  /\ position \in Position
  /\ documents \subseteq Documents /\ files \subseteq Documents
  /\ job \in [Clerks -> [pc : {"off", "book", "store", "record", "delete",
                               "clean"},
                         line : LineOrNull,
                         document : Documents \cup {NoDocument}]]

\* A claim, like a signed treaty, has its treaty on the books of Finance: no
\* order of signing, dropping, editing and deleting the treaty leaves a claim
\* that no Finance entry accounts for.
ClaimsAreFinanced ==
  contract.status = "SIGNED" \/ Exists => entry.status # "NONE"

\* "The reviewer decides on exactly what was submitted" and "the FINALISED
\* stamp never sits over figures the reviewer never saw": while a claim waits,
\* and as long as it is finalised, its header and its position at 100% are the
\* submitted ones, through closing and reopening too.
ReviewedFigures ==
  claim.approval \in {"WAITING_APPROVAL", "FINALISED"} => filed = Pack

\* No reserve is left on a claim that is closed or declined, whichever of
\* booking, closing and reopening got the row lock first.
ClosedIsNil == claim.status \in {"CLOSED", "DECLINED"} => position.os = 0

\* Every document row leads to a stored file, wherever a request that attaches
\* or deletes it fails. (The converse does not hold: files may leak.)
DocumentsHaveFiles == documents \subseteq files

\* Where a claim is in its review.
Phase ==
  CASE claim.approval = "WAITING_APPROVAL" -> "filed"
    [] claim.approval = "FINALISED" -> "granted"
    [] OTHER -> "open"

\* The review as a whole: a second person grants exactly what was filed.
Gate == INSTANCE FourEyes
  WITH Reviewers <- Approvers, phase <- Phase, content <- Pack,
       author <- claim.submitter, approver <- claim.reviewer

ReviewRefinement == Gate!Spec

\* ---- what a comment says and the code does not keep ----

\* "The approver must review exactly the pack that was submitted, so
\* attachments cannot be added (or removed) while the claim sits in
\* WAITING_APPROVAL."
PackFrozen == [][Frozen => documents' = documents]_vars
=============================================================================
