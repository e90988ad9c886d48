--------------------------- MODULE ClaimLedgerProofs ---------------------------
(***************************************************************************)
(* What holds of a treaty's claim and of its entry in the Finance ledger   *)
(* for any number of users, requests, lines, amounts and documents.        *)
(***************************************************************************)
EXTENDS ClaimLedger, TLAPS

Treaty == [status : TreatyStatuses, line : LineOrNull]
Entry  == [status : EntryStatuses \cup {"NONE"}, line : LineOrNull, by : UserOrNull]
Signing == [pc : {"idle", "SIGN", "NTU"}, line : LineOrNull]

\* A request carries a document from the upload, or the click, to the end.
Job ==
  [pc : {"off", "book"}, line : LineOrNull, document : {NoDocument}]
    \cup [pc : {"store", "record", "delete", "clean"}, line : LineOrNull,
          document : Documents]
-----------------------------------------------------------------------------
(* The books of Finance *)

\* Only an approver is put on record, and exactly an entry past its set-up has
\* one on record.
Answered == Attributed /\ entry.by \in Approvers \cup {NoUser}

\* The inductive invariant of the treaty and its entry, whatever claims do.
Books == FinanceTypeOK /\ Answered /\ ClaimsAreFinanced

LEMMA BookTypes ==
  ASSUME FinanceTypeOK
  PROVE  /\ contract \in Treaty /\ entry \in Entry
         /\ signing \in [Signers -> Signing]
BY DEF FinanceTypeOK, Treaty, Entry, Signing

\* A refresh leaves an entry, answered for by whoever answered for it before.
LEMMA PushKeeps ==
  ASSUME Books, NEW line \in LineOrNull, entry' = Pushed(line)
  PROVE  /\ entry' \in Entry /\ Answered' /\ entry'.status # "NONE"
         /\ entry.by # NoUser => entry'.by = entry.by /\ entry'.status = entry.status
<1>1. entry \in Entry
  BY BookTypes DEF Books
<1>2. /\ entry'.by = entry.by
      /\ entry'.status = IF entry.by = NoUser THEN "PENDING_SETUP" ELSE entry.status
      /\ entry' \in Entry
  BY <1>1 DEF Pushed, Entry, EntryStatuses
<1> QED BY <1>1, <1>2, UserAssumption DEF Books, Answered, Attributed, Entry

LEMMA TerminalKeeps ==
  ASSUME Books, NEW s \in Signers, Terminal(s), UNCHANGED claimVars
  PROVE  Books'
<1>0. contract \in Treaty /\ signing[s] \in Signing /\ Resting \in Signing
  BY BookTypes DEF Books, Signing, Resting, LineOrNull
<1>1. claim' = claim
  BY DEF claimVars
<1>2. ASSUME NEW action \in {"SIGN", "NTU"}, NEW line \in LineOrNull,
             BeginTerminal(s, action, line)
      PROVE  Books'
  <2>1. [pc |-> action, line |-> line] \in Signing
    BY DEF Signing
  <2>2. FinanceTypeOK'
    BY <1>2, <2>1 DEF BeginTerminal, Books, FinanceTypeOK, Signing
  <2> QED BY <1>1, <1>2, <2>2
          DEF BeginTerminal, Books, Answered, Attributed, ClaimsAreFinanced, Exists
<1>3. CASE CommitSign(s)
  <2>1. entry' = Pushed(signing[s].line) /\ signing[s].line \in LineOrNull
    BY <1>0, <1>3 DEF CommitSign, Signing
  <2>2. entry' \in Entry /\ Answered' /\ entry'.status # "NONE"
    BY <2>1, PushKeeps
  <2>3. FinanceTypeOK'
    BY <1>0, <1>3, <2>1, <2>2
       DEF CommitSign, Books, FinanceTypeOK, Entry, Signing, TreatyStatuses
  <2> QED BY <2>2, <2>3 DEF Books, ClaimsAreFinanced
<1>4. CASE CommitNtu(s)
  <2>1. contract' \in Treaty /\ contract'.status = "NTU"
    BY <1>0, <1>4 DEF CommitNtu, Treaty, TreatyStatuses
  <2>2. FinanceTypeOK'
    BY <1>0, <1>4, <2>1 DEF CommitNtu, Books, FinanceTypeOK, Treaty, Signing
  <2> QED BY <1>1, <1>4, <2>1, <2>2
          DEF CommitNtu, Books, Answered, Attributed, ClaimsAreFinanced, Exists
<1>5. CASE FailSigning(s)
  <2>1. FinanceTypeOK'
    BY <1>0, <1>5 DEF FailSigning, Books, FinanceTypeOK, Signing
  <2> QED BY <1>1, <1>5, <2>1
          DEF FailSigning, Books, Answered, Attributed, ClaimsAreFinanced, Exists
<1>6. 0 \in LineOrNull
  BY DEF LineOrNull
<1> QED BY <1>2, <1>3, <1>4, <1>5, <1>6 DEF Terminal

LEMMA TreatyKeeps ==
  ASSUME Books, UNCHANGED claimVars,
         DeleteContract \/ \E line \in Lines : EditLine(line)
  PROVE  Books'
<1>0. contract \in Treaty /\ claim' = claim
  BY BookTypes DEF Books, claimVars
<1>1. CASE DeleteContract /\ Exists
  BY <1>1 DEF DeleteContract, Books, ClaimsAreFinanced, NoEntry
<1>2. CASE DeleteContract /\ ~Exists
  <2>1. contract' \in Treaty /\ contract'.status = "DELETED"
    BY <1>0, <1>2 DEF DeleteContract, Treaty, TreatyStatuses
  <2> QED BY <1>0, <1>2, <2>1 DEF DeleteContract, Books, FinanceTypeOK, Treaty, Answered,
                                  Attributed, ClaimsAreFinanced, Exists
<1>3. ASSUME NEW line \in Lines, EditLine(line)
      PROVE  Books'
  <2>1. contract' \in Treaty /\ contract'.status = contract.status
    BY <1>0, <1>3 DEF EditLine, Treaty, LineOrNull
  <2> QED BY <1>0, <1>3, <2>1 DEF EditLine, Books, FinanceTypeOK, Treaty, Answered,
                                  Attributed, ClaimsAreFinanced, Exists
<1> QED BY <1>1, <1>2, <1>3

LEMMA OfficeKeeps ==
  ASSUME Books, UNCHANGED claimVars, FinanceOffice
  PROVE  Books'
<1>0. entry \in Entry /\ claim' = claim
  BY BookTypes DEF Books, claimVars
<1>1. ASSUME NEW u \in Users, Acknowledge(u)
      PROVE  Books'
  <2>1. /\ entry' \in Entry /\ entry'.status = "ACTIVE" /\ entry'.by = u /\ u \in Approvers
        /\ UNCHANGED <<contract, signing>>
    BY <1>0, <1>1 DEF Acknowledge, Entry, EntryStatuses, UserOrNull
  <2> QED BY <1>0, <2>1 DEF Books, FinanceTypeOK, Entry, Answered, Attributed,
                            ClaimsAreFinanced
<1>2. ASSUME NEW u \in Users, NEW to \in EntryStatuses, SetEntryStatus(u, to)
      PROVE  Books'
  <2>1. /\ entry.status \in {"ACTIVE", "SUSPENDED"} /\ to \in {"ACTIVE", "SUSPENDED", "CLOSED"}
        /\ UNCHANGED <<contract, signing>>
    BY <1>2 DEF SetEntryStatus, Transitions
  <2>2. entry' \in Entry /\ entry'.status = to /\ entry'.by = entry.by
    BY <1>0, <1>2 DEF SetEntryStatus, Entry
  <2> QED BY <1>0, <2>1, <2>2 DEF Books, FinanceTypeOK, Entry, Answered, Attributed,
                                  ClaimsAreFinanced
<1> QED BY <1>1, <1>2 DEF FinanceOffice
-----------------------------------------------------------------------------
(* The types of the claim *)

\* What only the steps of the claim change, by type.
ClaimTypeOK ==
  /\ claim \in Claim /\ position \in Position
  /\ documents \subseteq Documents /\ files \subseteq Documents
  /\ job \in [Clerks -> Job]

\* Giving up a grant touches the approval and the name under it alone.
LEMMA RedraftedClaim ==
  ASSUME claim \in Claim, NEW row, row = Redrafted(claim)
  PROVE  /\ row \in Claim
         /\ row.status = claim.status /\ row.header = claim.header
         /\ row.approval = IF claim.approval = "FINALISED" THEN "DRAFT" ELSE claim.approval
BY DEF Claim, Redrafted, Approvals, UserOrNull

LEMMA Moved ==
  ASSUME position \in Position, NEW paid \in Amounts, NEW os \in Amounts,
         NEW share \in LineOrNull, Move(paid, os, share)
  PROVE  position' \in Position /\ position'.paid = paid /\ position'.os = os
BY DEF Move, Position

\* No step but a creation gives the treaty a claim.
Kept == claim'.status # "NONE" => claim.status # "NONE" \/ contract.status = "SIGNED"

LEMMA BookingTypes ==
  ASSUME contract \in Treaty, ClaimTypeOK, NEW j \in Clerks, Booking(j)
  PROVE  ClaimTypeOK' /\ Kept
<1>0. /\ job[j] \in Job /\ Off \in Job /\ contract.line \in LineOrNull
      /\ position.paid \in Amounts /\ position.os \in Amounts /\ 0 \in Amounts
  BY ClaimAssumption DEF ClaimTypeOK, Job, Off, Treaty, LineOrNull, Position
<1>1. CASE BeginBooking(j)
  BY <1>0, <1>1 DEF BeginBooking, Doing, ClaimTypeOK, Job, Kept
<1>2. ASSUME NEW paid \in Amounts, NEW os \in Amounts, Book(j, paid, os)
      PROVE  ClaimTypeOK' /\ Kept
  <2>1. position' \in Position
    BY <1>0, <1>2, Moved DEF Book, ClaimTypeOK, Job
  <2>2. claim' \in Claim /\ claim'.status = claim.status
    BY <1>2, RedraftedClaim DEF Book, ClaimTypeOK
  <2> QED BY <1>0, <1>2, <2>1, <2>2 DEF Book, Done, ClaimTypeOK, Kept
<1>3. ASSUME NEW to \in {"CLOSED", "DECLINED"}, Close(j, to)
      PROVE  ClaimTypeOK' /\ Kept
  <2>1. position' \in Position
    BY <1>0, <1>3, Moved DEF Close, ClaimTypeOK, Job
  <2>2. claim' \in Claim /\ claim.status # "NONE"
    BY <1>3 DEF Close, ClaimTypeOK, Claim, Statuses, IsOpen
  <2> QED BY <1>0, <1>3, <2>1, <2>2 DEF Close, Done, ClaimTypeOK, Kept
<1>4. CASE Reopen(j)
  <2>1. position' \in Position
    BY <1>0, <1>4, Moved DEF Reopen, ClaimTypeOK, Job
  <2>2. claim' \in Claim /\ claim.status # "NONE"
    BY <1>4 DEF Reopen, ClaimTypeOK, Claim, Statuses
  <2> QED BY <1>0, <1>4, <2>1, <2>2 DEF Reopen, Done, ClaimTypeOK, Kept
<1> QED BY <1>1, <1>2, <1>3, <1>4 DEF Booking

LEMMA AttachingTypes ==
  ASSUME ClaimTypeOK, NEW j \in Clerks, Attaching(j) \/ Abandon(j)
  PROVE  ClaimTypeOK' /\ UNCHANGED <<claim, position, filed>>
<1>0. job[j] \in Job /\ Off \in Job
  BY DEF ClaimTypeOK, Job, Off, LineOrNull
<1>1. ASSUME NEW d \in Documents, BeginAttach(j, d)
      PROVE  ClaimTypeOK' /\ UNCHANGED <<claim, position, filed>>
  BY <1>0, <1>1 DEF BeginAttach, Doing, ClaimTypeOK, Job
<1>2. ASSUME NEW d \in Documents, BeginDelete(j, d)
      PROVE  ClaimTypeOK' /\ UNCHANGED <<claim, position, filed>>
  BY <1>0, <1>2 DEF BeginDelete, Doing, ClaimTypeOK, Job
<1>3. CASE StoreFile(j)
  <2>1. job[j].document \in Documents
    BY <1>0, <1>3 DEF StoreFile, Doing, Job
  <2>2. job' \in [Clerks -> Job]
    BY <1>0, <1>3, <2>1 DEF StoreFile, Doing, Turn, ClaimTypeOK, Job
  <2> QED BY <1>3, <2>1, <2>2 DEF StoreFile, ClaimTypeOK
<1>4. CASE RecordDocument(j)
  <2>1. job[j].document \in Documents
    BY <1>0, <1>4 DEF RecordDocument, Doing, Job
  <2> QED BY <1>0, <1>4, <2>1 DEF RecordDocument, Done, ClaimTypeOK
<1>5. CASE DeleteRow(j)
  BY <1>0, <1>5 DEF DeleteRow, Doing, Turn, ClaimTypeOK, Job
<1>6. CASE RemoveFile(j)
  BY <1>0, <1>6 DEF RemoveFile, Done, ClaimTypeOK
<1>7. CASE Abandon(j)
  BY <1>0, <1>7 DEF Abandon, Done, ClaimTypeOK
<1> QED BY <1>1, <1>2, <1>3, <1>4, <1>5, <1>6, <1>7 DEF Attaching
LEMMA ClaimTypes ==
  ASSUME contract \in Treaty, ClaimTypeOK, ClaimNext
  PROVE  ClaimTypeOK' /\ Kept /\ UNCHANGED financeVars
<1>0. contract.line \in LineOrNull /\ 0 \in LineOrNull /\ Users \subseteq UserOrNull
  BY DEF Treaty, LineOrNull, UserOrNull
<1>1. ASSUME NEW h \in Headers, NEW paid \in Amounts, NEW os \in Amounts,
             Create(h, paid, os)
      PROVE  ClaimTypeOK' /\ Kept /\ UNCHANGED financeVars
  <2>1. position' \in Position
    BY <1>0, <1>1, Moved DEF Create, ClaimTypeOK
  <2>2. claim' \in Claim
    BY <1>1 DEF Create, Claim, Statuses, Approvals, UserOrNull
  <2> QED BY <1>1, <2>1, <2>2 DEF Create, ClaimTypeOK, Kept
<1>2. ASSUME NEW h \in Headers, EditClaim(h)
      PROVE  ClaimTypeOK' /\ Kept /\ UNCHANGED financeVars
  <2>1. PICK row : row = Redrafted(claim)
    OBVIOUS
  <2>2. row \in Claim /\ row.status = claim.status /\ claim' = [row EXCEPT !.header = h]
    BY <1>2, <2>1, RedraftedClaim DEF EditClaim, ClaimTypeOK
  <2>3. claim' \in Claim /\ claim'.status = claim.status
    BY <2>2 DEF Claim
  <2> QED BY <1>2, <2>3 DEF EditClaim, ClaimTypeOK, Kept
<1>3. ASSUME NEW u \in Users, Reviewing(u)
      PROVE  ClaimTypeOK' /\ Kept /\ UNCHANGED financeVars
  <2>1. UNCHANGED <<financeVars, position, documents, files, job>>
    BY <1>3 DEF Reviewing, Submit, Finalise, Reject
  <2>2. claim' \in Claim /\ claim'.status = claim.status
    BY <1>0, <1>3 DEF Reviewing, Submit, Finalise, Reject, ClaimTypeOK, Claim, Approvals,
                      UserOrNull
  <2> QED BY <2>1, <2>2 DEF ClaimTypeOK, Kept
<1>4. ASSUME NEW j \in Clerks, Booking(j) \/ Attaching(j) \/ Abandon(j)
      PROVE  ClaimTypeOK' /\ Kept /\ UNCHANGED financeVars
  <2>1. UNCHANGED financeVars
    BY <1>4 DEF Booking, BeginBooking, Book, Close, Reopen, Attaching, BeginAttach, StoreFile,
                RecordDocument, BeginDelete, DeleteRow, RemoveFile, Abandon
  <2> QED BY <1>4, <2>1, BookingTypes, AttachingTypes DEF Kept
<1> QED BY <1>1, <1>2, <1>3, <1>4 DEF ClaimNext

-----------------------------------------------------------------------------
(* The books, whatever Finance, the underwriters and the clerks do *)

Ledger == Books /\ ClaimTypeOK

LEMMA LedgerInit == Init => Ledger
<1> SUFFICES ASSUME Init PROVE Ledger
  OBVIOUS
<1>1. PICK s \in InitialTreaties, line \in LineOrNull :
        /\ contract = [status |-> s, line |-> line]
        /\ entry = IF s = "SIGNED"
                   THEN [NoEntry EXCEPT !.status = "PENDING_SETUP", !.line = line]
                   ELSE NoEntry
  BY DEF Init, FinanceInit
<1>2. NoEntry \in Entry /\ Resting \in Signing /\ s \in TreatyStatuses
  BY TreatyAssumption DEF NoEntry, Resting, Entry, Signing, LineOrNull, UserOrNull,
                          TreatyStatuses
<1>3. /\ entry \in Entry /\ entry.by = NoUser
      /\ entry.status = IF s = "SIGNED" THEN "PENDING_SETUP" ELSE "NONE"
  BY <1>1, <1>2 DEF NoEntry, Entry, EntryStatuses
<1>4. FinanceTypeOK
  BY <1>1, <1>2, <1>3 DEF Init, FinanceInit, FinanceTypeOK, Entry, Signing
<1>5. claim \in Claim /\ claim.status = "NONE"
  BY DEF Init, Claim, Statuses, Approvals, UserOrNull
<1>6. Empty \in Position /\ Off \in Job
  BY ClaimAssumption DEF Empty, Off, Position, Job, LineOrNull
<1>7. Books
  BY <1>1, <1>3, <1>4, <1>5, UserAssumption
     DEF Books, Answered, Attributed, ClaimsAreFinanced, Exists
<1> QED BY <1>5, <1>6, <1>7 DEF Init, Ledger, ClaimTypeOK

LEMMA LedgerStep == Ledger /\ [Next]_vars => Ledger'
<1> SUFFICES ASSUME Ledger, [Next]_vars PROVE Ledger'
  OBVIOUS
<1>1. CASE FinanceNext /\ UNCHANGED claimVars
  <2>1. Books'
    BY <1>1, TerminalKeeps, TreatyKeeps, OfficeKeeps DEF FinanceNext, Ledger
  <2> QED BY <1>1, <2>1 DEF Ledger, ClaimTypeOK, claimVars
<1>2. CASE ClaimNext
  <2>1. ClaimTypeOK' /\ Kept /\ UNCHANGED financeVars
    BY <1>2, ClaimTypes, BookTypes DEF Ledger, Books
  <2>2. FinanceTypeOK' /\ Answered' /\ (Exists' => entry.status # "NONE")
    BY <2>1 DEF Ledger, Books, FinanceTypeOK, Answered, Attributed, financeVars, Kept, Exists,
                ClaimsAreFinanced
  <2> QED BY <2>1, <2>2 DEF Ledger, Books, ClaimsAreFinanced, financeVars
<1>3. CASE UNCHANGED vars
  BY <1>3 DEF vars, financeVars, claimVars, Ledger, Books, FinanceTypeOK, Answered, Attributed,
              ClaimsAreFinanced, Exists, ClaimTypeOK
<1> QED BY <1>1, <1>2, <1>3 DEF Next

LEMMA LedgerAlways == Spec => []Ledger
BY LedgerInit, LedgerStep, PTL DEF Spec

\* Every variable has its type.
THEOREM TypeCorrect == Spec => []TypeOK
<1>1. Ledger => TypeOK
  BY DEF Ledger, Books, ClaimTypeOK, Job, TypeOK
<1> QED BY <1>1, LedgerAlways, PTL

\* A signed treaty, and one that has a claim, is on the books of Finance.
THEOREM Financed == Spec => []ClaimsAreFinanced
<1>1. Ledger => ClaimsAreFinanced
  BY DEF Ledger, Books
<1> QED BY <1>1, LedgerAlways, PTL

\* Exactly the entries past their set-up have an approver who answers for them.
THEOREM EntriesAttributed == Spec => []Attributed
<1>1. Ledger => Attributed
  BY DEF Ledger, Books, Answered
<1> QED BY <1>1, LedgerAlways, PTL
LEMMA EntryMoves == Ledger /\ [Next]_vars => EntryStep \/ UNCHANGED entry
<1> SUFFICES ASSUME Ledger, Next, entry.by # NoUser PROVE EntryStep \/ UNCHANGED entry
  BY DEF vars, financeVars, EntryStep
<1>0. /\ entry \in Entry /\ entry.status \in {"ACTIVE", "SUSPENDED", "CLOSED"}
      /\ \A s \in Signers : signing[s] \in Signing
      /\ Books
  BY BookTypes DEF Ledger, Books, Answered, Attributed
<1>1. ASSUME NEW s \in Signers, Terminal(s)
      PROVE  EntryStep \/ UNCHANGED entry
  <2>1. CASE CommitSign(s)
    <3>1. entry' = Pushed(signing[s].line) /\ signing[s].line \in LineOrNull
      BY <1>0, <2>1 DEF CommitSign, Signing
    <3>2. entry'.by = entry.by /\ entry'.status = entry.status
      BY <1>0, <3>1, PushKeeps
    <3> QED BY <3>2 DEF EntryStep
  <2>2. CASE ~CommitSign(s)
    BY <1>1, <2>2 DEF Terminal, BeginTerminal, CommitNtu, FailSigning
  <2> QED BY <2>1, <2>2
<1>2. ASSUME NEW u \in Users, Acknowledge(u)
      PROVE  FALSE
  BY <1>0, <1>2 DEF Acknowledge
<1>3. ASSUME NEW u \in Users, NEW to \in EntryStatuses, SetEntryStatus(u, to)
      PROVE  EntryStep
  BY <1>0, <1>3 DEF SetEntryStatus, EntryStep, Entry
<1>4. CASE DeleteContract \/ \E line \in Lines : EditLine(line)
  BY <1>4 DEF DeleteContract, EditLine
<1>5. CASE ClaimNext
  BY <1>5, ClaimTypes, BookTypes DEF Ledger, Books, financeVars
<1> QED BY <1>1, <1>2, <1>3, <1>4, <1>5 DEF Next, FinanceNext, FinanceOffice

\* Nothing takes an acknowledged entry back, a late second signature included.
THEOREM AcknowledgedStays == Spec => NeverRegresses
<1>1. Ledger /\ [Next]_vars => [EntryStep]_entry
  BY EntryMoves
<1> QED BY <1>1, LedgerAlways, PTL DEF Spec, NeverRegresses

-----------------------------------------------------------------------------
(* The review *)

\* A claim not yet notified is not under review.
Reviewed == ReviewedFigures /\ ClosedIsNil /\ (Exists \/ claim.approval = "DRAFT")

\* What a step of the claim is to its review.
ReviewStep ==
  \/ Gate!Amend
  \/ Gate!File
  \/ Gate!Grant
  \/ Gate!Return
  \/ UNCHANGED <<Phase, Pack, claim.submitter, claim.reviewer>>

LEMMA ReviewInit == Init => Reviewed /\ Gate!Init
BY DEF Init, Reviewed, ReviewedFigures, ClosedIsNil, Gate!Init, Phase

LEMMA BookingReviewed ==
  ASSUME contract \in Treaty, ClaimTypeOK, Reviewed, NEW j \in Clerks, Booking(j)
  PROVE  Reviewed' /\ ReviewStep
<1>0. /\ job[j].line \in LineOrNull /\ claim \in Claim
      /\ position \in Position /\ position.paid \in Amounts /\ position.os \in Amounts
      /\ 0 \in Amounts
  BY ClaimAssumption DEF ClaimTypeOK, Job, Position
<1>1. CASE BeginBooking(j)
  BY <1>1 DEF BeginBooking, Reviewed, ReviewedFigures, ClosedIsNil, Exists, ReviewStep, Phase,
              Pack
<1>2. ASSUME NEW paid \in Amounts, NEW os \in Amounts, Book(j, paid, os)
      PROVE  Reviewed' /\ ReviewStep
  <2>1. /\ claim'.status = claim.status /\ claim'.status \in {"OPEN", "REOPENED"}
        /\ claim'.approval \in {"DRAFT", "REJECTED"}
        /\ claim.approval # "WAITING_APPROVAL"
    BY <1>0, <1>2, RedraftedClaim DEF Book, IsOpen, Frozen, Claim, Approvals
  <2>2. Gate!Amend
    BY <2>1 DEF Gate!Amend, Phase
  <2> QED BY <2>1, <2>2 DEF Reviewed, ReviewedFigures, ClosedIsNil, Exists, ReviewStep
<1>3. ASSUME NEW to \in {"CLOSED", "DECLINED"}, Close(j, to)
      PROVE  Reviewed' /\ ReviewStep
  <2>1. position'.paid = position.paid /\ position'.os = 0
    BY <1>0, <1>3, Moved DEF Close
  <2>2. /\ claim'.status = to /\ claim'.approval = claim.approval
        /\ claim'.submitter = claim.submitter /\ claim'.reviewer = claim.reviewer
        /\ claim'.header = claim.header /\ filed' = filed
        /\ claim.approval # "WAITING_APPROVAL"
    BY <1>0, <1>3 DEF Close, Frozen, Claim
  <2>3. claim.approval = "FINALISED" => Pack' = Pack
    BY <1>3, <2>1, <2>2 DEF Close, Pack
  <2>4. Reviewed'
    BY <2>1, <2>2, <2>3 DEF Reviewed, ReviewedFigures, ClosedIsNil, Exists
  <2>5. CASE claim.approval = "FINALISED"
    BY <2>2, <2>3, <2>4, <2>5 DEF ReviewStep, Phase
  <2>6. CASE claim.approval # "FINALISED"
    BY <2>2, <2>4, <2>6 DEF ReviewStep, Gate!Amend, Phase
  <2> QED BY <2>5, <2>6
<1>4. CASE Reopen(j)
  <2>1. position'.paid = position.paid /\ position'.os = position.os
    BY <1>0, <1>4, Moved DEF Reopen
  <2>2. /\ claim'.status = "REOPENED" /\ claim'.approval = claim.approval
        /\ claim'.submitter = claim.submitter /\ claim'.reviewer = claim.reviewer
        /\ claim'.header = claim.header /\ filed' = filed
    BY <1>0, <1>4 DEF Reopen, Claim
  <2>3. Pack' = Pack /\ Phase' = Phase
    BY <2>1, <2>2 DEF Pack, Phase
  <2> QED BY <2>1, <2>2, <2>3
          DEF Reviewed, ReviewedFigures, ClosedIsNil, Exists, ReviewStep
<1> QED BY <1>1, <1>2, <1>3, <1>4 DEF Booking

LEMMA ClaimReviewed ==
  ASSUME contract \in Treaty, ClaimTypeOK, Reviewed, ClaimNext
  PROVE  Reviewed' /\ ReviewStep
<1>0. claim \in Claim
  BY DEF ClaimTypeOK
<1>1. ASSUME NEW h \in Headers, NEW paid \in Amounts, NEW os \in Amounts,
             Create(h, paid, os)
      PROVE  Reviewed' /\ ReviewStep
  <2>1. claim.approval = "DRAFT" /\ claim'.approval = "DRAFT" /\ claim'.status = "OPEN"
    BY <1>1 DEF Create, Reviewed
  <2> QED BY <2>1 DEF Reviewed, ReviewedFigures, ClosedIsNil, ReviewStep, Gate!Amend, Phase
<1>2. ASSUME NEW h \in Headers, EditClaim(h)
      PROVE  Reviewed' /\ ReviewStep
  <2>1. PICK row : row = Redrafted(claim)
    OBVIOUS
  <2>2. claim' = [row EXCEPT !.header = h] /\ row \in Claim /\ row.status = claim.status
    BY <1>0, <1>2, <2>1, RedraftedClaim DEF EditClaim
  <2>3. /\ row.approval \in {"DRAFT", "REJECTED"}
        /\ claim.approval # "WAITING_APPROVAL"
        /\ claim.status \in {"OPEN", "REOPENED"}
    BY <1>0, <1>2, <2>1, RedraftedClaim DEF EditClaim, IsOpen, Frozen, Claim, Approvals
  <2>4. claim'.approval \in {"DRAFT", "REJECTED"} /\ claim'.status \in {"OPEN", "REOPENED"}
    BY <2>2, <2>3 DEF Claim
  <2> QED BY <2>3, <2>4
          DEF Reviewed, ReviewedFigures, ClosedIsNil, Exists, ReviewStep, Gate!Amend, Phase
<1>3. ASSUME NEW u \in Users, Reviewing(u)
      PROVE  Reviewed' /\ ReviewStep
  <2>1. Pack' = Pack /\ position' = position /\ claim'.status = claim.status
    BY <1>0, <1>3 DEF Reviewing, Submit, Finalise, Reject, Claim, Pack
  <2>2. CASE Submit(u)
    <3>1. /\ claim.approval \in {"DRAFT", "REJECTED"} /\ claim'.approval = "WAITING_APPROVAL"
          /\ filed' = Pack /\ Exists
      BY <1>0, <2>2 DEF Submit, Claim
    <3> QED BY <2>1, <3>1 DEF Reviewed, ReviewedFigures, ClosedIsNil, Exists, ReviewStep,
                              Gate!File, Phase
  <2>3. CASE Finalise(u)
    <3>1. /\ claim.approval = "WAITING_APPROVAL" /\ claim'.approval = "FINALISED"
          /\ claim'.reviewer = u /\ u \in Approvers \ {claim.submitter}
          /\ claim'.submitter = claim.submitter /\ filed' = filed
      BY <1>0, <2>3 DEF Finalise, Frozen, Claim
    <3> QED BY <2>1, <3>1 DEF Reviewed, ReviewedFigures, ClosedIsNil, Exists, ReviewStep,
                              Gate!Grant, Phase
  <2>4. CASE Reject(u)
    <3>1. claim.approval = "WAITING_APPROVAL" /\ claim'.approval = "REJECTED"
      BY <1>0, <2>4 DEF Reject, Frozen, Claim
    <3> QED BY <2>1, <3>1 DEF Reviewed, ReviewedFigures, ClosedIsNil, Exists, ReviewStep,
                              Gate!Return, Phase
  <2> QED BY <1>3, <2>2, <2>3, <2>4 DEF Reviewing
<1>4. ASSUME NEW j \in Clerks, Attaching(j) \/ Abandon(j)
      PROVE  Reviewed' /\ ReviewStep
  BY <1>4, AttachingTypes
     DEF Reviewed, ReviewedFigures, ClosedIsNil, Exists, ReviewStep, Phase, Pack
<1> QED BY <1>1, <1>2, <1>3, <1>4, BookingReviewed DEF ClaimNext

LEMMA ReviewNext ==
  Ledger /\ Reviewed /\ [Next]_vars => Reviewed' /\ [Gate!Next]_Gate!vars
<1> SUFFICES ASSUME Ledger, Reviewed, [Next]_vars PROVE Reviewed' /\ ReviewStep
  BY DEF ReviewStep, Gate!Next, Gate!vars
<1>1. CASE ClaimNext
  BY <1>1, ClaimReviewed, BookTypes DEF Ledger, Books
<1>2. CASE UNCHANGED claimVars
  BY <1>2 DEF claimVars, Reviewed, ReviewedFigures, ClosedIsNil, Exists, ReviewStep, Phase, Pack
<1> QED BY <1>1, <1>2 DEF Next, vars

LEMMA ReviewedAlways == Spec => []Reviewed
BY LedgerAlways, ReviewInit, ReviewNext, PTL DEF Spec

\* What waits for the reviewer, or has been finalised, is what was submitted.
THEOREM FiguresReviewed == Spec => []ReviewedFigures
<1>1. Reviewed => ReviewedFigures
  BY DEF Reviewed
<1> QED BY <1>1, ReviewedAlways, PTL

\* No reserve is left on a claim that is closed or declined.
THEOREM NilWhenClosed == Spec => []ClosedIsNil
<1>1. Reviewed => ClosedIsNil
  BY DEF Reviewed
<1> QED BY <1>1, ReviewedAlways, PTL

\* The review of a claim is the four-eyes gate: every step of the ledger is a
\* step of it or none.
THEOREM ReviewIsFourEyes == Spec => ReviewRefinement
BY LedgerAlways, ReviewedAlways, ReviewInit, ReviewNext, PTL
   DEF Spec, ReviewRefinement, Gate!Spec
-----------------------------------------------------------------------------
(* The attachments *)

\* A document that is being attached is in nobody else's hands and has no row
\* yet; once stored, its file stays. A document being cleaned up has no row.
Handled(j) ==
  /\ job[j].pc \in {"store", "record"} =>
       /\ job[j].document \notin documents
       /\ \A k \in Clerks \ {j} : job[k].document # job[j].document
  /\ job[j].pc = "record" => job[j].document \in files
  /\ job[j].pc = "clean" => job[j].document \notin documents

Stored == DocumentsHaveFiles /\ \A j \in Clerks : Handled(j)

\* A request that ends, or turns to a booking, leaves the others as they were.
LEMMA Ends ==
  ASSUME ClaimTypeOK, Stored, NEW j \in Clerks, NEW line \in LineOrNull,
         NEW pc \in {"off", "book"}, UNCHANGED <<documents, files>>,
         job' = [job EXCEPT ![j] = [pc |-> pc, line |-> line, document |-> NoDocument]]
  PROVE  Stored'
<1>1. /\ job'[j].pc \in {"off", "book"} /\ job'[j].document = NoDocument
      /\ \A k \in Clerks \ {j} : job'[k] = job[k]
  BY DEF ClaimTypeOK
<1>2. \A k \in Clerks : job[k].pc \in {"store", "record"} => job[k].document # NoDocument
  BY ClaimAssumption DEF ClaimTypeOK, Job
<1>3. ASSUME NEW k \in Clerks
      PROVE  Handled(k)'
  BY <1>1, <1>2 DEF Stored, Handled
<1> QED BY <1>3 DEF Stored, DocumentsHaveFiles

LEMMA AttachingStored ==
  ASSUME ClaimTypeOK, Stored, NEW j \in Clerks, Attaching(j)
  PROVE  Stored'
<1>0. job[j] \in Job /\ \A k \in Clerks : job[k] \in Job /\ Handled(k)
  BY DEF ClaimTypeOK, Stored
<1>1. ASSUME NEW d \in Documents, BeginAttach(j, d)
      PROVE  Stored'
  <2>1. /\ job'[j].pc = "store" /\ job'[j].document = d
        /\ \A k \in Clerks \ {j} : job'[k] = job[k]
        /\ UNCHANGED <<documents, files>>
        /\ d \notin files /\ \A k \in Clerks : job[k].document # d
    BY <1>0, <1>1 DEF BeginAttach, Doing, ClaimTypeOK, Job
  <2>2. ASSUME NEW k \in Clerks
        PROVE  Handled(k)'
    BY <1>0, <2>1 DEF Stored, Handled, DocumentsHaveFiles
  <2> QED BY <2>1, <2>2 DEF Stored, DocumentsHaveFiles
<1>2. ASSUME NEW d \in Documents, BeginDelete(j, d)
      PROVE  Stored'
  <2>1. /\ job'[j].pc = "delete" /\ job'[j].document = d /\ d \in documents
        /\ \A k \in Clerks \ {j} : job'[k] = job[k]
        /\ UNCHANGED <<documents, files>>
    BY <1>0, <1>2 DEF BeginDelete, Doing, ClaimTypeOK, Job
  <2>2. ASSUME NEW k \in Clerks
        PROVE  Handled(k)'
    BY <1>0, <2>1 DEF Handled
  <2> QED BY <2>1, <2>2 DEF Stored, DocumentsHaveFiles
<1>3. CASE StoreFile(j)
  <2>1. /\ job[j].pc = "store" /\ job'[j].pc = "record"
        /\ job'[j].document = job[j].document
        /\ \A k \in Clerks \ {j} : job'[k] = job[k]
        /\ documents' = documents /\ files' = files \cup {job[j].document}
    BY <1>0, <1>3 DEF StoreFile, Doing, Turn, ClaimTypeOK, Job
  <2>2. ASSUME NEW k \in Clerks
        PROVE  Handled(k)'
    BY <1>0, <2>1 DEF Handled
  <2> QED BY <2>1, <2>2 DEF Stored, DocumentsHaveFiles
<1>4. CASE RecordDocument(j)
  <2>1. /\ job[j].pc = "record" /\ job[j].document \in files
        /\ \A k \in Clerks \ {j} : job[k].document # job[j].document
    BY <1>0, <1>4 DEF RecordDocument, Doing, Handled
  <2>2. /\ job'[j].pc = "off"
        /\ \A k \in Clerks \ {j} : job'[k] = job[k]
        /\ documents' = documents \cup {job[j].document} /\ files' = files
    BY <1>4 DEF RecordDocument, Done, Off, ClaimTypeOK
  <2>3. job'[j].document = NoDocument
    BY <1>4 DEF RecordDocument, Done, Off, ClaimTypeOK
  <2>4. \A k \in Clerks : job[k].pc \in {"store", "record"} => job[k].document # NoDocument
    BY <1>0, ClaimAssumption DEF Job
  <2>5. ASSUME NEW k \in Clerks
        PROVE  Handled(k)'
    BY <1>0, <2>1, <2>2, <2>3, <2>4, <2>5 DEF Handled
  <2> QED BY <2>1, <2>2, <2>5 DEF Stored, DocumentsHaveFiles
<1>5. CASE DeleteRow(j)
  <2>1. /\ job[j].pc = "delete" /\ job'[j].pc = "clean"
        /\ job'[j].document = job[j].document
        /\ \A k \in Clerks \ {j} : job'[k] = job[k]
        /\ documents' = documents \ {job[j].document} /\ files' = files
    BY <1>0, <1>5 DEF DeleteRow, Doing, Turn, ClaimTypeOK, Job
  <2>2. ASSUME NEW k \in Clerks
        PROVE  Handled(k)'
    BY <1>0, <2>1 DEF Handled
  <2> QED BY <2>1, <2>2 DEF Stored, DocumentsHaveFiles
<1>6. CASE RemoveFile(j)
  <2>1. /\ job[j].pc = "clean" /\ job[j].document \notin documents
        /\ documents' = documents /\ files' = files \ {job[j].document}
    BY <1>0, <1>6 DEF RemoveFile, Doing, Handled
  <2>2. /\ job'[j].pc = "off" /\ job'[j].document = NoDocument
        /\ \A k \in Clerks \ {j} : job'[k] = job[k]
    BY <1>6 DEF RemoveFile, Done, Off, ClaimTypeOK
  <2>3. \A k \in Clerks : job[k].pc \in {"store", "record"} => job[k].document # NoDocument
    BY <1>0, ClaimAssumption DEF Job
  <2>4. ASSUME NEW k \in Clerks
        PROVE  Handled(k)'
    BY <1>0, <2>1, <2>2, <2>3, <2>4 DEF Handled
  <2> QED BY <2>1, <2>4 DEF Stored, DocumentsHaveFiles
<1> QED BY <1>1, <1>2, <1>3, <1>4, <1>5, <1>6 DEF Attaching

LEMMA StoredStep == Ledger /\ Stored /\ [Next]_vars => Stored'
<1> SUFFICES ASSUME Ledger, Stored, [Next]_vars PROVE Stored'
  OBVIOUS
<1>0. ClaimTypeOK /\ 0 \in LineOrNull /\ contract.line \in LineOrNull
  BY BookTypes DEF Ledger, Books, LineOrNull, Treaty
<1>1. CASE UNCHANGED <<documents, files, job>>
  BY <1>1 DEF Stored, Handled, DocumentsHaveFiles
<1>2. ASSUME NEW j \in Clerks, BeginBooking(j)
      PROVE  Stored'
  <2>1. PICK q : q = [job[j] EXCEPT !.pc = "book", !.line = contract.line]
    OBVIOUS
  <2>2. q = [pc |-> "book", line |-> contract.line, document |-> NoDocument]
    BY <1>0, <1>2, <2>1 DEF BeginBooking, Doing, ClaimTypeOK, Job
  <2>3. job' = [job EXCEPT ![j] = q] /\ UNCHANGED <<documents, files>>
    BY <1>2, <2>1 DEF BeginBooking, ClaimTypeOK
  <2> QED BY <1>0, <2>2, <2>3, Ends
<1>3. ASSUME NEW j \in Clerks, Done(j), UNCHANGED <<documents, files>>
      PROVE  Stored'
  BY <1>0, <1>3, Ends DEF Done, Off
<1>4. ASSUME NEW j \in Clerks, Booking(j) \/ Attaching(j) \/ Abandon(j)
      PROVE  Stored'
  BY <1>0, <1>2, <1>3, <1>4, AttachingStored DEF Booking, Book, Close, Reopen, Abandon
<1>5. CASE ClaimNext
  BY <1>1, <1>4, <1>5 DEF ClaimNext, Create, EditClaim, Reviewing, Submit, Finalise, Reject
<1> QED BY <1>1, <1>5 DEF Next, vars, claimVars

\* Every document row leads to a stored file, wherever a request fails.
THEOREM FilesBehindDocuments == Spec => []DocumentsHaveFiles
<1>1. Init => Stored
  BY DEF Init, Stored, Handled, DocumentsHaveFiles, Off
<1>2. Stored => DocumentsHaveFiles
  BY DEF Stored
<1> QED BY <1>1, <1>2, StoredStep, LedgerAlways, PTL DEF Spec
================================================================================
