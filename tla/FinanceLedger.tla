--------------------------- MODULE FinanceLedger ---------------------------
(***************************************************************************)
(* One treaty and its entry in the Finance ledger.                         *)
(*                                                                         *)
(*   server/src/services/financePush.js   the push, inside the SIGN        *)
(*   server/src/routes/finance.js         acknowledge and status moves     *)
(*                                                                         *)
(* Sign and NTU check the status on the pool and write it unconditionally  *)
(* afterwards (ApprovalWorkflow has the whole of it), so two requests that *)
(* sign the same treaty both push, with Finance at work in between.        *)
(***************************************************************************)
EXTENDS Naturals

CONSTANTS
  Users,
  Approvers,  \* users of level 4 or better (requireMinLevel(4))
  Signers,    \* concurrent requests that sign or drop the treaty
  Lines,      \* signed lines a user enters
  InitialTreaties, \* statuses the treaty may start in
  NoUser      \* SQL NULL in a user column

ASSUME UserAssumption == NoUser \notin Users /\ Approvers \subseteq Users
ASSUME LineAssumption == Lines \subseteq Nat \ {0}
ASSUME TreatyAssumption == InitialTreaties \subseteq {"AWAITING_SIGNED_LINE", "SIGNED"}

VARIABLES
  contract,   \* the contract row: status and signed line (0: NULL)
  entry,      \* the finance_treaty_entry row
  signing     \* what each signing request carries

financeVars == <<contract, entry, signing>>

TreatyStatuses == {"AWAITING_SIGNED_LINE", "SIGNED", "NTU", "DELETED"}
EntryStatuses  == {"PENDING_SETUP", "ACTIVE", "SUSPENDED", "CLOSED"}
LineOrNull     == Lines \cup {0}
UserOrNull     == Users \cup {NoUser}

NoEntry == [status |-> "NONE", line |-> 0, by |-> NoUser]
Resting == [pc |-> "idle", line |-> 0]

\* Mutant: a refresh always asks Finance to set the entry up again.
PushedAfresh(line) == [entry EXCEPT !.status = "PENDING_SETUP", !.line = line]

\* Mutant: the entry takes over the status of the treaty.
PushedStatus(line) == [entry EXCEPT !.status = contract.status, !.line = line]

\* The UPSERT of pushContractToFinance: figures are refreshed, the status only
\* of an entry that nobody has acknowledged (acknowledged_at and
\* acknowledged_by_user_id are written together).
Pushed(line) ==
  [entry EXCEPT !.line = line,
                !.status = IF entry.by = NoUser THEN "PENDING_SETUP" ELSE @]

\* FINANCE_TRANSITIONS.
Transitions(from) ==
  CASE from = "ACTIVE"    -> {"SUSPENDED", "CLOSED"}
    [] from = "SUSPENDED" -> {"ACTIVE", "CLOSED"}
    [] OTHER              -> {}

-----------------------------------------------------------------------------
(* The treaty *)

\* assertWorkflowTransition: the prior state is checked on the pool.
BeginTerminal(s, action, line) ==
  /\ signing[s].pc = "idle"
  /\ contract.status = "AWAITING_SIGNED_LINE"
  /\ signing' = [signing EXCEPT ![s] = [pc |-> action, line |-> line]]
  /\ UNCHANGED <<contract, entry>>

\* Mutant: the hand-over to Finance is left to a later request.
SignWithoutPush(s) ==
  /\ signing[s].pc = "SIGN"
  /\ contract.status # "DELETED"
  /\ contract' = [status |-> "SIGNED", line |-> signing[s].line]
  /\ signing' = [signing EXCEPT ![s] = Resting]
  /\ UNCHANGED entry

\* The signing transaction: status, line and push commit together. The push
\* answers 404, and rolls all of it back, when the treaty is gone.
CommitSign(s) ==
  /\ signing[s].pc = "SIGN"
  /\ contract.status # "DELETED"
  /\ contract' = [status |-> "SIGNED", line |-> signing[s].line]
  /\ entry' = Pushed(signing[s].line)
  /\ signing' = [signing EXCEPT ![s] = Resting]

CommitNtu(s) ==
  /\ signing[s].pc = "NTU"
  /\ contract.status # "DELETED"
  /\ contract' = [contract EXCEPT !.status = "NTU"]
  /\ signing' = [signing EXCEPT ![s] = Resting]
  /\ UNCHANGED entry

\* A save of the treaty form writes the signed line in any state.
EditLine(line) ==
  /\ contract.status # "DELETED"
  /\ contract' = [contract EXCEPT !.line = line]
  /\ UNCHANGED <<entry, signing>>

\* DELETE /treaties/:id has no guard on the status; the foreign keys of the
\* entry (and of a claim) refuse it.
DeleteContract ==
  /\ contract.status # "DELETED"
  /\ entry = NoEntry
  /\ contract' = [contract EXCEPT !.status = "DELETED"]
  /\ UNCHANGED <<entry, signing>>

\* Refused, rolled back, or the process died.
FailSigning(s) ==
  /\ signing[s].pc # "idle"
  /\ signing' = [signing EXCEPT ![s] = Resting]
  /\ UNCHANGED <<contract, entry>>

-----------------------------------------------------------------------------
(* Finance *)

\* POST /finance/entries/:id/acknowledge: one conditional UPDATE.
Acknowledge(u) ==
  /\ u \in Approvers
  /\ entry.status = "PENDING_SETUP"
  /\ entry' = [entry EXCEPT !.status = "ACTIVE", !.by = u]
  /\ UNCHANGED <<contract, signing>>

\* POST /finance/entries/:id/status: checked and written under FOR UPDATE.
SetEntryStatus(u, to) ==
  /\ u \in Approvers
  /\ to \in Transitions(entry.status)
  /\ entry' = [entry EXCEPT !.status = to]
  /\ UNCHANGED <<contract, signing>>

-----------------------------------------------------------------------------
\* A treaty may already be signed, by a bind or before migration 129, whose
\* back-fill gave it an entry.
FinanceInit ==
  /\ \E s \in InitialTreaties, line \in LineOrNull :
       /\ contract = [status |-> s, line |-> line]
       /\ entry = IF s = "SIGNED"
                  THEN [NoEntry EXCEPT !.status = "PENDING_SETUP", !.line = line]
                  ELSE NoEntry
  /\ signing = [s \in Signers |-> Resting]

Terminal(s) ==
  \/ \E line \in LineOrNull : BeginTerminal(s, "SIGN", line)
  \/ BeginTerminal(s, "NTU", 0)
  \/ CommitSign(s)
  \/ CommitNtu(s)
  \/ FailSigning(s)

FinanceOffice ==
  \E u \in Users :
    \/ Acknowledge(u)
    \/ \E to \in EntryStatuses : SetEntryStatus(u, to)

FinanceNext ==
  \/ \E s \in Signers : Terminal(s)
  \/ \E line \in Lines : EditLine(line)
  \/ DeleteContract
  \/ FinanceOffice

FinanceSpec == FinanceInit /\ [][FinanceNext]_financeVars
-----------------------------------------------------------------------------
(* Properties *)

FinanceTypeOK ==
  /\ contract \in [status : TreatyStatuses, line : LineOrNull]
  /\ entry \in [status : EntryStatuses \cup {"NONE"}, line : LineOrNull,
                by : UserOrNull]
  /\ signing \in [Signers -> [pc : {"idle", "SIGN", "NTU"}, line : LineOrNull]]

\* "signed => present in finance" (services/financePush.js), in every order of
\* signing, dropping and deleting the treaty.
SignedIsFinanced == contract.status = "SIGNED" => entry.status # "NONE"

\* An entry is past its set-up exactly when an approver is on record for it:
\* no status move and no push makes an active entry nobody answers for.
Attributed ==
  entry.status \in {"ACTIVE", "SUSPENDED", "CLOSED"} <=> entry.by \in Approvers

EntryStep ==
  entry.by # NoUser =>
    /\ entry'.by = entry.by
    /\ entry'.status \in {entry.status} \cup Transitions(entry.status)

\* "Never regress an entry Finance has already acknowledged": a second SIGN of
\* the same treaty, however late, neither reopens a closed entry nor takes the
\* name of the acknowledger away.
NeverRegresses == [][EntryStep]_entry
=============================================================================
