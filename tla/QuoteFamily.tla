----------------------------- MODULE QuoteFamily -----------------------------
(***************************************************************************)
(* What migration 044_quote_lifecycle.sql and lib/statusMachine.js promise *)
(* of a quote reference: a chain of versions of which exactly one is live. *)
(* The live version moves along the status machine; an amendment freezes   *)
(* it and opens the next one as a draft. QuoteLifecycle is compared with   *)
(* this specification.                                                     *)
(***************************************************************************)
EXTENDS Naturals

VARIABLES
  versions,   \* how many versions the quote reference has
  live        \* the status of the one version that is not SUPERSEDED

SM == INSTANCE StatusMachine WITH status <- live

\* amendableStatuses of POST /quotes/:id/amend.
Amendable == {"APPROVED", "AWAITING_SIGNED_LINE", "SIGNED", "AWAITING_APPROVAL",
              "DRAFT"}

\* A created quote is a draft; migration 157 left the bound ones SIGNED.
Init == versions = 1 /\ live \in {"DRAFT", "SIGNED"}

\* Quotes are never signed in this build (mark-signed answers 410).
Move ==
  /\ \E to \in SM!UwStatuses \ {"SIGNED"} : SM!IsLegal(live, to) /\ live' = to
  /\ UNCHANGED versions

Amend ==
  /\ live \in Amendable
  /\ live' = "DRAFT"
  /\ versions' = versions + 1

Next == Move \/ Amend

Spec == Init /\ [][Next]_<<versions, live>>
=============================================================================
