------------------------------ MODULE FourEyes ------------------------------
(***************************************************************************)
(* What every review in this system promises, whatever is under review: a  *)
(* content is filed by its author, nothing touches it until somebody else  *)
(* grants or returns it, and what was granted is changed only by giving    *)
(* the grant up. ClaimLedger is shown to implement it.                     *)
(***************************************************************************)
CONSTANTS
  Reviewers    \* who may grant

VARIABLES
  phase,       \* "open", "filed" or "granted"
  content,     \* what is, or may be, under review
  author,      \* who filed it
  approver     \* who granted it; read only while granted

vars == <<phase, content, author, approver>>

Init == phase = "open"

\* Work on the content gives up a grant.
Amend ==
  /\ phase \in {"open", "granted"}
  /\ phase' = "open"

File ==
  /\ phase = "open"
  /\ phase' = "filed"

Grant ==
  /\ phase = "filed"
  /\ phase' = "granted"
  /\ approver' \in Reviewers \ {author}
  /\ UNCHANGED <<content, author>>

Return ==
  /\ phase = "filed"
  /\ phase' = "open"

Next == Amend \/ File \/ Grant \/ Return

Spec == Init /\ [][Next]_vars
=============================================================================
