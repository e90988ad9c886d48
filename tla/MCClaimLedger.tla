--------------------------- MODULE MCClaimLedger ---------------------------
(***************************************************************************)
(* Small instances of ClaimLedger for TLC: an underwriter and an approver. *)
(***************************************************************************)
EXTENDS ClaimLedger, TLC

CONSTANTS uw, tm, s1, s2, j1, j2, d, h1, h2

MCUsers     == {uw, tm}
MCApprovers == {tm}

MCSigners   == {s1, s2}
MCClerks    == {j1, j2}
MCAmounts   == {0, 1}
MCHeaders   == {h1, h2}
MCDocuments == {d}

\* A treaty before its signature, and one that is signed.
MCTreaties == {"AWAITING_SIGNED_LINE", "SIGNED"}

\* Requests are interchangeable.
MCSymmetry == Permutations(MCClerks) \cup Permutations(MCSigners)
=============================================================================
