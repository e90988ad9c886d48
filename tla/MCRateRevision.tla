--------------------------- MODULE MCRateRevision ---------------------------
(***************************************************************************)
(* Small instances of RateRevision for TLC: the seeded version and two     *)
(* revisions.                                                              *)
(***************************************************************************)
EXTENDS RateRevision, TLC

CONSTANTS u1, u2, v0, v1, v2, a, b, r1, r2

MCUsers    == {u1, u2}
MCVersions == {v0, v1, v2}
MCRows     == {a, b}
MCRequests == {r1, r2}

\* Users, revisions, rows and requests are interchangeable.
MCSymmetry ==
  Permutations(MCUsers) \cup Permutations({v1, v2}) \cup Permutations(MCRows)
    \cup Permutations(MCRequests)
=============================================================================
