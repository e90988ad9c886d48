-------------------------- MODULE MCQuoteLifecycle --------------------------
(***************************************************************************)
(* Small instances of QuoteLifecycle for TLC: an underwriter without       *)
(* approval authority, a treaty manager and a chief underwriter, and the   *)
(* first two or three versions of a quote reference.                       *)
(***************************************************************************)
EXTENDS QuoteLifecycle, TLC

CONSTANTS uw, tm, cu, q1, q2, q3, r1, r2

MCUsers == {uw, tm, cu}
MCPair  == {tm, cu}
MCLevel == uw :> 5 @@ tm :> 4 @@ cu :> 2
MCPairLevel == tm :> 4 @@ cu :> 2

MCOneVersion    == {q1}
MCTwoVersions   == {q1, q2}
MCThreeVersions == {q1, q2, q3}

MCOneRequest == {r1}
MCRaces      == {r1, r2}

\* Requests are interchangeable.
MCRequestSymmetry == Permutations(MCRaces)
=============================================================================
