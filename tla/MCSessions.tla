----------------------------- MODULE MCSessions -----------------------------
(***************************************************************************)
(* Small instances of Sessions for TLC.                                    *)
(***************************************************************************)
EXTENDS Sessions

CONSTANTS a, b, c, r1, r2, uw, cu

MCSessionIds == {a, b, c}
MCRequests   == {r1, r2}
MCRoles      == {uw, cu}
=============================================================================
