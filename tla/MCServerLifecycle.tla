------------------------- MODULE MCServerLifecycle -------------------------
(***************************************************************************)
(* Two server processes for TLC.                                           *)
(***************************************************************************)
EXTENDS ServerLifecycle

CONSTANTS p, q

MCWorkers == {p, q}
=============================================================================
