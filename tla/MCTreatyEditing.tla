--------------------------- MODULE MCTreatyEditing ---------------------------
(***************************************************************************)
(* Three screens on one treaty for TLC.                                    *)
(***************************************************************************)
EXTENDS TreatyEditing, TLC

CONSTANTS t1, t2, t3, terms, pricing

MCScreens  == {t1, t2, t3}
MCSections == {terms, pricing}

\* Screens are interchangeable, and so are sections.
MCSymmetry == Permutations(MCScreens) \cup Permutations(MCSections)
=============================================================================
