----------------------------- MODULE MCFacRisk -----------------------------
(***************************************************************************)
(* A small instance of FacRisk for TLC: two risks, two recommendations for *)
(* one field of the first, a zone that holds one of the risks.             *)
(***************************************************************************)
EXTENDS FacRisk, TLC

CONSTANTS k1, k2, x1, x2, q1, q2, location

MCRisks    == {k1, k2}
MCRecs     == {x1, x2}
MCAbout    == [x \in MCRecs |-> k1]
MCTarget   == [x \in MCRecs |-> location]
MCAppended == [x \in MCRecs |-> 1]
MCRequests == {q1, q2}
MCGrades   == {"B", "J"}
MCSenior   == {"J"}

\* Requests and recommendations are interchangeable.
MCSymmetry == Permutations(MCRequests) \cup Permutations(MCRecs)

\* Two instances in one: the first risk with both recommendations, and two risks
\* without, of which the second competes for the zone and nothing else: it is
\* neither referred nor declined nor deleted.
Focus ==
  \/ risk[k2].status = "ABSENT"
  \/ /\ \A x \in Recs : rec[x] = "NONE"
     /\ risk[k2].status \in {"DRAFT", "QUOTED", "BOUND"}
     /\ risk[k2].grade # "J"
=============================================================================
