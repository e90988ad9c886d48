------------------------ MODULE MCApprovalWorkflow ------------------------
(***************************************************************************)
(* Small instances of ApprovalWorkflow for TLC: an underwriter who owns    *)
(* the treaty, two treaty directors, and a third approver who is a chief   *)
(* underwriter or one more director.                                       *)
(***************************************************************************)
EXTENDS ApprovalWorkflow, TLC

CONSTANTS uw, td1, td2, third, r1, r2

MCUsers == {uw, td1, td2, third}
MCPair  == {uw, td1, td2}

\* The third is a director in the deviation ArbiterIsThirdParty.
MCChief    == uw :> 4 @@ td1 :> 3 @@ td2 :> 3 @@ third :> 2
MCDirector == uw :> 4 @@ td1 :> 3 @@ td2 :> 3 @@ third :> 3
MCPairLevel == uw :> 4 @@ td1 :> 3 @@ td2 :> 3

\* Who may hold the treaty's assignment, and with it the edit lock.
MCAssigned   == {uw}
MCReassigned == {uw, td1}

MCOneRouting  == {{td1, td2, third}}
MCPairRouting == {{td1, td2}}
MCTwoRoutings == {{td1, td2, third}, {td1, td2}}

MCOneRequest == {r1}
MCRaces      == {r1, r2}

\* Header payloads of a treaty save: a form with an old status, one that asks
\* for a state of the engine, a commercial label, a signed line.
MCHeader(uws, status, line) == [uw |-> uws, status |-> status, line |-> line]
MCNoHeaders    == {}
MCStaleHeaders == {MCHeader("NONE", "DRAFT", 0)}
MCFormHeaders  == MCStaleHeaders \cup {MCHeader("AWAITING_SIGNED_LINE", "NONE", 0)}
MCLabelHeaders == {MCHeader("NONE", "OFFERED", 0)}
\* Of the deviation SignedWithinWritten (README, section 8).
MCLineHeaders  == {MCHeader("NONE", "NONE", 20)}

\* Requests are interchangeable.
MCRequestSymmetry == Permutations(MCRaces)
==========================================================================
