----------------------------- MODULE MCFlowLoop -----------------------------
(***************************************************************************)
(* An instance of FlowLoop: a drafter without context that may use the     *)
(* results of its tools, and a reviewer with context and a retry.          *)
(***************************************************************************)
EXTENDS FlowLoop, TLC

CONSTANTS drafter, reviewer

MCOrder == <<drafter, reviewer>>

MCMaxIterations == (drafter :> 2) @@ (reviewer :> 1)
MCAttempts == (drafter :> 1) @@ (reviewer :> 2)
=============================================================================
