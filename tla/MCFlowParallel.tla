--------------------------- MODULE MCFlowParallel ---------------------------
(***************************************************************************)
(* An instance of FlowParallel: two agents that answer at once or call a   *)
(* tool first.                                                             *)
(***************************************************************************)
EXTENDS FlowParallel

MCMaxIterations == [a \in Agents |-> 2]
MCAttempts == [a \in Agents |-> 1]
=============================================================================
