---------------------------- MODULE MCGraphTask ----------------------------
(***************************************************************************)
(* Graphs for the model checker.  Src and Dst list the ends of the edges   *)
(* in the order of the AddEdge calls.                                      *)
(***************************************************************************)
EXTENDS GraphTask

(***************************************************************************)
(* A router with two branches of unequal length that share a join, and a   *)
(* second router on one of them:                                           *)
(*                                                                         *)
(*     start -?-> left  -?-> join  --> finish                              *)
(*     start -?-> right --> join          ^                                *)
(*                left  -?----------------|                                *)
(***************************************************************************)
RouterNodes == {"start", "left", "right", "join", "finish"}
RouterEdges == 1 .. 6
RouterSrc == <<"start", "start", "left", "left", "right", "join">>
RouterDst == <<"left", "right", "join", "finish", "join", "finish">>
RouterConditional == {"start", "left"}

(***************************************************************************)
(* An unconditional fan-out with a shortcut and a doubled edge.            *)
(***************************************************************************)
FanNodes == {"start", "a", "b", "join"}
FanEdges == 1 .. 6
FanSrc == <<"start", "start", "start", "a", "a", "b">>
FanDst == <<"a", "b", "join", "join", "join", "join">>
=============================================================================
