--------------------------- MODULE GraphTopology ---------------------------
(***************************************************************************)
(* A compiled graph (graph/executor.go, NewExecutor): the nodes, the edges *)
(* in the order AddEdge appended them, the entry and the finish node, and  *)
(* the per-node facts that nodeInfo precomputes for the scheduler.         *)
(*                                                                         *)
(* An edge is a number; a smaller number was added earlier.  Two edges may *)
(* have the same ends: AddEdge does not merge duplicates, and each of them *)
(* counts as a dependency of its target.                                   *)
(***************************************************************************)
EXTENDS Naturals, FiniteSets

CONSTANTS
  Nodes,        \* names given to AddNode
  Edges,        \* one number per AddEdge call
  Src, Dst,     \* the ends of each edge
  Conditional,  \* nodes whose outgoing edges carry an EdgeCondition
  Entry,        \* SetEntryPoint
  Finish        \* SetFinishPoint

Out(n) == {e \in Edges : Src[e] = n}
In(n)  == {e \in Edges : Dst[e] = n}

(***************************************************************************)
(* No directed cycle: every non-empty set of nodes has a member without a  *)
(* successor in the set and one without a predecessor in it.  In a finite  *)
(* graph the two halves say the same.                                      *)
(***************************************************************************)
Acyclic ==
  \A S \in (SUBSET Nodes) \ {{}} :
     /\ \E n \in S : \A e \in Out(n) : Dst[e] \notin S
     /\ \E n \in S : \A e \in In(n)  : Src[e] \notin S

(***************************************************************************)
(* What Compile guarantees of the graph it hands to NewExecutor, as far as *)
(* the scheduler relies on it.  A node's edges are all conditional or all  *)
(* unconditional (mixed edges are rejected), so the condition is a fact    *)
(* about the node.  Nothing says that every node can be reached from the   *)
(* entry: Compile does not check it.                                       *)
(***************************************************************************)
WellFormed ==
  /\ IsFiniteSet(Nodes)
  /\ Edges \subseteq Nat /\ IsFiniteSet(Edges)
  /\ Src \in [Edges -> Nodes] /\ Dst \in [Edges -> Nodes]
  /\ Conditional \subseteq Nodes
  /\ Entry \in Nodes /\ Finish \in Nodes
  /\ Acyclic
  /\ \A n \in Nodes : (Out(n) = {}) <=> (n = Finish)

ASSUME TopologyAssumption == WellFormed

\* nodeInfo.dependencies: the number of edges into n, duplicates included.
dependencies(n) == Cardinality(In(n))

\* The nodes that a run starting at the entry can reach.
Reachable ==
  {n \in Nodes : \A S \in SUBSET Nodes :
                    /\ Entry \in S
                    /\ \A e \in Edges : Src[e] \in S => Dst[e] \in S
                    => n \in S}
=============================================================================
