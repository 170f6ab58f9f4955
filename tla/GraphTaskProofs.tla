-------------------------- MODULE GraphTaskProofs --------------------------
(***************************************************************************)
(* Proofs about GraphTask, for every graph that Compile accepts.           *)
(***************************************************************************)
EXTENDS GraphTask, FiniteSetTheorems, TLAPS

-----------------------------------------------------------------------------
(***************************************************************************)
(* The graph.                                                              *)
(***************************************************************************)
USE DEF WellFormed

\* The edges into a node, and any selection of them, can be counted.
LEMMA InFinite ==
  ASSUME NEW n, NEW S, S \subseteq In(n)
  PROVE  IsFiniteSet(S) /\ Cardinality(S) \in Nat
  <1>1. In(n) \subseteq Edges
    BY DEF In
  <1>2. IsFiniteSet(S)
    BY <1>1, TopologyAssumption, FS_Subset
  <1> QED
    BY <1>2, FS_CardinalityType

\* What one decrement of remainingDeps counts: a finite set without one of its
\* elements is smaller by one.
LEMMA OneFewer ==
  ASSUME NEW S, NEW x \in S, IsFiniteSet(S)
  PROVE  Cardinality(S \ {x}) = Cardinality(S) - 1
  BY FS_RemoveElement

\* Every successor of a reachable node is reachable, and so is the entry.
LEMMA ReachableClosed ==
  /\ Reachable \subseteq Nodes
  /\ Entry \in Reachable
  /\ \A e \in Edges : Src[e] \in Reachable => Dst[e] \in Reachable
  BY TopologyAssumption DEF Reachable

\* No edge leads from a reachable node back to the entry.
LEMMA NoEdgeToEntry ==
  \A e \in Edges : Src[e] \in Reachable => Dst[e] # Entry
  <1>1. PICK r \in Reachable : \A e \in In(r) : Src[e] \notin Reachable
    <2>1. Reachable \in (SUBSET Nodes) \ {{}}
      BY ReachableClosed
    <2> QED
      BY <2>1, TopologyAssumption DEF Acyclic
  <1>2. r = Entry
    <2> SUFFICES ASSUME r # Entry PROVE FALSE
      OBVIOUS
    <2> DEFINE S == Reachable \ {r}
    <2>1. S \in SUBSET Nodes /\ Entry \in S
      BY ReachableClosed
    <2>2. ASSUME NEW e \in Edges, Src[e] \in S
          PROVE  Dst[e] \in S
      BY <2>2, <1>1, ReachableClosed DEF In
    <2>3. r \in S
      BY <2>1, <2>2 DEF Reachable
    <2> QED
      BY <2>3
  <1> QED
    BY <1>1, <1>2 DEF In

-----------------------------------------------------------------------------
(***************************************************************************)
(* Types.                                                                  *)
(***************************************************************************)

\* What rebuildRemainingLocked and rebuildReadyLocked compute is well typed.
LEMMA RebuiltType ==
  ASSUME NEW V, NEW R
  PROVE  /\ RebuiltRemaining(V) \in [Nodes -> Nat]
         /\ RebuiltReady(V, R) \subseteq Nodes
         /\ \A q \in Orders(RebuiltReady(V, R)) :
               /\ q \in Seq(Nodes)
               /\ {q[i] : i \in 1 .. Len(q)} = RebuiltReady(V, R)
               /\ \A i, j \in 1 .. Len(q) : q[i] = q[j] => i = j
  <1> DEFINE S == RebuiltReady(V, R)
  <1>1. RebuiltRemaining(V) \in [Nodes -> Nat]
    <2>1. \A n \in Nodes : Cardinality({e \in In(n) : Src[e] \notin V}) \in Nat
      BY InFinite
    <2> QED
      BY <2>1 DEF RebuiltRemaining
  <1>2. S \subseteq Nodes
    BY DEF RebuiltReady
  <1>3. IsFiniteSet(S) /\ Cardinality(S) \in Nat
    BY <1>2, TopologyAssumption, FS_Subset, FS_CardinalityType
  <1>4. ASSUME NEW q \in Orders(S)
        PROVE  /\ q \in Seq(Nodes)
               /\ {q[i] : i \in 1 .. Len(q)} = S
               /\ \A i, j \in 1 .. Len(q) : q[i] = q[j] => i = j
    <2> DEFINE k == Cardinality(S)
    <2>1. q \in [1 .. k -> S] /\ {q[i] : i \in DOMAIN q} = S
      BY DEF Orders
    <2>2. q \in Seq(Nodes) /\ Len(q) = k
      BY <1>2, <1>3, <2>1
    <2>3. q \in Surjection(1 .. k, S)
      BY <2>1 DEF Surjection
    <2>4. IsFiniteSet(1 .. k) /\ Cardinality(1 .. k) = k
      BY <1>3, FS_Interval
    <2>5. q \in Injection(1 .. k, S)
      BY <2>3, <2>4, FS_SurjSameCardinalityImpliesInj
    <2> HIDE DEF k
    <2> QED
      BY <2>1, <2>2, <2>5 DEF Injection, IsInjective
  <1> QED
    BY <1>1, <1>2, <1>4

\* newTask and the zero values satisfy the types.
LEMMA InitType == Init => TypeOK
  <1> SUFFICES ASSUME Init PROVE TypeOK
    OBVIOUS
  <1> USE TaskAssumption DEF Init
  <1>1. TaskTypes
    BY DEF TaskTypes
  <1>2. FlagTypes
    BY DEF FlagTypes, Errors, MainPc
  <1>3. LocalTypes
    BY DEF LocalTypes, NodePc
  <1> QED
    BY <1>1, <1>2, <1>3 DEF TypeOK

USE DEF Errors, MainPc, NodePc

\* Every step of the scheduling loop keeps the types.
LEMMA MainType ==
  ASSUME TypeOK, Execute \/ Resume \/ Crash \/ Main \/ Done
  PROVE  TypeOK'
  <1> USE TopologyAssumption, TaskAssumption DEF TypeOK, TaskTypes, FlagTypes, LocalTypes
  <1>1. CASE Execute
    <2>1. \A n \in Nodes : dependencies(n) \in Nat
      BY InFinite DEF dependencies
    <2>2. TaskTypes'
      BY <1>1, <2>1 DEF Execute
    <2>3. FlagTypes'
      BY <1>1 DEF Execute
    <2>4. LocalTypes'
      BY <1>1 DEF Execute, nodeVars
    <2> QED
      BY <2>2, <2>3, <2>4
  <1>2. CASE Resume
    <2>1. PICK c \in store :
            /\ received' = c.received
            /\ visited' = c.visited
            /\ state' = c.state
            /\ remaining' = RebuiltRemaining(c.visited)
            /\ ready' \in Orders(RebuiltReady(c.visited, c.received))
            /\ finished' = (Finish \in c.visited)
      BY <1>2 DEF Resume
    <2>2. c \in Checkpoint
      OBVIOUS
    <2>3. /\ received' \in [Nodes -> Nat]
          /\ visited' \subseteq Nodes /\ state' \subseteq Nodes
      BY <2>1, <2>2 DEF Checkpoint
    <2>4. remaining' \in [Nodes -> Nat] /\ ready' \in Seq(Nodes)
      BY <2>1, RebuiltType
    <2>5. FlagTypes'
      <3>1. finished' \in BOOLEAN
        BY <2>1
      <3> QED
        BY <1>2, <3>1 DEF Resume
    <2>6. LocalTypes'
      BY <1>2 DEF Resume, nodeVars
    <2> QED
      BY <1>2, <2>3, <2>4, <2>5, <2>6 DEF Resume
  <1>3. CASE Crash
    <2>1. TaskTypes'
      BY <1>3 DEF Crash
    <2>2. FlagTypes'
      BY <1>3 DEF Crash
    <2>3. LocalTypes'
      BY <1>3 DEF Crash
    <2> QED
      BY <2>1, <2>2, <2>3
  <1>4. CASE EmitCheckpoint
    <2>1. saving' \subseteq Checkpoint
      BY <1>4 DEF EmitCheckpoint, Checkpoint
    <2> QED
      BY <1>4, <2>1 DEF EmitCheckpoint, queueVars, nodeVars
  <1>5. CASE SaveCheckpoint
    BY <1>5 DEF SaveCheckpoint, queueVars, nodeVars
  <1>6. CASE CheckTermination
    BY <1>6 DEF CheckTermination, Verdict, queueVars, nodeVars
  <1>7. CASE Return
    BY <1>7 DEF Return, queueVars, nodeVars
  <1>8. CASE ScheduleNone
    BY <1>8 DEF ScheduleNone, queueVars, nodeVars
  <1>9. CASE ScheduleNext
    <2>1. TaskTypes' /\ Head(ready) \in Nodes
      BY <1>9 DEF ScheduleNext
    <2>2. FlagTypes'
      BY <1>9 DEF ScheduleNext
    <2>3. LocalTypes'
      <3> DEFINE h == Head(ready)
      <3>1. own' = own /\ skips' = skips /\ matched' = matched
        BY <1>9 DEF ScheduleNext
      <3>2. \/ pc' = pc /\ input' = input
            \/ /\ pc' = [pc EXCEPT ![h] = "start"]
               /\ input' = [input EXCEPT ![h] = state]
        BY <1>9, Zenon DEF ScheduleNext
      <3>3. h \in Nodes
        BY <2>1
      <3> HIDE DEF h
      <3> QED
        BY <3>1, <3>2, <3>3
    <2> QED
      BY <2>1, <2>2, <2>3
  <1>10. CASE Done
    BY <1>10 DEF Done, vars
  <1> QED
    BY <1>1, <1>2, <1>3, <1>4, <1>5, <1>6, <1>7, <1>8, <1>9, <1>10 DEF Main

\* satisfy keeps the types of the queue, the counts and the skips.
LEMMA SatisfyType ==
  ASSUME TypeOK, NEW n \in Nodes, NEW e \in Edges, NEW a \in BOOLEAN,
         NEW L \in SUBSET Edges, Satisfy(n, e, a, L)
  PROVE  /\ remaining' \in [Nodes -> Nat] /\ received' \in [Nodes -> Nat]
         /\ ready' \in Seq(Nodes) /\ main' \in MainPc
         /\ visited' \subseteq Nodes /\ progress' \in BOOLEAN
         /\ skips' \in [Nodes -> SUBSET Edges]
  <1>1. Dst[e] \in Nodes
    BY TopologyAssumption
  <1>2. received[Dst[e]] + (IF a THEN 1 ELSE 0) \in Nat
    BY <1>1 DEF TypeOK, TaskTypes
  <1>3. Decrement(remaining[Dst[e]]) \in Nat
    BY <1>1 DEF TypeOK, TaskTypes, Decrement
  <1>4. Out(Dst[e]) \subseteq Edges
    BY DEF Out
  <1>5. remaining' \in [Nodes -> Nat] /\ received' \in [Nodes -> Nat]
    BY <1>1, <1>2, <1>3 DEF TypeOK, TaskTypes, Satisfy
  <1>6. ready' \in Seq(Nodes)
    BY <1>1 DEF TypeOK, TaskTypes, Satisfy
  <1>7. main' \in MainPc
    BY DEF TypeOK, FlagTypes, Satisfy, Wake
  <1>8. visited' \subseteq Nodes /\ progress' \in BOOLEAN
    BY <1>1 DEF TypeOK, TaskTypes, FlagTypes, Satisfy
  <1>9. skips' \in [Nodes -> SUBSET Edges]
    BY <1>4 DEF TypeOK, LocalTypes, Satisfy, SkippedEdges
  <1> QED
    BY <1>5, <1>6, <1>7, <1>8, <1>9

\* Every step of a node's goroutine keeps the types.
LEMMA NodeType ==
  ASSUME TypeOK, NEW n \in Nodes, Node(n)
  PROVE  TypeOK'
  <1> USE DEF TypeOK, TaskTypes, FlagTypes, LocalTypes
  <1>1. CASE Begin(n)
    BY <1>1 DEF Begin, queueVars, mainVars
  <1>2. CASE HandlerError(n)
    BY <1>2 DEF HandlerError, Fail, Wake, queueVars
  <1>3. CASE Complete(n)
    <2>1. Out(n) \subseteq Edges
      BY DEF Out
    <2>2. TaskTypes'
      BY <1>3 DEF Complete, queueVars
    <2>3. FlagTypes'
      BY <1>3 DEF Complete, Wake
    <2>4. LocalTypes'
      <3>1. pc' \in [Nodes -> NodePc]
        BY <1>3 DEF Complete
      <3>2. own' \in [Nodes -> SUBSET Edges]
        <4>1. own' = own \/ own' = [own EXCEPT ![n] = Out(n)]
          BY <1>3 DEF Complete
        <4>2. own \in [Nodes -> SUBSET Edges]
          OBVIOUS
        <4> HIDE DEF TypeOK
        <4> QED
          BY <2>1, <4>1, <4>2
      <3> QED
        BY <1>3, <3>1, <3>2 DEF Complete
    <2> HIDE DEF TaskTypes, FlagTypes, LocalTypes
    <2> QED
      BY <2>2, <2>3, <2>4
  <1>4. CASE TakeEdge(n)
    <2>1. PICK e \in own[n], a \in BOOLEAN :
            /\ own' = [own EXCEPT ![n] = @ \ {e}]
            /\ matched' = IF a THEN matched \cup {n} ELSE matched
            /\ Satisfy(n, e, a, {})
      BY <1>4 DEF TakeEdge
    <2>2. e \in Edges /\ own' \in [Nodes -> SUBSET Edges] /\ matched' \subseteq Nodes
      BY <2>1
    <2>3. /\ remaining' \in [Nodes -> Nat] /\ received' \in [Nodes -> Nat]
          /\ ready' \in Seq(Nodes) /\ main' \in MainPc
          /\ visited' \subseteq Nodes /\ progress' \in BOOLEAN
          /\ skips' \in [Nodes -> SUBSET Edges]
      BY <2>1, <2>2, SatisfyType
    <2> QED
      BY <1>4, <2>2, <2>3 DEF TakeEdge
  <1>5. CASE PropagateSkip(n)
    <2>1. PICK e \in skips[n] : Satisfy(n, e, FALSE, skips[n] \ {e})
      BY <1>5 DEF PropagateSkip
    <2>2. e \in Edges /\ skips[n] \ {e} \in SUBSET Edges
      OBVIOUS
    <2>3. /\ remaining' \in [Nodes -> Nat] /\ received' \in [Nodes -> Nat]
          /\ ready' \in Seq(Nodes) /\ main' \in MainPc
          /\ visited' \subseteq Nodes /\ progress' \in BOOLEAN
          /\ skips' \in [Nodes -> SUBSET Edges]
      BY <2>1, <2>2, SatisfyType
    <2> QED
      BY <1>5, <2>2, <2>3 DEF PropagateSkip
  <1>6. CASE EdgesDone(n)
    BY <1>6 DEF EdgesDone, Fail, Wake, queueVars
  <1>7. CASE NodeDone(n)
    BY <1>7 DEF NodeDone, Wake, queueVars
  <1> QED
    BY <1>1, <1>2, <1>3, <1>4, <1>5, <1>6, <1>7 DEF Node

(***************************************************************************)
(* Type correctness: the fields of the task, the checkpoints and the       *)
(* locals of the goroutines keep their types in every execution.           *)
(***************************************************************************)
THEOREM TypeCorrect == Spec => []TypeOK
  <1>1. TypeOK /\ [Next]_vars => TypeOK'
    <2> SUFFICES ASSUME TypeOK, [Next]_vars PROVE TypeOK'
      OBVIOUS
    <2>1. CASE UNCHANGED vars
      BY <2>1 DEF vars, TypeOK, TaskTypes, FlagTypes, LocalTypes
    <2> QED
      BY <2>1, MainType, NodeType DEF Next
  <1> QED
    BY InitType, <1>1, PTL DEF Spec

-----------------------------------------------------------------------------
(***************************************************************************)
(* The inductive invariant.  Its heart is Counts: remaining is the number  *)
(* of in-edges that are still pending, an edge being pending from the      *)
(* start until satisfy handles it, exactly once, out of the hands of one   *)
(* goroutine.                                                              *)
(***************************************************************************)
PendingEdges == {e \in Edges : Pending(e)}

\* Only a goroutine between executeNode and nodeDone has edges in hand: its own
\* or those of a node that it skipped, which no other goroutine has.
HandsOK ==
  /\ \A m \in Nodes : pc[m] # "edges" => own[m] = {} /\ skips[m] = {}
  /\ \A m \in Nodes : pc[m] = "edges" => m \in state
  /\ \A m \in Nodes : own[m] \subseteq Out(m)
  /\ \A m \in Nodes : \A e \in skips[m] : Src[e] \in visited \ state
  /\ \A m1, m2 \in Nodes : \A e \in skips[m1] : e \in skips[m2] => m1 = m2

Counts ==
  main # "off" =>
    \A n \in Nodes \ visited : remaining[n] = Cardinality(In(n) \cap PendingEdges)

\* A node that was made ready, until nodeDone.
ScheduledOK ==
  \A n \in Nodes \ {Entry} :
    n \in Queued \/ pc[n] # "idle" => remaining[n] = 0 /\ received[n] > 0

\* Progress spreads from the entry along edges, and skips have a reason.  V, S
\* and R are the visited nodes, the outputs and the received counts; P says of
\* which edges they are not yet settled.
Consistent(V, S, R, P) ==
  /\ S \subseteq V /\ V \subseteq Reachable
  /\ V # {} => Entry \in S
  /\ \A n \in Nodes \ {Entry} : R[n] > 0 => \E e \in In(n) : Src[e] \in S
  /\ \A n \in V \ {Entry} : In(n) \cap P = {}
  /\ \A n \in V \ S : \A e \in In(n) : Src[e] \in S => Src[e] \in Conditional
  /\ \A n \in Nodes \ V : \A e \in In(n) \ P :
        Src[e] \in S \ Conditional => R[n] > 0

InputOK ==
  \A n \in Nodes \ {Entry} : Executing(n) =>
    \A e \in In(n) : Src[e] \in state => Src[e] \in input[n]

Unvisited(V) == {e \in Edges : Src[e] \notin V}

SavedOK ==
  \A c \in store \cup saving :
    /\ c.visited # {}
    /\ Consistent(c.visited, c.state, c.received, Unvisited(c.visited))

MainOK ==
  /\ Idle \/ main = "save" => inFlight = {}
  /\ main = "off" => ready = <<>> /\ visited = {}
  /\ progress => visited # {}

NodesInv ==
  /\ HandsOK
  /\ Counts
  /\ ScheduledOK
  /\ AtMostOnce
  /\ Consistent(visited, state, received, PendingEdges)
  /\ InputOK

IInv == NodesInv /\ MainOK /\ SavedOK

\* The parts of NodesInv that steps which leave progress alone keep.
LEMMA PendingFrame ==
  ASSUME UNCHANGED <<visited, own, skips>>
  PROVE  PendingEdges' = PendingEdges
  BY DEF PendingEdges, Pending

\* Steps that touch neither the task's progress nor a goroutine.
LEMMA NodesFrame ==
  ASSUME NodesInv, UNCHANGED <<queueVars, visited, state, nodeVars>>,
         main = "off" => main' = "off"
  PROVE  NodesInv'
  <1>1. PendingEdges' = PendingEdges
    BY PendingFrame DEF nodeVars
  <1> USE DEF queueVars, nodeVars
  <1>2. HandsOK'
    BY DEF NodesInv, HandsOK
  <1>3. Counts' /\ ScheduledOK'
    BY <1>1 DEF NodesInv, Counts, ScheduledOK, Queued
  <1>4. AtMostOnce'
    BY DEF NodesInv, AtMostOnce, Queued, Scheduled, Executing
  <1>5. Consistent(visited, state, received, PendingEdges)'
    BY <1>1 DEF NodesInv, Consistent
  <1>6. InputOK'
    BY DEF NodesInv, InputOK, Executing
  <1> QED
    BY <1>2, <1>3, <1>4, <1>5, <1>6 DEF NodesInv

\* With no edge in hand, an edge is pending as long as its source is unvisited.
LEMMA PendingIfIdle ==
  ASSUME HandsOK, inFlight = {}
  PROVE  PendingEdges = Unvisited(visited)
  BY DEF HandsOK, inFlight, PendingEdges, Pending, Unvisited

\* Before the first call nothing is visited, queued or in flight.
LEMMA InitInv == Init => IInv
  <1> SUFFICES ASSUME Init PROVE IInv
    OBVIOUS
  <1>1. NodesInv
    <2>1. Queued = {}
      BY DEF Init, Queued
    <2>2. AtMostOnce
      BY <2>1 DEF Init, AtMostOnce, Scheduled, Executing
    <2>3. HandsOK
      BY DEF Init, HandsOK
    <2>4. Counts /\ ScheduledOK /\ InputOK
      BY <2>1 DEF Init, Counts, ScheduledOK, InputOK, Executing
    <2>5. Consistent(visited, state, received, PendingEdges)
      <3>1. PendingEdges = Edges
        BY DEF Init, PendingEdges, Pending
      <3> QED
        BY <3>1 DEF Init, Consistent, In
    <2> QED
      BY <2>2, <2>3, <2>4, <2>5 DEF NodesInv
  <1>2. MainOK /\ SavedOK
    BY DEF Init, MainOK, SavedOK, inFlight
  <1> QED
    BY <1>1, <1>2 DEF IInv

\* newTask and prepareEntry establish the invariant: only the entry is queued.
LEMMA ExecuteInv ==
  ASSUME TypeOK, IInv, Execute
  PROVE  IInv'
  <1>1. inFlight = {} /\ inFlight' = {}
    BY DEF IInv, MainOK, Execute, nodeVars, inFlight
  <1>2. HandsOK'
    BY <1>1 DEF IInv, NodesInv, HandsOK, Execute, nodeVars, inFlight
  <1>3. PendingEdges' = Edges
    <2>1. PendingEdges' = Unvisited(visited')
      BY <1>1, <1>2 DEF HandsOK, inFlight, PendingEdges, Pending, Unvisited
    <2> QED
      BY <2>1 DEF Execute, Unvisited
  <1>4. Queued' = {Entry}
    BY DEF Execute, Queued
  <1>5. AtMostOnce'
    <2>1. Len(ready') = 1 /\ ready'[1] = Entry
      BY DEF Execute
    <2>2. \A n \in Nodes : pc'[n] = "idle"
      BY <1>1 DEF inFlight
    <2>3. \A i, j \in 1 .. Len(ready') : i = j
      BY <2>1
    <2>4. visited' = {}
      BY DEF Execute
    <2> QED
      BY <1>4, <2>2, <2>3, <2>4, TopologyAssumption DEF AtMostOnce
  <1>6. Counts'
    <2>1. \A n \in Nodes : In(n) \cap Edges = In(n)
      BY DEF In
    <2> QED
      BY <1>3, <2>1 DEF Execute, Counts, dependencies
  <1>7. ScheduledOK' /\ InputOK'
    BY <1>1, <1>4 DEF ScheduledOK, InputOK, Executing, inFlight
  <1>8. Consistent(visited, state, received, PendingEdges)'
    BY <1>3 DEF Execute, Consistent, In
  <1>9. MainOK'
    BY <1>1 DEF Execute, MainOK, Idle
  <1>10. SavedOK'
    BY DEF Execute, IInv, SavedOK
  <1> QED
    BY <1>2, <1>5, <1>6, <1>7, <1>8, <1>9, <1>10 DEF IInv, NodesInv

\* restoreCheckpoint re-establishes it from a saved checkpoint.
LEMMA ResumeInv ==
  ASSUME TypeOK, IInv, Resume
  PROVE  IInv'
  <1>1. inFlight = {} /\ inFlight' = {}
    BY DEF IInv, MainOK, Resume, nodeVars, inFlight
  <1>2. HandsOK'
    BY <1>1 DEF IInv, NodesInv, HandsOK, Resume, nodeVars, inFlight
  <1>3. PICK c \in store :
            /\ received' = c.received
            /\ visited' = c.visited
            /\ state' = c.state
            /\ remaining' = RebuiltRemaining(c.visited)
            /\ ready' \in Orders(RebuiltReady(c.visited, c.received))
    BY DEF Resume
  <1>4. /\ c.visited # {}
        /\ Consistent(c.visited, c.state, c.received, Unvisited(c.visited))
    BY DEF IInv, SavedOK
  <1>5. PendingEdges' = Unvisited(c.visited)
    BY <1>1, <1>2, <1>3 DEF HandsOK, inFlight, PendingEdges, Pending, Unvisited
  <1>6. Consistent(visited, state, received, PendingEdges)'
    BY <1>3, <1>4, <1>5 DEF Consistent
  <1>7. /\ Queued' = RebuiltReady(c.visited, c.received)
        /\ \A i, j \in 1 .. Len(ready') : ready'[i] = ready'[j] => i = j
    BY <1>3, RebuiltType DEF Queued
  <1>8. AtMostOnce'
    BY <1>1, <1>3, <1>7 DEF AtMostOnce, Scheduled, Executing, inFlight, RebuiltReady
  <1>9. Counts'
    <2>1. \A n \in Nodes :
            {e \in In(n) : Src[e] \notin c.visited} = In(n) \cap Unvisited(c.visited)
      BY DEF In, Unvisited
    <2> QED
      BY <1>3, <1>5, <2>1 DEF Counts, RebuiltRemaining
  <1>10. ScheduledOK' /\ InputOK'
    BY <1>1, <1>3, <1>7 DEF ScheduledOK, InputOK, Executing, inFlight, RebuiltReady
  <1>11. MainOK'
    BY <1>1 DEF Resume, MainOK, Idle
  <1>12. SavedOK'
    BY DEF Resume, IInv, SavedOK
  <1> QED
    BY <1>2, <1>6, <1>8, <1>9, <1>10, <1>11, <1>12 DEF IInv, NodesInv

\* A crash keeps it: nothing but the saved checkpoint is left.
LEMMA CrashInv ==
  ASSUME IInv, Crash
  PROVE  IInv'
  <1>1. NodesInv'
    <2>1. Queued' = {}
      BY DEF Crash, Queued
    <2>2. AtMostOnce'
      BY <2>1 DEF Crash, AtMostOnce, Scheduled, Executing
    <2>3. HandsOK'
      BY DEF Crash, HandsOK
    <2>4. Counts' /\ ScheduledOK' /\ InputOK'
      BY <2>1 DEF Crash, Counts, ScheduledOK, InputOK, Executing
    <2>5. Consistent(visited, state, received, PendingEdges)'
      <3>1. PendingEdges' = Edges
        BY DEF Crash, PendingEdges, Pending
      <3> QED
        BY <3>1 DEF Crash, Consistent, In
    <2> QED
      BY <2>2, <2>3, <2>4, <2>5 DEF NodesInv
  <1>2. MainOK'
    BY DEF Crash, MainOK, inFlight
  <1>3. SavedOK'
    BY DEF Crash, IInv, SavedOK
  <1> QED
    BY <1>1, <1>2, <1>3 DEF IInv

\* The loop of run without scheduleNext's choice of a node.
LEMMA LoopInv ==
  ASSUME TypeOK, IInv, EmitCheckpoint \/ SaveCheckpoint \/ CheckTermination \/ Return \/ ScheduleNone
  PROVE  IInv'
  <1>1. /\ UNCHANGED <<queueVars, visited, state, nodeVars>>
        /\ main # "off" /\ main' # "off"
    BY DEF EmitCheckpoint, SaveCheckpoint, CheckTermination, Verdict, Return, ScheduleNone
  <1>2. NodesInv'
    BY <1>1, NodesFrame DEF IInv
  <1>3. MainOK'
    <2>1. inFlight' = inFlight
      BY <1>1 DEF nodeVars, inFlight
    <2>2. progress' => progress
      BY DEF EmitCheckpoint, SaveCheckpoint, CheckTermination, Return, ScheduleNone
    <2>3. Idle' \/ main' = "save" => inFlight = {}
      BY DEF Idle, EmitCheckpoint, shouldCheckpoint, SaveCheckpoint, CheckTermination, Verdict,
             Return, ScheduleNone
    <2> QED
      BY <1>1, <2>1, <2>2, <2>3 DEF IInv, MainOK
  <1>4. SavedOK'
    <2>1. CASE EmitCheckpoint /\ shouldCheckpoint
      <3> DEFINE c == [received |-> received, visited |-> visited, state |-> state]
      <3>1. saving' = {c} /\ store' = store
        BY <2>1 DEF EmitCheckpoint
      <3>2. PendingEdges = Unvisited(visited)
        BY <2>1, PendingIfIdle DEF shouldCheckpoint, IInv, NodesInv
      <3>3. Consistent(visited, state, received, Unvisited(visited))
        BY <3>2 DEF IInv, NodesInv
      <3>4. visited # {}
        BY <2>1 DEF shouldCheckpoint, IInv, MainOK
      <3>5. c.visited = visited /\ c.state = state /\ c.received = received
        OBVIOUS
      <3> HIDE DEF c
      <3> QED
        BY <3>1, <3>3, <3>4, <3>5 DEF IInv, SavedOK
    <2>2. CASE EmitCheckpoint /\ ~ shouldCheckpoint
      BY <2>2 DEF EmitCheckpoint, IInv, SavedOK
    <2>3. CASE SaveCheckpoint
      BY <2>3 DEF SaveCheckpoint, IInv, SavedOK
    <2>4. CASE CheckTermination \/ Return \/ ScheduleNone
      BY <2>4 DEF CheckTermination, Return, ScheduleNone, IInv, SavedOK
    <2> QED
      BY <2>1, <2>2, <2>3, <2>4
  <1> QED
    BY <1>2, <1>3, <1>4 DEF IInv

\* A node leaves the queue and, not having been visited, goes into flight.
LEMMA ScheduleNextInv ==
  ASSUME TypeOK, IInv, ScheduleNext
  PROVE  IInv'
  <1> DEFINE h == Head(ready)
  <1>1. /\ UNCHANGED <<remaining, received, visited, state, progress, saving, own, skips, store>>
        /\ ready # <<>> /\ ready' = Tail(ready)
        /\ main = "sched" /\ main' = "emit"
    BY DEF ScheduleNext
  <1>2. ready \in Seq(Nodes)
    BY DEF TypeOK, TaskTypes
  <1>3. /\ Len(ready) > 0 /\ h = ready[1] /\ h \in Nodes
        /\ Len(ready') = Len(ready) - 1
        /\ \A i \in 1 .. Len(ready') : ready'[i] = ready[i + 1]
    BY <1>1, <1>2
  <1>4. h \in Queued /\ Queued' = Queued \ {h}
    <2>1. h \in Queued
      BY <1>3, 1 \in 1 .. Len(ready) DEF Queued
    <2>2. \A i, j \in 1 .. Len(ready) : ready[i] = ready[j] => i = j
      BY DEF IInv, NodesInv, AtMostOnce
    <2>3. \A i \in 1 .. Len(ready') : i + 1 \in 1 .. Len(ready) /\ i + 1 # 1
      BY <1>2, <1>3
    <2>4. Queued' \subseteq Queued \ {h}
      BY <1>3, <2>2, <2>3 DEF Queued
    <2>5. \A i \in 1 .. Len(ready) : ready[i] # h => i - 1 \in 1 .. Len(ready') /\ ready'[i - 1] = ready[i]
      BY <1>2, <1>3
    <2>6. Queued \ {h} \subseteq Queued'
      BY <2>5 DEF Queued
    <2> QED
      BY <2>1, <2>4, <2>6
  <1>5. h \notin visited /\ pc[h] = "idle"
    BY <1>3, <1>4 DEF IInv, NodesInv, AtMostOnce, Scheduled
  <1>6. pc' = [pc EXCEPT ![h] = "start"] /\ input' = [input EXCEPT ![h] = state]
    BY <1>5 DEF ScheduleNext
  <1>7. AtMostOnce'
    <2>1. \A i, j \in 1 .. Len(ready') : ready'[i] = ready'[j] => i = j
      BY <1>2, <1>3 DEF IInv, NodesInv, AtMostOnce
    <2> HIDE DEF h
    <2> QED
      BY <1>1, <1>3, <1>4, <1>5, <1>6, <2>1
      DEF IInv, NodesInv, AtMostOnce, Scheduled, Executing, TypeOK, LocalTypes
  <1> HIDE DEF h
  <1>8. PendingEdges' = PendingEdges
    BY <1>1, PendingFrame
  <1>9. HandsOK'
    BY <1>1, <1>3, <1>5, <1>6 DEF IInv, NodesInv, HandsOK, TypeOK, LocalTypes
  <1>10. Counts' /\ ScheduledOK'
    BY <1>1, <1>3, <1>4, <1>6, <1>8 DEF IInv, NodesInv, Counts, ScheduledOK, TypeOK, LocalTypes
  <1>11. Consistent(visited, state, received, PendingEdges)'
    BY <1>1, <1>8 DEF IInv, NodesInv, Consistent
  <1>12. InputOK'
    BY <1>1, <1>3, <1>6 DEF IInv, NodesInv, InputOK, Executing, TypeOK, LocalTypes
  <1>13. MainOK' /\ SavedOK'
    BY <1>1 DEF IInv, MainOK, SavedOK, Idle
  <1> QED
    BY <1>7, <1>9, <1>10, <1>11, <1>12, <1>13 DEF IInv, NodesInv

-----------------------------------------------------------------------------
(***************************************************************************)
(* Steps of the goroutine of a node.                                       *)
(***************************************************************************)

\* A goroutine exists only while the task is running, so its steps and the
\* wake-ups they send keep main out of the idle and the saving states.
LEMMA NodeMeansRunning ==
  ASSUME IInv, NEW n \in Nodes, pc[n] # "idle"
  PROVE  /\ ~ Idle /\ main # "off" /\ main # "save"
         /\ ~ (Wake(main) \in {"off", "returned", "save"})
  BY DEF IInv, MainOK, inFlight, Idle, Wake

\* The ready queue holds nodes only.
LEMMA QueuedNodes ==
  ASSUME TypeOK
  PROVE  Queued \subseteq Nodes
  <1>1. ready \in Seq(Nodes)
    BY DEF TypeOK, TaskTypes
  <1> QED
    BY <1>1 DEF Queued

\* The steps of a goroutine that change nothing but where it is.
LEMMA PcStepInv ==
  ASSUME TypeOK, IInv, NEW n \in Nodes,
         pc[n] # "idle", own[n] = {}, skips[n] = {},
         pc'[n] # "edges",
         Executing(n)' => Executing(n) /\ input'[n] = input[n],
         \A m \in Nodes \ {n} : pc'[m] = pc[m] /\ input'[m] = input[m],
         UNCHANGED <<queueVars, visited, state, progress, saving, own, skips, store>>,
         main' \in {main, Wake(main)}
  PROVE  IInv'
  <1>1. PendingEdges' = PendingEdges
    BY PendingFrame
  <1>2. HandsOK'
    BY DEF IInv, NodesInv, HandsOK, TypeOK, LocalTypes
  <1>3. main # "off" /\ main' # "off"
    BY NodeMeansRunning
  <1>4. Counts' /\ ScheduledOK'
    <2>1. Queued' = Queued /\ \A m \in Nodes : pc'[m] # "idle" => pc[m] # "idle"
      BY DEF Queued, queueVars
    <2>2. ScheduledOK'
      BY <2>1 DEF IInv, NodesInv, ScheduledOK, queueVars
    <2> QED
      BY <1>1, <1>3, <2>2 DEF IInv, NodesInv, Counts, queueVars
  <1>5. AtMostOnce'
    <2>1. Queued' = Queued /\ Queued \subseteq Nodes /\ ready' = ready
      BY QueuedNodes DEF Queued, queueVars
    <2>2. \A m \in Queued : m # n
      BY DEF IInv, NodesInv, AtMostOnce
    <2>3. \A m \in Nodes : Scheduled(m)' => Scheduled(m)
      BY <2>1 DEF Scheduled, Executing
    <2> QED
      BY <2>1, <2>2, <2>3 DEF IInv, NodesInv, AtMostOnce
  <1>6. Consistent(visited, state, received, PendingEdges)'
    BY <1>1 DEF IInv, NodesInv, Consistent, queueVars
  <1>7. InputOK'
    BY DEF IInv, NodesInv, InputOK, Executing, TypeOK, LocalTypes
  <1>8. MainOK'
    <2>1. ~ Idle' /\ main' # "save"
      BY NodeMeansRunning DEF Idle
    <2> QED
      BY <1>3, <2>1 DEF IInv, MainOK
  <1>9. SavedOK'
    BY DEF IInv, SavedOK
  <1> QED
    BY <1>2, <1>4, <1>5, <1>6, <1>7, <1>8, <1>9 DEF IInv, NodesInv

\* The steps of executeNode that pass no edge on keep the invariant.
LEMMA QuietStepsInv ==
  ASSUME TypeOK, IInv, NEW n \in Nodes,
         Begin(n) \/ HandlerError(n) \/ EdgesDone(n) \/ NodeDone(n)
  PROVE  IInv'
  <1>1. pc[n] # "idle" /\ own[n] = {} /\ skips[n] = {}
    BY DEF Begin, HandlerError, EdgesDone, NodeDone, IInv, NodesInv, HandsOK
  <1>2. /\ pc'[n] # "edges"
        /\ Executing(n)' => Executing(n) /\ input'[n] = input[n]
        /\ \A m \in Nodes \ {n} : pc'[m] = pc[m] /\ input'[m] = input[m]
    BY DEF Begin, HandlerError, EdgesDone, NodeDone, Executing, TypeOK, LocalTypes
  <1>3. main' \in {main, Wake(main)}
    BY DEF Begin, HandlerError, EdgesDone, NodeDone, Fail, mainVars
  <1>4. UNCHANGED <<queueVars, visited, state, progress, saving, own, skips, store>>
    BY DEF Begin, HandlerError, EdgesDone, NodeDone, mainVars
  <1> QED
    BY <1>1, <1>2, <1>3, <1>4, PcStepInv

\* executeNode after the handler: the edges of n pass from unvisited to in hand.
LEMMA CompleteInv ==
  ASSUME TypeOK, IInv, NEW n \in Nodes, Complete(n)
  PROVE  IInv'
  <1>1. /\ pc[n] = "run" /\ n \notin visited /\ own[n] = {} /\ skips[n] = {}
        /\ main # "off" /\ main' # "off" /\ ~ Idle' /\ main' # "save"
    <2>1. pc[n] = "run" /\ n \notin visited /\ own[n] = {} /\ skips[n] = {}
      BY DEF Complete, IInv, NodesInv, HandsOK, AtMostOnce, Scheduled, Executing
    <2>2. main' \in {main, Wake(main)}
      BY DEF Complete
    <2> QED
      BY <2>1, <2>2, NodeMeansRunning DEF Idle
  <1>2. /\ UNCHANGED <<ready, remaining, received, input, skips, saving, store>>
        /\ visited' = visited \cup {n} /\ state' = state \cup {n}
        /\ own' = [own EXCEPT ![n] = Out(n)]
        /\ pc'[n] \in {"edges", "exit"} /\ (n = Finish => pc'[n] = "exit")
        /\ \A m \in Nodes \ {n} : pc'[m] = pc[m]
    <2>1. n = Finish => own = [own EXCEPT ![n] = Out(n)]
      BY <1>1, TopologyAssumption DEF TypeOK, LocalTypes
    <2> QED
      BY <2>1 DEF Complete, queueVars, TypeOK, LocalTypes
  <1>3. PendingEdges' = PendingEdges
    BY <1>1, <1>2 DEF PendingEdges, Pending, Out, TypeOK, LocalTypes
  <1>4. n # Entry =>
          /\ In(n) \cap PendingEdges = {} /\ \E e \in In(n) : Src[e] \in state
          /\ n \in Reachable
    <2> SUFFICES ASSUME n # Entry
                 PROVE  /\ In(n) \cap PendingEdges = {}
                        /\ \E e \in In(n) : Src[e] \in state
                        /\ n \in Reachable
      OBVIOUS
    <2>1. remaining[n] = 0 /\ received[n] > 0
      BY <1>1 DEF IInv, NodesInv, ScheduledOK
    <2>2. Cardinality(In(n) \cap PendingEdges) = 0
      BY <1>1, <2>1 DEF IInv, NodesInv, Counts
    <2>3. In(n) \cap PendingEdges = {}
      BY <2>2, InFinite, FS_EmptySet
    <2>4. \E e \in In(n) : Src[e] \in state
      BY <2>1 DEF IInv, NodesInv, Consistent
    <2>5. n \in Reachable
      BY <2>4, ReachableClosed DEF IInv, NodesInv, Consistent, In
    <2> QED
      BY <2>3, <2>4, <2>5
  <1>5. HandsOK'
    <2>1. HandsOK /\ state \subseteq visited /\ own \in [Nodes -> SUBSET Edges]
      BY DEF IInv, NodesInv, Consistent, TypeOK, LocalTypes
    <2>2. \A m \in Nodes : pc'[m] # "edges" => own'[m] = {} /\ skips'[m] = {}
      <3>1. pc'[n] # "edges" => own'[n] = {} /\ skips'[n] = {}
        <4>1. pc'[n] # "edges" => n = Finish
          BY DEF Complete, TypeOK, LocalTypes
        <4> QED
          BY <1>1, <1>2, <2>1, <4>1, TopologyAssumption
      <3> QED
        BY <1>2, <2>1, <3>1 DEF HandsOK
    <2>3. \A m \in Nodes : pc'[m] = "edges" => m \in state'
      BY <1>2, <2>1 DEF HandsOK
    <2>4. \A m \in Nodes : own'[m] \subseteq Out(m)
      BY <1>2, <2>1 DEF HandsOK
    <2>5. \A m \in Nodes : \A e \in skips'[m] : Src[e] \in visited' \ state'
      BY <1>1, <1>2, <2>1 DEF HandsOK
    <2> QED
      BY <1>2, <2>1, <2>2, <2>3, <2>4, <2>5 DEF HandsOK
  <1>6. Counts'
    BY <1>1, <1>2, <1>3 DEF IInv, NodesInv, Counts
  <1>7. ScheduledOK' /\ AtMostOnce'
    <2>1. Queued' = Queued /\ \A m \in Nodes : pc'[m] # "idle" => pc[m] # "idle"
      BY <1>1, <1>2 DEF Queued
    <2>2. ScheduledOK'
      BY <1>2, <2>1 DEF IInv, NodesInv, ScheduledOK
    <2>3. \A m \in Queued : m # n /\ m \in Nodes
      BY <1>1, QueuedNodes DEF IInv, NodesInv, AtMostOnce
    <2>4. \A m \in Nodes : Scheduled(m)' => Scheduled(m) /\ m # n
      BY <1>2, <2>1, <2>3 DEF Scheduled, Executing
    <2>5. AtMostOnce'
      BY <1>2, <2>1, <2>3, <2>4 DEF IInv, NodesInv, AtMostOnce
    <2> QED
      BY <2>2, <2>5
  <1>8. Consistent(visited, state, received, PendingEdges)'
    <2>1. state' \subseteq visited' /\ visited' \subseteq Reachable /\ Entry \in state'
      BY <1>1, <1>2, <1>4, ReachableClosed DEF IInv, NodesInv, Consistent
    <2>2. \A m \in Nodes \ {Entry} : received[m] > 0 => \E e \in In(m) : Src[e] \in state'
      BY <1>2 DEF IInv, NodesInv, Consistent
    <2>3. \A m \in visited' \ {Entry} : In(m) \cap PendingEdges = {}
      BY <1>2, <1>4 DEF IInv, NodesInv, Consistent
    <2>4. \A m \in visited' \ state' : \A e \in In(m) : Src[e] \in state' => Src[e] \in Conditional
      <3> SUFFICES ASSUME NEW m \in visited \ state, NEW e \in In(m), Src[e] \in state'
                   PROVE  Src[e] \in Conditional
        BY <1>2
      <3>1. m # Entry
        BY DEF IInv, NodesInv, Consistent
      <3>2. e \notin PendingEdges
        BY <3>1 DEF IInv, NodesInv, Consistent
      <3>3. Src[e] # n
        BY <1>1, <3>2 DEF PendingEdges, Pending, In
      <3> QED
        BY <1>2, <3>3 DEF IInv, NodesInv, Consistent
    <2>5. \A m \in Nodes \ visited' : \A e \in In(m) \ PendingEdges :
             Src[e] \in state' \ Conditional => received[m] > 0
      <3> SUFFICES ASSUME NEW m \in Nodes \ visited, NEW e \in In(m) \ PendingEdges,
                          Src[e] \in state' \ Conditional
                   PROVE  received[m] > 0
        BY <1>2
      <3>1. Src[e] # n
        BY <1>1 DEF PendingEdges, Pending, In
      <3> QED
        BY <1>2, <3>1 DEF IInv, NodesInv, Consistent
    <2> QED
      BY <1>2, <1>3, <2>1, <2>2, <2>3, <2>4, <2>5 DEF Consistent
  <1>9. InputOK'
    <2> SUFFICES ASSUME NEW m \in Nodes \ {Entry}, Executing(m)',
                        NEW e \in In(m), Src[e] \in state'
                 PROVE  Src[e] \in input[m]
      BY <1>2 DEF InputOK
    <2>1. m # n /\ Executing(m)
      BY <1>2 DEF Executing
    <2>2. remaining[m] = 0 /\ m \notin visited
      BY <2>1 DEF IInv, NodesInv, ScheduledOK, AtMostOnce, Scheduled, Executing
    <2>3. Cardinality(In(m) \cap PendingEdges) = 0
      BY <1>1, <2>2 DEF IInv, NodesInv, Counts
    <2>4. In(m) \cap PendingEdges = {}
      BY <2>3, InFinite, FS_EmptySet
    <2>5. Src[e] # n
      BY <1>1, <2>4 DEF PendingEdges, Pending, In
    <2> QED
      BY <1>2, <2>1, <2>5 DEF IInv, NodesInv, InputOK
  <1>10. MainOK'
    BY <1>1, <1>2 DEF MainOK
  <1>11. SavedOK'
    BY <1>2 DEF IInv, SavedOK
  <1> QED
    BY <1>5, <1>6, <1>7, <1>8, <1>9, <1>10, <1>11 DEF IInv, NodesInv

(***************************************************************************)
(* satisfy.  The edge e leaves the hands of n; its target is unvisited and *)
(* not in flight, because an edge into a resolved node is never pending.   *)
(* The goroutine holds the edge as its own or as that of a skipped node.   *)
(* Recv, Left and Skipped are what satisfy computes for the target.        *)
(***************************************************************************)
Recv(e, a) == received[Dst[e]] + (IF a THEN 1 ELSE 0)
Left(e) == Decrement(remaining[Dst[e]])
Skipped(e, a) == Left(e) = 0 /\ Recv(e, a) = 0

HandsOver(n, e, a, L) ==
  /\ Satisfy(n, e, a, L)
  /\ pc[n] = "edges"
  /\ \/ /\ e \in own[n] /\ skips[n] = {} /\ L = {}
        /\ own' = [own EXCEPT ![n] = @ \ {e}]
        /\ n \notin Conditional => a
     \/ /\ e \in skips[n] /\ L = skips[n] \ {e} /\ own' = own
        /\ ~ a
  /\ UNCHANGED <<state, saving, pc, input, store>>

\* What the call changes: the counts of the target, and one pending edge less.
Effect(n, e, a, L) ==
  /\ Dst[e] \in Nodes /\ e \in In(Dst[e])
  /\ Src[e] \in visited /\ e \in PendingEdges
  /\ a => Src[e] \in state
  /\ Src[e] \in state \ Conditional => a
  /\ Dst[e] \notin visited /\ Dst[e] # Entry
  /\ main # "off" /\ main' # "off" /\ main' # "save" /\ ~ Idle'
  /\ Left(e) = Cardinality(In(Dst[e]) \cap (PendingEdges \ {e}))
  /\ Dst[e] \notin Queued /\ pc[Dst[e]] = "idle"
  /\ Dst[e] \notin inFlight /\ Dst[e] # n
  /\ Recv(e, a) \in Nat /\ (a => Recv(e, a) > 0)
  /\ remaining' = [remaining EXCEPT ![Dst[e]] = Left(e)]
  /\ received' = [received EXCEPT ![Dst[e]] = Recv(e, a)]
  /\ ready' = IF Left(e) = 0 /\ Recv(e, a) > 0 THEN Append(ready, Dst[e]) ELSE ready
  /\ visited' = IF Skipped(e, a) THEN visited \cup {Dst[e]} ELSE visited
  /\ skips' = [skips EXCEPT ![n] = IF Skipped(e, a) THEN L \cup Out(Dst[e]) ELSE L]
  /\ progress' = (progress \/ Skipped(e, a))
  /\ Left(e) \in Nat /\ received[Dst[e]] \in Nat /\ Recv(e, a) >= received[Dst[e]]
  /\ PendingEdges' = PendingEdges \ {e}
  /\ Queued' = IF Left(e) = 0 /\ Recv(e, a) > 0 THEN Queued \cup {Dst[e]} ELSE Queued
  /\ \A i, j \in 1 .. Len(ready') : ready'[i] = ready'[j] => i = j

\* Satisfying the edges out of a node that ran does this and no more.
LEMMA SatisfyEffect ==
  ASSUME TypeOK, IInv, NEW n \in Nodes, NEW e \in Edges, NEW a \in BOOLEAN,
         NEW L \in SUBSET Edges, HandsOver(n, e, a, L)
  PROVE  Effect(n, e, a, L)
  <1> DEFINE to == Dst[e]
             recv == Recv(e, a)
             left == Left(e)
             skipped == Skipped(e, a)
  <1> USE DEF HandsOver
  <1>1. to \in Nodes /\ e \in In(to)
    BY TopologyAssumption DEF In
  <1>2. /\ Src[e] \in visited /\ e \in PendingEdges
        /\ a => Src[e] \in state
        /\ Src[e] \in state \ Conditional => a
    BY DEF IInv, NodesInv, HandsOK, Consistent, PendingEdges, Pending, Out
  <1>3. to \notin visited /\ to # Entry
    <2>1. Src[e] \in Reachable
      BY <1>2 DEF IInv, NodesInv, Consistent
    <2>2. to # Entry
      BY <2>1, NoEdgeToEntry
    <2> QED
      BY <1>1, <1>2, <2>2 DEF IInv, NodesInv, Consistent
  <1>4. main # "off" /\ main' # "off" /\ main' # "save" /\ ~ Idle'
    <2>1. main' \in {main, Wake(main)}
      BY DEF Satisfy
    <2> QED
      BY <2>1, NodeMeansRunning DEF Idle
  <1>5. /\ remaining[to] \in Nat \ {0} /\ left = remaining[to] - 1
        /\ left = Cardinality(In(to) \cap (PendingEdges \ {e}))
    <2>1. remaining[to] = Cardinality(In(to) \cap PendingEdges)
      BY <1>1, <1>3, <1>4 DEF IInv, NodesInv, Counts
    <2>2. IsFiniteSet(In(to) \cap PendingEdges) /\ e \in In(to) \cap PendingEdges
      BY <1>1, <1>2, InFinite
    <2>3. remaining[to] \in Nat \ {0}
      BY <2>1, <2>2, InFinite, FS_EmptySet
    <2>4. Cardinality((In(to) \cap PendingEdges) \ {e}) = remaining[to] - 1
      <3>1. Cardinality((In(to) \cap PendingEdges) \ {e})
              = Cardinality(In(to) \cap PendingEdges) - 1
        BY <2>2, OneFewer
      <3> QED
        BY <2>1, <3>1
    <2>5. (In(to) \cap PendingEdges) \ {e} = In(to) \cap (PendingEdges \ {e})
      OBVIOUS
    <2>6. left = remaining[to] - 1
      BY <2>3 DEF Decrement, Left
    <2> HIDE DEF left
    <2> QED
      BY <2>3, <2>4, <2>5, <2>6
  <1>6. to \notin Queued /\ pc[to] = "idle" /\ to \notin inFlight /\ to # n
    <2>1. to \notin Queued /\ pc[to] = "idle"
      BY <1>1, <1>3, <1>5 DEF IInv, NodesInv, ScheduledOK
    <2> QED
      BY <2>1 DEF inFlight
  <1>7. recv \in Nat /\ (a => recv > 0)
    BY <1>1 DEF TypeOK, TaskTypes, Recv
  <1>8. /\ remaining' = [remaining EXCEPT ![to] = left]
        /\ received' = [received EXCEPT ![to] = recv]
        /\ ready' = IF left = 0 /\ recv > 0 THEN Append(ready, to) ELSE ready
        /\ visited' = IF skipped THEN visited \cup {to} ELSE visited
        /\ skips' = [skips EXCEPT ![n] = IF skipped THEN L \cup Out(to) ELSE L]
        /\ progress' = (progress \/ skipped)
    <2>0. progress \in BOOLEAN
      BY DEF TypeOK, FlagTypes
    <2> QED
      BY <1>3, <1>6, <1>7, <2>0 DEF Satisfy, Resolvable, SkippedEdges, Recv, Left, Skipped
  <1>9. left \in Nat /\ recv >= received[to] /\ received[to] \in Nat
    BY <1>1, <1>5 DEF TypeOK, TaskTypes, Recv
  <1> HIDE DEF to, recv, left, skipped, HandsOver
  <1>11. /\ received \in [Nodes -> Nat] /\ remaining \in [Nodes -> Nat]
         /\ own \in [Nodes -> SUBSET Edges] /\ skips \in [Nodes -> SUBSET Edges]
         /\ state \subseteq visited /\ visited \subseteq Reachable /\ Entry \in state
    BY <1>2 DEF TypeOK, TaskTypes, LocalTypes, IInv, NodesInv, Consistent
  <1>12. PendingEdges' = PendingEdges \ {e}
    <2>1. \A m \in Nodes \ {n} : own'[m] = own[m] /\ skips'[m] = skips[m]
      BY <1>8, <1>11 DEF HandsOver
    <2>2. \A m \in Nodes \ {n} : e \notin own[m] \cup skips[m]
      BY DEF IInv, NodesInv, HandsOK, Out, HandsOver
    <2>3. e \notin Out(to)
      BY <1>2, <1>3 DEF Out
    <2>4. e \in own[n] => e \notin skips[n]
      BY <1>11 DEF IInv, NodesInv, HandsOK, Out
    <2>5. own'[n] \cup skips'[n] =
            ((own[n] \cup skips[n]) \ {e}) \cup (IF skipped THEN Out(to) ELSE {})
      BY <1>8, <1>11, <2>3, <2>4 DEF HandsOver
    <2>6. \A f \in Out(to) : Src[f] \notin visited /\ f # e
      BY <1>3, <2>3 DEF Out
    <2>7. e \notin PendingEdges'
      BY <1>2, <1>8, <2>1, <2>2, <2>3, <2>5 DEF PendingEdges, Pending
    <2>8. ASSUME NEW f \in Edges \ {e}
          PROVE  f \in PendingEdges' <=> f \in PendingEdges
      <3>1. CASE skipped /\ f \in Out(to)
        BY <2>5, <2>6, <3>1 DEF PendingEdges, Pending
      <3>2. CASE ~ (skipped /\ f \in Out(to))
        <4>1. Src[f] \notin visited' <=> Src[f] \notin visited
          BY <1>8, <3>2 DEF Out
        <4>2. f \in own'[n] \cup skips'[n] <=> f \in own[n] \cup skips[n]
          BY <2>5, <3>2
        <4> QED
          BY <2>1, <4>1, <4>2 DEF PendingEdges, Pending
      <3> QED
        BY <3>1, <3>2
    <2> QED
      BY <2>7, <2>8 DEF PendingEdges
  <1>13. /\ Queued' = IF left = 0 /\ recv > 0 THEN Queued \cup {to} ELSE Queued
         /\ \A i, j \in 1 .. Len(ready') : ready'[i] = ready'[j] => i = j
    <2>1. \A i, j \in 1 .. Len(ready) : ready[i] = ready[j] => i = j
      BY DEF IInv, NodesInv, AtMostOnce
    <2>2. \A i \in 1 .. Len(ready) : ready[i] # to
      BY <1>6 DEF Queued
    <2>3. CASE ~ (left = 0 /\ recv > 0)
      BY <1>8, <2>1, <2>3 DEF Queued
    <2>4. CASE left = 0 /\ recv > 0
      <3>1. ready \in Seq(Nodes) /\ ready' = Append(ready, to)
        BY <1>8, <2>4 DEF TypeOK, TaskTypes
      <3>2. /\ Len(ready') = Len(ready) + 1 /\ Len(ready) \in Nat
            /\ ready'[Len(ready) + 1] = to
            /\ \A i \in 1 .. Len(ready) : ready'[i] = ready[i]
        BY <1>1, <3>1
      <3>3. \A i \in 1 .. Len(ready') : i \in 1 .. Len(ready) \/ i = Len(ready) + 1
        BY <3>2
      <3>4. Queued' = Queued \cup {to}
        <4>1. Queued' \subseteq Queued \cup {to}
          BY <3>2, <3>3 DEF Queued
        <4>2. \A i \in 1 .. Len(ready) : i \in 1 .. Len(ready')
          BY <3>2
        <4>3. Len(ready) + 1 \in 1 .. Len(ready')
          BY <3>2
        <4>4. Queued \subseteq Queued'
          BY <3>2, <4>2 DEF Queued
        <4>5. to \in Queued'
          BY <3>2, <4>3 DEF Queued
        <4> QED
          BY <4>1, <4>4, <4>5
      <3> QED
        BY <2>1, <2>2, <2>4, <3>2, <3>3, <3>4
    <2> QED
      BY <2>3, <2>4
  <1> QED
    BY <1>1, <1>2, <1>3, <1>4, <1>5, <1>6, <1>7, <1>8, <1>9, <1>12, <1>13
    DEF Effect, to, recv, left, skipped

\* satisfy keeps the invariant.
LEMMA SatisfyInv ==
  ASSUME TypeOK, IInv, NEW n \in Nodes, NEW e \in Edges, NEW a \in BOOLEAN,
         NEW L \in SUBSET Edges, HandsOver(n, e, a, L)
  PROVE  IInv'
  <1> DEFINE to == Dst[e]
             recv == Recv(e, a)
             left == Left(e)
             skipped == Skipped(e, a)
  <1>0. Effect(n, e, a, L)
    BY SatisfyEffect
  <1>1. to \in Nodes /\ e \in In(to)
    BY <1>0 DEF Effect
  <1>2. /\ Src[e] \in visited /\ e \in PendingEdges
        /\ a => Src[e] \in state
        /\ Src[e] \in state \ Conditional => a
    BY <1>0 DEF Effect
  <1>3. to \notin visited /\ to # Entry
    BY <1>0 DEF Effect
  <1>4. main # "off" /\ main' # "off" /\ main' # "save" /\ ~ Idle'
    BY <1>0 DEF Effect
  <1>5. left = Cardinality(In(to) \cap (PendingEdges \ {e}))
    BY <1>0 DEF Effect
  <1>6. to \notin Queued /\ pc[to] = "idle" /\ to \notin inFlight /\ to # n
    BY <1>0 DEF Effect
  <1>7. recv \in Nat /\ (a => recv > 0) /\ (skipped <=> left = 0 /\ recv = 0)
    BY <1>0 DEF Effect, Skipped
  <1>8. /\ remaining' = [remaining EXCEPT ![to] = left]
        /\ received' = [received EXCEPT ![to] = recv]
        /\ visited' = IF skipped THEN visited \cup {to} ELSE visited
        /\ skips' = [skips EXCEPT ![n] = IF skipped THEN L \cup Out(to) ELSE L]
        /\ progress' => progress \/ visited' # {}
    BY <1>0 DEF Effect
  <1>9. left \in Nat /\ recv >= received[to] /\ received[to] \in Nat
    BY <1>0 DEF Effect
  <1>10. /\ pc[n] = "edges" /\ UNCHANGED <<state, saving, pc, input, store>>
         /\ L \subseteq skips[n]
         /\ own' = own \/ own' = [own EXCEPT ![n] = @ \ {e}]
    BY DEF HandsOver
  <1>12. PendingEdges' = PendingEdges \ {e}
    BY <1>0 DEF Effect
  <1>15. /\ Queued' = IF left = 0 /\ recv > 0 THEN Queued \cup {to} ELSE Queued
         /\ \A i, j \in 1 .. Len(ready') : ready'[i] = ready'[j] => i = j
    BY <1>0 DEF Effect
  <1> HIDE DEF to, recv, left, skipped
  <1>11. /\ received \in [Nodes -> Nat] /\ remaining \in [Nodes -> Nat]
         /\ own \in [Nodes -> SUBSET Edges] /\ skips \in [Nodes -> SUBSET Edges]
         /\ state \subseteq visited /\ visited \subseteq Reachable /\ Entry \in state
    BY <1>2 DEF TypeOK, TaskTypes, LocalTypes, IInv, NodesInv, Consistent
  <1>13. HandsOK'
    <2>1. HandsOK
      BY DEF IInv, NodesInv
    <2>2. \A m \in Nodes : pc'[m] # "edges" => own'[m] = {} /\ skips'[m] = {}
      BY <1>10, <1>8, <1>11, <2>1 DEF HandsOK
    <2>3. \A m \in Nodes : own'[m] \subseteq Out(m)
      BY <1>10, <1>11, <2>1 DEF HandsOK
    <2>4. \A m \in Nodes : \A f \in skips'[m] :
             f \in skips[m] \/ (m = n /\ skipped /\ f \in Out(to))
      <3> TAKE m \in Nodes
      <3> TAKE f \in skips'[m]
      <3>1. L \subseteq skips[n]
        BY <1>10
      <3>2. m # n => f \in skips[m]
        BY <1>8, <1>11
      <3>3. CASE skipped
        <4>1. skips'[n] = L \cup Out(to)
          BY <1>8, <1>11, <3>3
        <4> QED
          BY <3>1, <3>2, <3>3, <4>1
      <3>4. CASE ~ skipped
        <4>1. skips'[n] = L
          BY <1>8, <1>11, <3>4
        <4> QED
          BY <3>1, <3>2, <4>1
      <3> QED
        BY <3>3, <3>4
    <2>5. \A f \in Out(to) : Src[f] = to
      BY DEF Out
    <2>6. \A m \in Nodes : \A f \in skips'[m] : Src[f] \in visited' \ state'
      BY <1>10, <1>3, <1>8, <1>11, <2>1, <2>4, <2>5 DEF HandsOK
    <2>7. \A m \in Nodes : \A f \in skips[m] : Src[f] # to
      BY <1>3, <2>1 DEF HandsOK
    <2>8. \A m1, m2 \in Nodes : \A f \in skips'[m1] : f \in skips'[m2] => m1 = m2
      BY <2>1, <2>4, <2>5, <2>7 DEF HandsOK
    <2> QED
      BY <1>10, <2>1, <2>2, <2>3, <2>6, <2>8 DEF HandsOK
  <1>14. Counts'
    <2> SUFFICES ASSUME NEW m \in Nodes \ visited'
                 PROVE  remaining'[m] = Cardinality(In(m) \cap (PendingEdges \ {e}))
      BY <1>12 DEF Counts
    <2>1. CASE m = to
      BY <1>1, <1>5, <1>8, <1>11, <2>1
    <2>2. CASE m # to
      <3>1. remaining'[m] = remaining[m] /\ m \notin visited
        BY <1>8, <1>11, <2>2
      <3>2. In(m) \cap (PendingEdges \ {e}) = In(m) \cap PendingEdges
        BY <1>1, <2>2 DEF In
      <3> QED
        BY <1>4, <3>1, <3>2 DEF IInv, NodesInv, Counts
    <2> QED
      BY <2>1, <2>2
  <1>16. ScheduledOK'
    <2> SUFFICES ASSUME NEW m \in Nodes \ {Entry}, m \in Queued' \/ pc[m] # "idle"
                 PROVE  remaining'[m] = 0 /\ received'[m] > 0
      BY <1>10 DEF ScheduledOK
    <2>1. CASE m = to
      BY <1>6, <1>8, <1>11, <1>15, <2>1
    <2>2. CASE m # to
      BY <1>8, <1>11, <1>15, <2>2 DEF IInv, NodesInv, ScheduledOK
    <2> QED
      BY <2>1, <2>2
  <1>17. AtMostOnce'
    <2>1. \A m \in Queued : pc[m] = "idle" /\ m \notin visited /\ m # to
      BY <1>6, QueuedNodes DEF IInv, NodesInv, AtMostOnce, Scheduled
    <2>2. \A m \in Nodes : Executing(m) => m \notin visited /\ m # to
      BY <1>6 DEF IInv, NodesInv, AtMostOnce, Scheduled, Executing
    <2>3. \A m \in Queued' : m \notin visited' /\ pc[m] = "idle"
      BY <1>7, <1>10, <1>3, <1>6, <1>8, <1>15, <2>1
    <2>4. \A m \in Nodes : Executing(m)' => m \notin visited'
      BY <1>10, <1>8, <2>2 DEF Executing
    <2> QED
      BY <1>10, <1>15, <2>3, <2>4 DEF AtMostOnce, Scheduled
  <1>18. Consistent(visited, state, received, PendingEdges)'
    <2>0. Consistent(visited, state, received, PendingEdges)
      BY DEF IInv, NodesInv
    <2>1. \A m \in Nodes \ {to} : received'[m] = received[m]
      BY <1>8, <1>11
    <2>2. received'[to] = recv
      BY <1>1, <1>8, <1>11
    <2>3. visited' \subseteq Reachable
      BY <1>2, <1>8, <1>11, ReachableClosed DEF to
    <2>4. \A m \in Nodes \ {Entry} : received'[m] > 0 => \E f \in In(m) : Src[f] \in state
      <3>1. recv > 0 => a \/ received[to] > 0
        BY <1>7, <1>10, <1>9 DEF recv, Recv, to
      <3> QED
        BY <1>1, <1>2, <1>3, <2>0, <2>1, <2>2, <3>1 DEF Consistent
    <2>5. skipped => In(to) \cap (PendingEdges \ {e}) = {}
      BY <1>7, <1>10, <1>5, InFinite, FS_EmptySet
    <2>6. \A m \in visited' \ {Entry} : In(m) \cap (PendingEdges \ {e}) = {}
      BY <1>8, <2>0, <2>5 DEF Consistent
    <2>7. skipped => \A f \in In(to) : Src[f] \in state => Src[f] \in Conditional
      <3> SUFFICES ASSUME skipped, NEW f \in In(to), Src[f] \in state \ Conditional
                   PROVE  FALSE
        OBVIOUS
      <3>1. f # e
        BY <1>2, <1>7
      <3>2. f \notin PendingEdges
        BY <2>5, <3>1
      <3>3. received[to] > 0
        BY <1>1, <1>3, <2>0, <3>2 DEF Consistent
      <3> QED
        BY <1>7, <1>10, <1>9, <3>3
    <2>8. \A m \in visited' \ state : \A f \in In(m) : Src[f] \in state => Src[f] \in Conditional
      BY <1>8, <2>0, <2>7 DEF Consistent
    <2>9. \A m \in Nodes \ visited' : \A f \in In(m) \ (PendingEdges \ {e}) :
             Src[f] \in state \ Conditional => received'[m] > 0
      <3> SUFFICES ASSUME NEW m \in Nodes \ visited, NEW f \in In(m),
                          f \notin PendingEdges \/ f = e, Src[f] \in state \ Conditional
                   PROVE  received'[m] > 0
        BY <1>8
      <3>1. CASE f = e
        <4>1. m = to
          BY <3>1 DEF In, to
        <4> QED
          BY <1>2, <1>7, <2>2, <3>1, <4>1
      <3>2. CASE f \notin PendingEdges
        <4>1. received[m] > 0
          BY <2>0, <3>2 DEF Consistent
        <4> QED
          BY <1>7, <1>9, <2>1, <2>2, <4>1
      <3> QED
        BY <3>1, <3>2
    <2>10. state \subseteq visited' /\ Entry \in state
      BY <1>8, <1>11
    <2> QED
      BY <1>10, <1>12, <2>3, <2>4, <2>6, <2>8, <2>9, <2>10 DEF Consistent
  <1>19. InputOK'
    BY <1>10 DEF IInv, NodesInv, InputOK, Executing
  <1>20. MainOK' /\ SavedOK'
    BY <1>10, <1>4, <1>8, <1>11 DEF IInv, MainOK, SavedOK
  <1> QED
    BY <1>13, <1>14, <1>16, <1>17, <1>18, <1>19, <1>20 DEF IInv, NodesInv

\* processOutgoing and the propagation of a skip keep the invariant.
LEMMA EdgeStepsInv ==
  ASSUME TypeOK, IInv, NEW n \in Nodes, TakeEdge(n) \/ PropagateSkip(n)
  PROVE  IInv'
  <1>1. pc[n] = "edges" /\ UNCHANGED <<state, saving, pc, input, store>>
    BY DEF TakeEdge, PropagateSkip
  <1>2. CASE TakeEdge(n)
    <2>1. PICK e \in own[n], a \in BOOLEAN :
            /\ own' = [own EXCEPT ![n] = @ \ {e}]
            /\ n \notin Conditional => a
            /\ Satisfy(n, e, a, {})
      BY <1>2 DEF TakeEdge
    <2>2. e \in Edges /\ skips[n] = {}
      BY <1>2 DEF TakeEdge, TypeOK, LocalTypes
    <2> QED
      BY <1>1, <2>1, <2>2, SatisfyInv DEF HandsOver
  <1>3. CASE PropagateSkip(n)
    <2>1. PICK e \in skips[n] : Satisfy(n, e, FALSE, skips[n] \ {e})
      BY <1>3 DEF PropagateSkip
    <2>2. e \in Edges /\ skips[n] \ {e} \in SUBSET Edges /\ own' = own
      BY <1>3 DEF PropagateSkip, TypeOK, LocalTypes
    <2> QED
      BY <1>1, <2>1, <2>2, SatisfyInv DEF HandsOver
  <1> QED
    BY <1>2, <1>3

(***************************************************************************)
(* The invariant is inductive: it holds initially and every step of the    *)
(* scheduler, of a node, of a caller or of a crash keeps it.               *)
(***************************************************************************)
THEOREM Invariance == Spec => []IInv
  <1>1. TypeOK /\ IInv /\ [Next]_vars => IInv'
    <2> SUFFICES ASSUME TypeOK, IInv, [Next]_vars PROVE IInv'
      OBVIOUS
    <2>1. CASE UNCHANGED vars \/ Done
      <3>1. UNCHANGED vars
        BY <2>1 DEF Done
      <3>2. NodesInv'
        BY <3>1, NodesFrame DEF vars, IInv, queueVars, nodeVars
      <3>3. MainOK' /\ SavedOK'
        BY <3>1 DEF vars, IInv, MainOK, SavedOK, Idle, inFlight
      <3> QED
        BY <3>2, <3>3 DEF IInv
    <2>2. CASE Execute \/ Resume \/ Crash
      BY <2>2, ExecuteInv, ResumeInv, CrashInv
    <2>3. CASE Main
      BY <2>3, LoopInv, ScheduleNextInv DEF Main
    <2>4. ASSUME NEW n \in Nodes, Node(n) PROVE IInv'
      BY <2>4, QuietStepsInv, CompleteInv, EdgeStepsInv DEF Node
    <2> QED
      BY <2>1, <2>2, <2>3, <2>4 DEF Next
  <1> QED
    BY InitInv, TypeCorrect, <1>1, PTL DEF Spec

-----------------------------------------------------------------------------
(***************************************************************************)
(* What follows from the invariant.                                        *)
(***************************************************************************)

\* With remaining at zero, no edge into the node is pending.
LEMMA NonePending ==
  ASSUME IInv, NEW n \in Nodes \ {Entry}, Executing(n)
  PROVE  \A e \in In(n) : ~ Pending(e)
  <1>1. main # "off" /\ n \notin visited /\ remaining[n] = 0
    BY DEF IInv, MainOK, NodesInv, AtMostOnce, Scheduled, Executing, ScheduledOK, inFlight, Idle
  <1>2. Cardinality(In(n) \cap PendingEdges) = 0
    BY <1>1 DEF IInv, NodesInv, Counts
  <1>3. In(n) \cap PendingEdges = {}
    BY <1>2, InFinite, FS_EmptySet
  <1> QED
    BY <1>3 DEF PendingEdges, In

(***************************************************************************)
(* A handler runs at most once per node and run, also across Resume.       *)
(***************************************************************************)
THEOREM AtMostOnceHolds == Spec => []AtMostOnce
  <1>1. IInv => AtMostOnce
    BY DEF IInv, NodesInv
  <1> QED
    BY <1>1, Invariance, PTL

(***************************************************************************)
(* Join semantics, in every graph: a handler runs after all incoming edges *)
(* are settled, and its input holds the outputs of the predecessors that   *)
(* ran.                                                                    *)
(***************************************************************************)
THEOREM JoinCompleteHolds == Spec => []JoinComplete
  <1>1. IInv => JoinComplete
    <2> SUFFICES ASSUME IInv, NEW n \in Nodes \ {Entry}, Executing(n)
                 PROVE  /\ \A e \in In(n) : ~ Pending(e)
                        /\ \E e \in In(n) : Src[e] \in state
                        /\ \A e \in In(n) : Src[e] \in state => Src[e] \in input[n]
      BY DEF JoinComplete
    <2>1. received[n] > 0
      BY DEF IInv, NodesInv, ScheduledOK, Executing
    <2>2. \E e \in In(n) : Src[e] \in state
      BY <2>1 DEF IInv, NodesInv, Consistent
    <2> QED
      BY <2>2, NonePending DEF IInv, NodesInv, InputOK
  <1> QED
    BY <1>1, Invariance, PTL

(***************************************************************************)
(* A node is skipped only when no predecessor led to it.                   *)
(***************************************************************************)
THEOREM SkipSoundHolds == Spec => []SkipSound
  <1>1. IInv => SkipSound
    <2> SUFFICES ASSUME IInv, NEW n \in visited \ state, NEW e \in In(n)
                 PROVE  Src[e] \in visited /\ (Src[e] \in state => Src[e] \in Conditional)
      BY DEF SkipSound
    <2>1. n # Entry /\ In(n) \cap PendingEdges = {}
      BY DEF IInv, NodesInv, Consistent
    <2>2. Src[e] \in visited
      BY <2>1 DEF PendingEdges, Pending, In
    <2> QED
      BY <2>2 DEF IInv, NodesInv, Consistent
  <1> QED
    BY <1>1, Invariance, PTL

\* A reachable node that is unvisited, and that has no unvisited successor, would
\* have all its edges into visited nodes; an edge into a visited node is not
\* pending, so its source is visited.
LEMMA FinishLastNow ==
  ASSUME TypeOK, IInv
  PROVE  FinishLast
  <1> SUFFICES ASSUME TypeOK, IInv, Finish \in visited
               PROVE  /\ Reachable \subseteq visited
                      /\ \A n \in Nodes : ~ Executing(n) /\ own[n] = {} /\ skips[n] = {}
    BY DEF FinishLast
  <1>1. \A e \in Edges : Src[e] \in Reachable /\ Dst[e] \in visited => e \notin PendingEdges
    BY NoEdgeToEntry DEF IInv, NodesInv, Consistent, In
  <1>2. Reachable \subseteq visited
    <2> DEFINE S == Reachable \ visited
    <2> SUFFICES ASSUME S # {} PROVE FALSE
      OBVIOUS
    <2>1. S \in (SUBSET Nodes) \ {{}}
      BY ReachableClosed
    <2>2. PICK n \in S : \A e \in Out(n) : Dst[e] \notin S
      BY <2>1, TopologyAssumption DEF Acyclic
    <2>3. PICK e \in Edges : Src[e] = n
      <3>1. n \in Nodes /\ n # Finish
        BY ReachableClosed
      <3> QED
        BY <3>1, TopologyAssumption DEF Out
    <2>4. Dst[e] \in visited
      BY <2>2, <2>3, ReachableClosed DEF Out
    <2> QED
      BY <1>1, <2>3, <2>4 DEF PendingEdges, Pending
  <1>3. ASSUME NEW n \in Nodes PROVE ~ Executing(n)
    <2>1. Executing(n) => n \in Reachable
      <3> SUFFICES ASSUME Executing(n), n # Entry PROVE n \in Reachable
        BY ReachableClosed
      <3>1. \E e \in In(n) : Src[e] \in state
        BY DEF IInv, NodesInv, ScheduledOK, Executing, Consistent
      <3> QED
        BY <3>1, ReachableClosed DEF IInv, NodesInv, Consistent, In
    <2> QED
      BY <1>2, <2>1 DEF IInv, NodesInv, AtMostOnce, Scheduled
  <1>4. ASSUME NEW n \in Nodes, NEW e \in own[n] \cup skips[n] PROVE FALSE
    <2>1. Src[e] \in visited /\ e \in Edges
      BY DEF TypeOK, LocalTypes, IInv, NodesInv, HandsOK, Consistent, Out
    <2>2. Src[e] \in Reachable /\ Dst[e] \in visited
      BY <1>2, <2>1, ReachableClosed DEF IInv, NodesInv, Consistent
    <2> QED
      BY <1>1, <2>1, <2>2 DEF PendingEdges, Pending
  <1> QED
    BY <1>2, <1>3, <1>4

(***************************************************************************)
(* The finish node resolves last.                                          *)
(***************************************************************************)
THEOREM FinishLastHolds == Spec => []FinishLast
  BY FinishLastNow, Invariance, TypeCorrect, PTL

-----------------------------------------------------------------------------
(***************************************************************************)
(* A second invariant, about where the loop is and what it still owes:     *)
(* the finish flag, the checkpoint being written, the queue, and the       *)
(* errors.  It is inductive relative to the first.                         *)
(***************************************************************************)
Snapshot(c) == c.visited = visited /\ c.state = state

\* The finish flag is right, "ok" needs it, and the snapshot that is being saved
\* is still the state of the task.
FinishOK ==
  /\ finished => Finish \in visited
  /\ Finish \in state => finished
  /\ main = "wait_ok" \/ result = "ok" => finished
  /\ result = "ok" => main = "returned"
  /\ main = "save" => \E c \in saving : saving = {c} /\ Snapshot(c)

\* What was not saved is still marked as progress.
KeptOK ==
  Checkpointing /\ visited # {} /\ err = "none" /\ ~ progress /\ main # "save" =>
     \E c \in store : Snapshot(c)

\* A node whose in-edges are all settled, none of them taken, has been skipped.
Settled(V, R, P) ==
  \A n \in Nodes \ (V \cup {Entry}) : In(n) # {} /\ In(n) \cap P = {} => R[n] > 0

SettledOK ==
  /\ Settled(visited, received, PendingEdges)
  /\ \A c \in store \cup saving : Settled(c.visited, c.received, Unvisited(c.visited))

\* Until an error, a node that could run is queued or running.
QueueComplete ==
  /\ err = "none" => \A n \in Nodes \ visited :
                       received[n] > 0 /\ remaining[n] = 0 => Scheduled(n)
  /\ main # "off" /\ Entry \notin visited => received[Entry] > 0

\* The nodes that a path of one edge or more leads to.
Below(n) ==
  {t \in Nodes : \A S \in SUBSET Nodes :
     /\ \A e \in Out(n) : Dst[e] \in S
     /\ \A e \in Edges : Src[e] \in S => Dst[e] \in S
     => t \in S}

\* A goroutine that took an edge set work going that is not yet finished.
MatchedOK ==
  /\ matched \subseteq inFlight
  /\ err = "none" /\ ~ finished =>
       /\ \A n \in Nodes : pc[n] = "exit" => n \in matched
       /\ \A n \in matched : \E t \in Below(n) :
            received[t] > 0 /\ (t \notin visited \/ pc[t] # "idle")

StallOK ==
  /\ Finish \in visited /\ ~ finished /\ inFlight = {} => err # "none"
  /\ Reachable = Nodes => err # "unreachable"

\* An unconditional node has taken the first of its edges; after "ok" was
\* decided no error can follow, unless a parallel router is still running.
ErrorOK ==
  /\ \A n \in Nodes : pc[n] = "edges" /\ n \notin Conditional =>
        n \in matched \/ own[n] = Out(n)
  /\ pc[Finish] # "edges"
  /\ (Conditional = {} \/ ~ Parallel) /\ (main = "wait_ok" \/ result = "ok") => err = "none"

\* A serial task runs one node between two turns of the loop.
SerialOK ==
  ~ Parallel =>
    /\ main # "asleep"
    /\ main # "emit" => inFlight = {}
    /\ Checkpointing /\ (main \in {"save", "term", "wait_ok"} \/ result = "ok") => ~ progress

\* What a step of processOutgoing or of a skip does, as one call of satisfy.
LEMMA EdgeStep ==
  ASSUME TypeOK, IInv, NEW n \in Nodes, TakeEdge(n) \/ PropagateSkip(n)
  PROVE  \E e \in Edges, a \in BOOLEAN, L \in SUBSET Edges :
           /\ HandsOver(n, e, a, L) /\ Effect(n, e, a, L)
           /\ matched' = IF a THEN matched \cup {n} ELSE matched
           /\ UNCHANGED <<finished, err, result, state, saving, pc, input, store>>
           /\ main' \in {main, Wake(main)}
  <1>1. pc[n] = "edges" /\ UNCHANGED <<finished, err, result, state, saving, pc, input, store>>
    BY DEF TakeEdge, PropagateSkip
  <1>2. CASE TakeEdge(n)
    <2>1. PICK e \in own[n], a \in BOOLEAN :
            /\ own' = [own EXCEPT ![n] = @ \ {e}]
            /\ n \notin Conditional => a
            /\ matched' = IF a THEN matched \cup {n} ELSE matched
            /\ Satisfy(n, e, a, {})
      BY <1>2 DEF TakeEdge
    <2>2. e \in Edges /\ skips[n] = {} /\ {} \in SUBSET Edges
      BY <1>2 DEF TakeEdge, TypeOK, LocalTypes
    <2>3. HandsOver(n, e, a, {})
      BY <1>1, <2>1, <2>2 DEF HandsOver
    <2>4. Effect(n, e, a, {})
      BY <2>2, <2>3, SatisfyEffect
    <2>5. main' \in {main, Wake(main)}
      BY <2>1 DEF Satisfy
    <2> QED
      BY <1>1, <2>1, <2>2, <2>3, <2>4, <2>5
  <1>3. CASE PropagateSkip(n)
    <2>1. PICK e \in skips[n] : Satisfy(n, e, FALSE, skips[n] \ {e})
      BY <1>3 DEF PropagateSkip
    <2>2. e \in Edges /\ skips[n] \ {e} \in SUBSET Edges /\ own' = own /\ matched' = matched
      BY <1>3 DEF PropagateSkip, TypeOK, LocalTypes
    <2>3. HandsOver(n, e, FALSE, skips[n] \ {e})
      BY <1>1, <2>1, <2>2 DEF HandsOver
    <2>4. Effect(n, e, FALSE, skips[n] \ {e})
      BY <2>2, <2>3, SatisfyEffect
    <2>5. main' \in {main, Wake(main)}
      BY <2>1 DEF Satisfy
    <2> QED
      BY <1>1, <2>2, <2>3, <2>4, <2>5
  <1> QED
    BY <1>2, <1>3

\* The finish flag and the snapshot.
LEMMA FinishStep ==
  ASSUME TypeOK, IInv, FinishOK, Next
  PROVE  FinishOK'
  <1> USE DEF FinishOK, Snapshot
  <1>1. CASE Execute
    BY <1>1 DEF Execute
  <1>2. CASE Resume
    <2>1. PICK c \in store :
            /\ visited' = c.visited
            /\ state' = c.state
            /\ finished' = (Finish \in c.visited)
      BY <1>2 DEF Resume
    <2>2. c.state \subseteq c.visited
      BY <2>1 DEF IInv, SavedOK, Consistent
    <2>3. main' = "emit" /\ result' = "none"
      BY <1>2 DEF Resume
    <2> QED
      BY <2>1, <2>2, <2>3
  <1>3. CASE Crash
    BY <1>3 DEF Crash
  <1>4. CASE EmitCheckpoint
    <2>1. UNCHANGED <<visited, state, finished, result>> /\ main = "emit" /\ main' # "wait_ok"
      BY <1>4 DEF EmitCheckpoint
    <2>2. main' = "save" => \E c \in saving' : saving' = {c} /\ c.visited = visited /\ c.state = state
      <3> DEFINE d == [received |-> received, visited |-> visited, state |-> state]
      <3>1. main' = "save" => saving' = {d}
        BY <1>4 DEF EmitCheckpoint
      <3>2. d.visited = visited /\ d.state = state
        OBVIOUS
      <3> HIDE DEF d
      <3> QED
        BY <3>1, <3>2
    <2> QED
      BY <2>1, <2>2
  <1>5. CASE SaveCheckpoint \/ CheckTermination \/ Return \/ ScheduleNone \/ ScheduleNext
    BY <1>5 DEF SaveCheckpoint, CheckTermination, Verdict, Return, ScheduleNone, ScheduleNext
  <1>6. ASSUME NEW n \in Nodes, Node(n) PROVE FinishOK'
    <2>1. pc[n] # "idle"
      BY <1>6 DEF Node, Begin, HandlerError, Complete, TakeEdge, PropagateSkip, EdgesDone, NodeDone
    <2>2. main # "returned" /\ main # "save" /\ result # "ok"
      BY <2>1, NodeMeansRunning DEF Idle
    <2>3. CASE Begin(n) \/ HandlerError(n) \/ EdgesDone(n) \/ NodeDone(n)
      BY <2>2, <2>3 DEF Begin, HandlerError, EdgesDone, NodeDone, Fail, Wake, mainVars
    <2>4. CASE Complete(n)
      BY <2>2, <2>4 DEF Complete, Wake
    <2>5. CASE TakeEdge(n) \/ PropagateSkip(n)
      <3>1. PICK e \in Edges, a \in BOOLEAN, L \in SUBSET Edges :
               /\ Effect(n, e, a, L)
               /\ UNCHANGED <<finished, result, state>> /\ main' \in {main, Wake(main)}
        BY <2>5, EdgeStep
      <3>2. visited \subseteq visited'
        BY <3>1 DEF Effect
      <3> QED
        BY <2>2, <3>1, <3>2 DEF Wake
    <2> QED
      BY <1>6, <2>3, <2>4, <2>5 DEF Node
  <1>7. CASE Done
    BY <1>7 DEF Done, vars
  <1> QED
    BY <1>1, <1>2, <1>3, <1>4, <1>5, <1>6, <1>7 DEF Next, Main

\* Nothing visited since the last successful save goes unnoticed.
LEMMA KeptStep ==
  ASSUME TypeOK, IInv, FinishOK, KeptOK, Next
  PROVE  KeptOK'
  <1> USE DEF KeptOK, Snapshot
  <1>1. CASE Execute
    BY <1>1 DEF Execute
  <1>2. CASE Resume
    BY <1>2 DEF Resume
  <1>3. CASE Crash
    BY <1>3 DEF Crash
  <1>4. CASE EmitCheckpoint
    BY <1>4 DEF EmitCheckpoint
  <1>5. CASE SaveCheckpoint
    BY <1>5 DEF SaveCheckpoint, FinishOK
  <1>6. CASE CheckTermination \/ Return \/ ScheduleNone \/ ScheduleNext
    BY <1>6 DEF CheckTermination, Return, ScheduleNone, ScheduleNext
  <1>7. ASSUME NEW n \in Nodes, Node(n) PROVE KeptOK'
    <2>1. pc[n] # "idle"
      BY <1>7 DEF Node, Begin, HandlerError, Complete, TakeEdge, PropagateSkip, EdgesDone, NodeDone
    <2>2. main # "save"
      BY <2>1, NodeMeansRunning
    <2>3. CASE Begin(n) \/ HandlerError(n) \/ EdgesDone(n) \/ NodeDone(n)
      BY <2>2, <2>3 DEF Begin, HandlerError, EdgesDone, NodeDone, Fail
    <2>4. CASE Complete(n)
      BY <2>2, <2>4 DEF Complete
    <2>5. CASE TakeEdge(n) \/ PropagateSkip(n)
      <3>1. PICK e \in Edges, a \in BOOLEAN, L \in SUBSET Edges :
               Effect(n, e, a, L) /\ UNCHANGED <<err, state, store>>
        BY <2>5, EdgeStep
      <3>2. (progress' = progress /\ visited' = visited) \/ progress'
        BY <3>1 DEF Effect, TypeOK, FlagTypes
      <3> QED
        BY <2>2, <3>1, <3>2
    <2> QED
      BY <1>7, <2>3, <2>4, <2>5 DEF Node
  <1>8. CASE Done
    BY <1>8 DEF Done, vars
  <1> QED
    BY <1>1, <1>2, <1>3, <1>4, <1>5, <1>6, <1>7, <1>8 DEF Next, Main

\* With its last pending in-edge gone, a node was queued or skipped.
LEMMA SettledStep ==
  ASSUME TypeOK, IInv, SettledOK, Next
  PROVE  SettledOK'
  <1>1. CASE Execute
    <2>1. inFlight = {} /\ visited' = {} /\ UNCHANGED <<own, skips, store>> /\ saving' = {}
      BY <1>1 DEF IInv, MainOK, Execute, nodeVars
    <2>2. PendingEdges' = Edges
      BY <2>1 DEF PendingEdges, Pending
    <2>3. Settled(visited, received, PendingEdges)'
      BY <2>2 DEF Settled, In
    <2> QED
      BY <2>1, <2>3 DEF SettledOK
  <1>2. CASE Resume
    <2>1. PICK c \in store : received' = c.received /\ visited' = c.visited
      BY <1>2 DEF Resume
    <2>2. inFlight = {} /\ UNCHANGED <<pc, own, skips, store>> /\ saving' = {}
      BY <1>2 DEF IInv, MainOK, Resume, nodeVars
    <2>3. PendingEdges' = Unvisited(c.visited)
      BY <2>1, <2>2 DEF IInv, NodesInv, HandsOK, inFlight, PendingEdges, Pending, Unvisited
    <2>4. Settled(visited, received, PendingEdges)'
      BY <2>1, <2>3 DEF SettledOK, Settled
    <2> QED
      BY <2>2, <2>4 DEF SettledOK
  <1>3. CASE Crash
    <2>1. PendingEdges' = Edges /\ store' = store /\ saving' = {}
      BY <1>3 DEF Crash, PendingEdges, Pending
    <2>2. Settled(visited, received, PendingEdges)'
      BY <2>1 DEF Settled, In
    <2> QED
      BY <2>1, <2>2 DEF SettledOK
  <1>4. CASE Main
    <2>1. UNCHANGED <<visited, received, own, skips>>
      BY <1>4 DEF Main, EmitCheckpoint, SaveCheckpoint, CheckTermination, Return, ScheduleNone,
                  ScheduleNext, queueVars, nodeVars
    <2>2. Settled(visited, received, PendingEdges)'
      BY <2>1, PendingFrame DEF SettledOK, Settled
    <2>3. CASE EmitCheckpoint /\ shouldCheckpoint
      <3> DEFINE c == [received |-> received, visited |-> visited, state |-> state]
      <3>1. saving' = {c} /\ store' = store
        BY <2>3 DEF EmitCheckpoint
      <3>2. PendingEdges = Unvisited(visited)
        BY <2>3, PendingIfIdle DEF shouldCheckpoint, IInv, NodesInv
      <3>3. c.visited = visited /\ c.received = received
        OBVIOUS
      <3> HIDE DEF c
      <3> QED
        BY <2>2, <3>1, <3>2, <3>3 DEF SettledOK
    <2>4. CASE ~ (EmitCheckpoint /\ shouldCheckpoint)
      <3>1. store' \cup saving' \subseteq store \cup saving
        BY <1>4, <2>4 DEF Main, EmitCheckpoint, SaveCheckpoint, CheckTermination, Return,
                          ScheduleNone, ScheduleNext
      <3> QED
        BY <2>2, <3>1 DEF SettledOK
    <2> QED
      BY <2>3, <2>4
  <1>5. ASSUME NEW n \in Nodes, Node(n) PROVE SettledOK'
    <2>1. UNCHANGED <<store, saving>>
      BY <1>5 DEF Node, Begin, HandlerError, Complete, TakeEdge, PropagateSkip, EdgesDone, NodeDone,
                  mainVars
    <2> SUFFICES Settled(visited, received, PendingEdges)'
      BY <2>1 DEF SettledOK
    <2>2. CASE Begin(n) \/ HandlerError(n) \/ EdgesDone(n) \/ NodeDone(n)
      <3>1. UNCHANGED <<visited, received, own, skips>>
        BY <2>2 DEF Begin, HandlerError, EdgesDone, NodeDone, queueVars
      <3> QED
        BY <3>1, PendingFrame DEF SettledOK, Settled
    <2>3. CASE Complete(n)
      <3>1. n \notin visited /\ own[n] = {} /\ skips[n] = {}
        BY <2>3 DEF Complete, IInv, NodesInv, HandsOK, AtMostOnce, Scheduled, Executing
      <3>2. /\ visited' = visited \cup {n} /\ received' = received /\ skips' = skips
            /\ (own' = own /\ n = Finish) \/ own' = [own EXCEPT ![n] = Out(n)]
        BY <2>3 DEF Complete, queueVars
      <3>3. PendingEdges' = PendingEdges
        BY <3>1, <3>2, TopologyAssumption DEF PendingEdges, Pending, Out, TypeOK, LocalTypes
      <3> QED
        BY <3>2, <3>3 DEF SettledOK, Settled
    <2>4. CASE TakeEdge(n) \/ PropagateSkip(n)
      <3>1. PICK e \in Edges, a \in BOOLEAN, L \in SUBSET Edges : Effect(n, e, a, L)
        BY <2>4, EdgeStep
      <3> SUFFICES ASSUME NEW m \in Nodes \ (visited' \cup {Entry}), In(m) # {},
                          In(m) \cap (PendingEdges \ {e}) = {}
                   PROVE  received'[m] > 0
        BY <3>1 DEF Settled, Effect
      <3>2. received \in [Nodes -> Nat] /\ m \notin visited
        BY <3>1 DEF TypeOK, TaskTypes, Effect
      <3>3. CASE m = Dst[e]
        <4>1. Left(e) = 0
          BY <3>1, <3>3, FS_EmptySet DEF Effect
        <4>2. ~ Skipped(e, a)
          BY <3>1, <3>3 DEF Effect
        <4> QED
          BY <3>1, <3>2, <3>3, <4>1, <4>2 DEF Effect, Skipped
      <3>4. CASE m # Dst[e]
        <4>1. In(m) \cap PendingEdges = {}
          BY <3>4 DEF In
        <4>2. received'[m] = received[m]
          BY <3>1, <3>2, <3>4 DEF Effect
        <4> QED
          BY <3>2, <4>1, <4>2 DEF SettledOK, Settled
      <3> QED
        BY <3>3, <3>4
    <2> QED
      BY <1>5, <2>2, <2>3, <2>4 DEF Node
  <1>6. CASE Done
    <2>1. UNCHANGED vars
      BY <1>6 DEF Done
    <2> QED
      BY <2>1, PendingFrame DEF vars, SettledOK, Settled
  <1> QED
    BY <1>1, <1>2, <1>3, <1>4, <1>5, <1>6 DEF Next

\* A node that can run is in the queue, or a goroutine has it, until an error.
LEMMA QueueStep ==
  ASSUME TypeOK, IInv, FinishOK, QueueComplete, Next
  PROVE  QueueComplete'
  <1>1. CASE Execute
    <2>1. Queued' = {Entry}
      BY <1>1 DEF Execute, Queued
    <2>2. received' = [n \in Nodes |-> IF n = Entry THEN 1 ELSE 0]
      BY <1>1 DEF Execute
    <2> QED
      BY <2>1, <2>2, TopologyAssumption DEF QueueComplete, Scheduled
  <1>2. CASE Resume
    <2>1. PICK c \in store :
            /\ received' = c.received
            /\ visited' = c.visited
            /\ remaining' = RebuiltRemaining(c.visited)
            /\ ready' \in Orders(RebuiltReady(c.visited, c.received))
      BY <1>2 DEF Resume
    <2>2. Queued' = RebuiltReady(c.visited, c.received)
      BY <2>1, RebuiltType DEF Queued
    <2>3. Entry \in visited'
      BY <2>1 DEF IInv, SavedOK, Consistent
    <2> QED
      BY <2>1, <2>2, <2>3 DEF QueueComplete, Scheduled, RebuiltReady
  <1>3. CASE Crash
    BY <1>3, TopologyAssumption DEF Crash, QueueComplete
  <1>4. CASE EmitCheckpoint \/ SaveCheckpoint \/ CheckTermination \/ Return \/ ScheduleNone
    <2>1. /\ UNCHANGED <<ready, received, remaining, visited, pc>>
          /\ err' = "none" => err = "none"
          /\ main # "off" /\ main' # "off"
      BY <1>4 DEF EmitCheckpoint, SaveCheckpoint, CheckTermination, Verdict, Return, ScheduleNone,
                  queueVars, nodeVars
    <2> QED
      BY <2>1 DEF QueueComplete, Scheduled, Queued, Executing
  <1>5. CASE ScheduleNext
    <2> DEFINE h == Head(ready)
    <2>1. /\ UNCHANGED <<remaining, received, visited, err>>
          /\ ready # <<>> /\ ready' = Tail(ready) /\ ready \in Seq(Nodes)
          /\ main # "off"
      BY <1>5 DEF ScheduleNext, TypeOK, TaskTypes
    <2>2. h \in Nodes /\ h \in Queued
      <3>1. 1 \in 1 .. Len(ready) /\ h = ready[1] /\ h \in Nodes
        BY <2>1
      <3> QED
        BY <3>1 DEF Queued
    <2>3. \A m \in Queued : m = h \/ m \in Queued'
      <3>1. \A i \in 1 .. Len(ready) : i = 1 \/ (i - 1 \in 1 .. Len(ready') /\ ready'[i - 1] = ready[i])
        BY <2>1
      <3> QED
        BY <2>1, <3>1 DEF Queued
    <2>4. h \notin visited
      BY <2>2 DEF IInv, NodesInv, AtMostOnce, Scheduled
    <2>5. pc' = [pc EXCEPT ![h] = "start"]
      BY <1>5, <2>4 DEF ScheduleNext
    <2> HIDE DEF h
    <2>6. \A m \in Nodes : Scheduled(m) => Scheduled(m)'
      BY <2>2, <2>3, <2>5 DEF Scheduled, Executing, TypeOK, LocalTypes
    <2> QED
      BY <2>1, <2>6 DEF QueueComplete
  <1>6. ASSUME NEW n \in Nodes, Node(n) PROVE QueueComplete'
    <2>1. CASE Begin(n) \/ HandlerError(n) \/ EdgesDone(n) \/ NodeDone(n)
      <3>1. UNCHANGED <<ready, received, remaining, visited>>
        BY <2>1 DEF Begin, HandlerError, EdgesDone, NodeDone, queueVars
      <3>2. err' = "none" => err = "none" /\ \A m \in Nodes : Executing(m) => Executing(m)'
        <4>1. Begin(n) /\ err = "none" => ~ finished
          BY FinishLastNow DEF FinishLast, FinishOK, Begin, Executing
        <4> QED
          BY <2>1, <4>1 DEF Begin, HandlerError, EdgesDone, NodeDone, Fail, Executing, TypeOK,
                            LocalTypes
      <3>3. main # "off"
        BY <2>1, NodeMeansRunning DEF Begin, HandlerError, EdgesDone, NodeDone
      <3> QED
        BY <3>1, <3>2, <3>3 DEF QueueComplete, Scheduled, Queued
    <2>2. CASE Complete(n)
      <3>1. /\ UNCHANGED <<ready, received, remaining, err>> /\ visited' = visited \cup {n}
            /\ \A m \in Nodes \ {n} : pc'[m] = pc[m]
        BY <2>2 DEF Complete, queueVars, TypeOK, LocalTypes
      <3>2. main # "off"
        BY <2>2, NodeMeansRunning DEF Complete
      <3> QED
        BY <3>1, <3>2 DEF QueueComplete, Scheduled, Queued, Executing
    <2>3. CASE TakeEdge(n) \/ PropagateSkip(n)
      <3>1. PICK e \in Edges, a \in BOOLEAN, L \in SUBSET Edges :
               Effect(n, e, a, L) /\ UNCHANGED <<err, pc>>
        BY <2>3, EdgeStep
      <3>2. remaining \in [Nodes -> Nat] /\ received \in [Nodes -> Nat]
        BY DEF TypeOK, TaskTypes
      <3>3. \A m \in Nodes \ {Dst[e]} : received'[m] = received[m] /\ remaining'[m] = remaining[m]
        BY <3>1, <3>2 DEF Effect
      <3>4. Queued \subseteq Queued' /\ visited \subseteq visited' /\ Dst[e] # Entry /\ main # "off"
        BY <3>1 DEF Effect
      <3>5. received'[Dst[e]] > 0 /\ remaining'[Dst[e]] = 0 => Dst[e] \in Queued'
        BY <3>1, <3>2 DEF Effect
      <3>6. err' = err /\ \A m \in Nodes : Executing(m) => Executing(m)'
        BY <3>1 DEF Executing
      <3> QED
        BY <3>3, <3>4, <3>5, <3>6, TopologyAssumption DEF QueueComplete, Scheduled
    <2> QED
      BY <1>6, <2>1, <2>2, <2>3 DEF Node
  <1>7. CASE Done
    BY <1>7 DEF Done, vars, QueueComplete, Scheduled, Queued, Executing
  <1> QED
    BY <1>1, <1>2, <1>3, <1>4, <1>5, <1>6, <1>7 DEF Next, Main

\* In an acyclic graph no path leads from a node back to it, and paths compose.
LEMMA BelowFacts ==
  ASSUME NEW n \in Nodes
  PROVE  /\ Below(n) \subseteq Nodes
         /\ n \notin Below(n)
         /\ \A e \in Out(n) : Dst[e] \in Below(n)
         /\ \A t \in Below(n) : Below(t) \subseteq Below(n)
  <1>1. Below(n) \subseteq Nodes
    BY DEF Below
  <1>2. \A e \in Out(n) : Dst[e] \in Below(n)
    BY TopologyAssumption DEF Below, Out
  <1>3. \A e \in Edges : Src[e] \in Below(n) => Dst[e] \in Below(n)
    BY TopologyAssumption DEF Below
  <1>4. \A t \in Below(n) : Below(t) \subseteq Below(n)
    <2> TAKE t \in Below(n)
    <2>1. Below(n) \in SUBSET Nodes /\ \A e \in Out(t) : Dst[e] \in Below(n)
      BY <1>1, <1>3 DEF Out
    <2> QED
      BY <1>3, <2>1 DEF Below
  <1>5. n \notin Below(n)
    <2> SUFFICES ASSUME n \in Below(n) PROVE FALSE
      OBVIOUS
    <2>1. Below(n) \in (SUBSET Nodes) \ {{}}
      BY <1>1
    <2>2. PICK r \in Below(n) : \A e \in In(r) : Src[e] \notin Below(n)
      BY <2>1, TopologyAssumption DEF Acyclic
    <2> DEFINE S == Below(n) \ {r}
    <2>3. S \in SUBSET Nodes
      BY <1>1
    <2>4. \A e \in Out(n) : Dst[e] \in S
      BY <1>2, <2>2 DEF Out, In
    <2>5. \A e \in Edges : Src[e] \in S => Dst[e] \in S
      BY <1>3, <2>2 DEF In
    <2>6. r \in S
      <3> HIDE DEF S
      <3> QED
        BY <2>3, <2>4, <2>5 DEF Below
    <2> QED
      BY <2>6
  <1> QED
    BY <1>1, <1>2, <1>4, <1>5

\* Work that a taken edge set going is handed on until it reaches the finish node.
LEMMA MatchedStep ==
  ASSUME TypeOK, IInv, FinishOK, MatchedOK, Next
  PROVE  MatchedOK'
  <1>1. CASE Execute \/ Resume \/ Crash
    <2>1. matched' = {}
      <3>1. CASE Execute \/ Resume
        <4>1. Idle /\ matched' = matched
          BY <3>1 DEF Execute, Resume, nodeVars
        <4> QED
          BY <4>1 DEF IInv, MainOK, MatchedOK
      <3>2. CASE Crash
        BY <3>2 DEF Crash
      <3> QED
        BY <1>1, <3>1, <3>2
    <2>2. \A n \in Nodes : pc'[n] # "exit"
      <3>1. CASE Execute \/ Resume
        <4>1. Idle /\ pc' = pc
          BY <3>1 DEF Execute, Resume, nodeVars
        <4> QED
          BY <4>1 DEF IInv, MainOK, inFlight
      <3>2. CASE Crash
        BY <3>2 DEF Crash
      <3> QED
        BY <1>1, <3>1, <3>2
    <2> QED
      BY <2>1, <2>2 DEF MatchedOK
  <1>2. CASE EmitCheckpoint \/ SaveCheckpoint \/ CheckTermination \/ Return \/ ScheduleNone
    <2>1. UNCHANGED <<matched, pc, received, visited, finished>> /\ (err' = "none" => err = "none")
      BY <1>2 DEF EmitCheckpoint, SaveCheckpoint, CheckTermination, Return, ScheduleNone, queueVars,
                  nodeVars
    <2> QED
      BY <2>1 DEF MatchedOK, inFlight
  <1>3. CASE ScheduleNext
    <2>1. /\ UNCHANGED <<matched, received, visited, finished, err>>
          /\ \A m \in Nodes : pc'[m] = pc[m] \/ pc'[m] = "start"
      BY <1>3 DEF ScheduleNext, TypeOK, LocalTypes
    <2> QED
      BY <2>1 DEF MatchedOK, inFlight, Below
  <1>4. ASSUME NEW n \in Nodes, Node(n) PROVE MatchedOK'
    <2>1. CASE Begin(n) \/ HandlerError(n) \/ EdgesDone(n)
      <3>1. /\ UNCHANGED <<matched, received, visited, finished>> /\ (err' = "none" => err = "none")
            /\ \A m \in Nodes : pc'[m] # "idle" <=> pc[m] # "idle"
        BY <2>1 DEF Begin, HandlerError, EdgesDone, Fail, queueVars, TypeOK, LocalTypes
      <3>2. err' = "none" /\ ~ finished => \A m \in Nodes : pc'[m] = "exit" => pc[m] = "exit" \/ m \in matched
        BY <2>1 DEF Begin, HandlerError, EdgesDone, Fail, TypeOK, LocalTypes
      <3> QED
        BY <3>1, <3>2 DEF MatchedOK, inFlight, Below
    <2>2. CASE NodeDone(n)
      <3>1. /\ UNCHANGED <<received, visited, finished, err>> /\ matched' = matched \ {n}
            /\ pc[n] = "exit" /\ pc'[n] = "idle" /\ \A m \in Nodes \ {n} : pc'[m] = pc[m]
        BY <2>2 DEF NodeDone, queueVars, TypeOK, LocalTypes
      <3>2. matched' \subseteq inFlight'
        BY <3>1 DEF MatchedOK, inFlight
      <3>3. ASSUME err = "none", ~ finished, NEW m \in matched'
            PROVE  \E t \in Below(m) : received[t] > 0 /\ (t \notin visited \/ pc'[t] # "idle")
        <4>1. m \in matched /\ m \in Nodes /\ n \in matched
          BY <3>1, <3>3 DEF MatchedOK, inFlight
        <4>2. PICK t \in Below(m) : received[t] > 0 /\ (t \notin visited \/ pc[t] # "idle")
          BY <3>3, <4>1 DEF MatchedOK
        <4>3. CASE t # n
          BY <3>1, <4>1, <4>2, <4>3, BelowFacts
        <4>4. CASE t = n
          <5>1. PICK u \in Below(n) : received[u] > 0 /\ (u \notin visited \/ pc[u] # "idle")
            BY <3>3, <4>1 DEF MatchedOK
          <5>2. u # n /\ u \in Nodes /\ u \in Below(m)
            BY <4>1, <4>2, <4>4, <5>1, BelowFacts
          <5> QED
            BY <3>1, <5>1, <5>2
        <4> QED
          BY <4>3, <4>4
      <3> QED
        BY <3>1, <3>2, <3>3 DEF MatchedOK
    <2>3. CASE Complete(n)
      <3>1. /\ UNCHANGED <<received, err, matched>> /\ visited' = visited \cup {n}
            /\ pc[n] = "run"
            /\ IF n = Finish THEN finished' = TRUE ELSE finished' = finished /\ pc'[n] = "edges"
            /\ pc'[n] # "idle" /\ \A m \in Nodes \ {n} : pc'[m] = pc[m]
        BY <2>3 DEF Complete, queueVars, TypeOK, LocalTypes
      <3> QED
        BY <3>1, BelowFacts DEF MatchedOK, inFlight
    <2>4. CASE TakeEdge(n) \/ PropagateSkip(n)
      <3>1. PICK e \in Edges, a \in BOOLEAN, L \in SUBSET Edges :
               /\ HandsOver(n, e, a, L) /\ Effect(n, e, a, L)
               /\ matched' = IF a THEN matched \cup {n} ELSE matched
               /\ UNCHANGED <<finished, err, pc>>
        BY <2>4, EdgeStep
      <3>2. received \in [Nodes -> Nat]
        BY DEF TypeOK, TaskTypes
      <3>3. \A t \in Nodes : /\ received[t] > 0 => received'[t] > 0
                             /\ received[t] > 0 /\ t \notin visited => t \notin visited'
        BY <3>1, <3>2 DEF Effect, Skipped
      <3>4. a => /\ Dst[e] \in Below(n) /\ received'[Dst[e]] > 0 /\ Dst[e] \notin visited'
        <4>1. a => e \in Out(n)
          BY <3>1 DEF HandsOver, IInv, NodesInv, HandsOK
        <4>2. a => Dst[e] \in Below(n)
          BY <4>1, BelowFacts
        <4>3. /\ received'[Dst[e]] = Recv(e, a) /\ Recv(e, a) \in Nat
              /\ a => Recv(e, a) > 0
          BY <3>1, <3>2 DEF Effect
        <4>4. a => ~ Skipped(e, a)
          <5>1. Recv(e, a) > 0 => ~ Skipped(e, a)
            BY <4>3 DEF Skipped
          <5> QED
            BY <4>3, <5>1
        <4>5. a => Dst[e] \notin visited'
          BY <3>1, <4>4 DEF Effect
        <4> QED
          BY <4>2, <4>3, <4>5
      <3>5. matched' \subseteq inFlight'
        BY <3>1 DEF HandsOver, MatchedOK, inFlight
      <3>6. ASSUME err = "none", ~ finished, NEW m \in matched'
            PROVE  \E t \in Below(m) : received'[t] > 0 /\ (t \notin visited' \/ pc[t] # "idle")
        <4>1. CASE m = n /\ a
          BY <3>4, <4>1
        <4>2. CASE ~ (m = n /\ a)
          <5>1. m \in matched /\ m \in Nodes
            BY <3>1, <4>2 DEF MatchedOK, inFlight
          <5>2. PICK t \in Below(m) : received[t] > 0 /\ (t \notin visited \/ pc[t] # "idle")
            BY <3>6, <5>1 DEF MatchedOK
          <5>3. t \in Nodes
            BY <5>1, <5>2, BelowFacts
          <5> QED
            BY <3>3, <5>2, <5>3
        <4> QED
          BY <4>1, <4>2
      <3> QED
        BY <3>1, <3>5, <3>6 DEF MatchedOK
    <2> QED
      BY <1>4, <2>1, <2>2, <2>3, <2>4 DEF Node
  <1>5. CASE Done
    BY <1>5 DEF Done, vars, MatchedOK, inFlight
  <1> QED
    BY <1>1, <1>2, <1>3, <1>4, <1>5 DEF Next, Main

\* A reachable node other than the entry has a predecessor.
LEMMA HasPredecessor ==
  ASSUME NEW n \in Reachable \ {Entry}
  PROVE  In(n) # {}
  <1> SUFFICES ASSUME In(n) = {} PROVE FALSE
    OBVIOUS
  <1> DEFINE S == Reachable \ {n}
  <1>1. S \in SUBSET Nodes /\ Entry \in S
    BY ReachableClosed
  <1>2. \A e \in Edges : Src[e] \in S => Dst[e] \in S
    BY ReachableClosed DEF In
  <1>3. n \in S
    <2> HIDE DEF S
    <2> QED
      BY <1>1, <1>2 DEF Reachable
  <1> QED
    BY <1>3

\* With every node reachable, an execution that has not resolved the finish node
\* has a node whose predecessors are all resolved and that was not skipped.
LEMMA SomeReady ==
  ASSUME NEW V \in SUBSET Nodes, NEW R \in [Nodes -> Nat],
         Reachable = Nodes, Finish \notin V,
         Entry \notin V => R[Entry] > 0,
         Settled(V, R, Unvisited(V))
  PROVE  \E n \in Nodes \ V : R[n] > 0 /\ In(n) \cap Unvisited(V) = {}
  <1> DEFINE S == Nodes \ V
  <1>1. S \in (SUBSET Nodes) \ {{}}
    BY TopologyAssumption
  <1>2. PICK n \in S : \A e \in In(n) : Src[e] \notin S
    BY <1>1, TopologyAssumption DEF Acyclic
  <1>3. In(n) \cap Unvisited(V) = {}
    BY <1>2, TopologyAssumption DEF Unvisited, In
  <1>4. n # Entry => R[n] > 0
    BY <1>3, HasPredecessor DEF Settled
  <1> QED
    BY <1>3, <1>4

\* The queue does not run dry before the finish node is resolved.
LEMMA NotStuck ==
  ASSUME TypeOK, IInv, SettledOK, QueueComplete, Reachable = Nodes,
         main # "off", err = "none", inFlight = {}, Finish \notin visited
  PROVE  Queued # {}
  <1>1. PendingEdges = Unvisited(visited)
    BY PendingIfIdle DEF IInv, NodesInv
  <1>2. visited \in SUBSET Nodes /\ received \in [Nodes -> Nat]
    BY DEF TypeOK, TaskTypes
  <1>3. PICK n \in Nodes \ visited : received[n] > 0 /\ In(n) \cap Unvisited(visited) = {}
    BY <1>1, <1>2, SomeReady DEF SettledOK, QueueComplete
  <1>4. remaining[n] = 0
    BY <1>1, <1>3, FS_EmptySet DEF IInv, NodesInv, Counts
  <1> QED
    BY <1>3, <1>4 DEF QueueComplete, Scheduled, Executing, inFlight

\* A settled task whose finish node was skipped has an error, and "unreachable" is
\* never the first one.
LEMMA StallStep ==
  ASSUME TypeOK, IInv, FinishOK, SettledOK, QueueComplete, MatchedOK, StallOK, Next
  PROVE  StallOK'
  <1>1. CASE Execute \/ Resume \/ Crash
    <2>1. err' = "none" /\ (Finish \in visited' => finished')
      BY <1>1 DEF Execute, Resume, Crash
    <2> QED
      BY <2>1 DEF StallOK
  <1>2. CASE EmitCheckpoint \/ SaveCheckpoint \/ CheckTermination \/ Return
    <2>1. UNCHANGED <<visited, finished, pc>>
      BY <1>2 DEF EmitCheckpoint, SaveCheckpoint, CheckTermination, Return, nodeVars
    <2>2. err' = err \/ (err = "none" /\ err' = "save")
      BY <1>2 DEF EmitCheckpoint, SaveCheckpoint, CheckTermination, Return
    <2> QED
      BY <2>1, <2>2 DEF StallOK, inFlight
  <1>3. CASE ScheduleNone
    <2>1. UNCHANGED <<visited, finished, pc>>
      BY <1>3 DEF ScheduleNone, nodeVars
    <2>2. err' = err \/ (/\ err' = "unreachable" /\ err = "none" /\ ~ finished /\ inFlight = {}
                         /\ ready = <<>> /\ main # "off")
      BY <1>3 DEF ScheduleNone
    <2>3. ready = <<>> => Queued = {}
      BY DEF Queued
    <2>4. err' # err => Reachable # Nodes
      BY <2>2, <2>3, NotStuck DEF StallOK
    <2> QED
      BY <2>1, <2>2, <2>4 DEF StallOK, inFlight
  <1>4. CASE ScheduleNext
    <2>1. /\ UNCHANGED <<visited, finished, err>>
          /\ \A m \in Nodes : pc'[m] = pc[m] \/ pc'[m] = "start"
      BY <1>4 DEF ScheduleNext, TypeOK, LocalTypes
    <2>2. inFlight' = {} => inFlight = {}
      BY <2>1 DEF inFlight
    <2> QED
      BY <2>1, <2>2 DEF StallOK
  <1>5. ASSUME NEW n \in Nodes, Node(n) PROVE StallOK'
    <2>1. err' # "unreachable" \/ err' = err
      BY <1>5 DEF Node, Begin, HandlerError, Complete, TakeEdge, PropagateSkip, EdgesDone, NodeDone,
                  Fail
    <2>2. CASE ~ NodeDone(n)
      <3>1. pc'[n] # "idle"
        BY <1>5, <2>2 DEF Node, Begin, HandlerError, Complete, TakeEdge, PropagateSkip, EdgesDone,
                          TypeOK, LocalTypes
      <3> QED
        BY <2>1, <3>1 DEF StallOK, inFlight
    <2>3. CASE NodeDone(n)
      <3>1. /\ UNCHANGED <<visited, finished, err, received>> /\ pc[n] = "exit"
            /\ \A m \in Nodes \ {n} : pc'[m] = pc[m]
        BY <2>3 DEF NodeDone, queueVars, TypeOK, LocalTypes
      <3>2. ASSUME Finish \in visited, ~ finished, inFlight' = {}, err = "none" PROVE FALSE
        <4>1. PICK t \in Below(n) : received[t] > 0 /\ (t \notin visited \/ pc[t] # "idle")
          BY <3>1, <3>2 DEF MatchedOK
        <4>2. t \in Nodes /\ t # n
          BY <4>1, BelowFacts
        <4>3. t \notin visited
          BY <3>1, <3>2, <4>1, <4>2 DEF inFlight
        <4>4. Reachable \subseteq visited
          BY <3>2, FinishLastNow DEF FinishLast
        <4>5. t # Entry => \E e \in In(t) : Src[e] \in state
          BY <4>1, <4>2 DEF IInv, NodesInv, Consistent
        <4>6. t \in Reachable
          BY <4>2, <4>5, ReachableClosed DEF IInv, NodesInv, Consistent, In
        <4> QED
          BY <4>3, <4>4, <4>6
      <3> QED
        BY <3>1, <3>2 DEF StallOK
    <2> QED
      BY <2>2, <2>3
  <1>6. CASE Done
    BY <1>6 DEF Done, vars, StallOK, inFlight
  <1> QED
    BY <1>1, <1>2, <1>3, <1>4, <1>5, <1>6 DEF Next, Main

\* A serial task: main moves only between nodes.
LEMMA SerialStep ==
  ASSUME TypeOK, IInv, FinishOK, SerialOK, Next
  PROVE  SerialOK'
  <1> SUFFICES ASSUME ~ Parallel PROVE SerialOK'
    BY DEF SerialOK
  <1>1. CASE Execute \/ Resume
    BY <1>1 DEF Execute, Resume, SerialOK
  <1>2. CASE Crash
    BY <1>2 DEF Crash, SerialOK, inFlight
  <1>3. CASE EmitCheckpoint \/ SaveCheckpoint \/ CheckTermination \/ Return \/ ScheduleNone
    <2>1. inFlight = {} /\ inFlight' = {}
      BY <1>3 DEF EmitCheckpoint, SaveCheckpoint, CheckTermination, Return, ScheduleNone, MainMayRun,
                  nodeVars, inFlight, IInv, MainOK
    <2>2. result # "ok"
      BY <1>3 DEF FinishOK, EmitCheckpoint, SaveCheckpoint, CheckTermination, Return, ScheduleNone
    <2>3. CASE EmitCheckpoint
      BY <2>1, <2>2, <2>3 DEF EmitCheckpoint, SerialOK, shouldCheckpoint
    <2>4. CASE SaveCheckpoint \/ CheckTermination \/ Return
      BY <2>1, <2>2, <2>4 DEF SaveCheckpoint, CheckTermination, Verdict, Return, SerialOK
    <2>5. CASE ScheduleNone
      BY <2>1, <2>2, <2>5 DEF ScheduleNone, SerialOK
    <2> QED
      BY <1>3, <2>3, <2>4, <2>5
  <1>4. CASE ScheduleNext
    BY <1>4 DEF ScheduleNext, FinishOK, SerialOK
  <1>5. ASSUME NEW n \in Nodes, Node(n) PROVE SerialOK'
    <2>1. pc[n] # "idle"
      BY <1>5 DEF Node, Begin, HandlerError, Complete, TakeEdge, PropagateSkip, EdgesDone, NodeDone
    <2>2. main = "emit" /\ result # "ok"
      BY <2>1 DEF FinishOK, SerialOK, inFlight
    <2>3. main' \in {main, Wake(main)} /\ result' = result
      BY <1>5 DEF Node, Begin, HandlerError, Complete, TakeEdge, PropagateSkip, EdgesDone, NodeDone,
                  Fail, Satisfy, mainVars
    <2> QED
      BY <2>2, <2>3 DEF SerialOK, Wake
  <1>6. CASE Done
    BY <1>6 DEF Done, vars, SerialOK, inFlight
  <1> QED
    BY <1>1, <1>2, <1>3, <1>4, <1>5, <1>6 DEF Next, Main

\* After the decision for "ok" no error is recorded.
LEMMA ErrorStep ==
  ASSUME TypeOK, IInv, FinishOK, SerialOK, ErrorOK, Next
  PROVE  ErrorOK'
  <1>1. CASE Execute \/ Resume
    BY <1>1 DEF Execute, Resume, nodeVars, ErrorOK
  <1>2. CASE Crash
    BY <1>2, TopologyAssumption DEF Crash, ErrorOK
  <1>3. CASE EmitCheckpoint \/ SaveCheckpoint \/ CheckTermination \/ Return \/ ScheduleNone
    <2>1. UNCHANGED <<pc, own, matched>>
      BY <1>3 DEF EmitCheckpoint, SaveCheckpoint, CheckTermination, Return, ScheduleNone, nodeVars
    <2>2. main' = "wait_ok" \/ result' = "ok" =>
             err' = err /\ (err = "none" \/ main = "wait_ok" \/ result = "ok")
      BY <1>3 DEF EmitCheckpoint, SaveCheckpoint, CheckTermination, Verdict, Return, ScheduleNone,
                  FinishOK
    <2> QED
      BY <2>1, <2>2 DEF ErrorOK
  <1>4. CASE ScheduleNext
    <2>1. /\ UNCHANGED <<own, matched, err, result>> /\ main' = "emit"
          /\ \A m \in Nodes : pc'[m] = pc[m] \/ pc'[m] = "start"
      BY <1>4 DEF ScheduleNext, TypeOK, LocalTypes
    <2> QED
      BY <2>1, TopologyAssumption DEF ErrorOK
  <1>5. ASSUME NEW n \in Nodes, Node(n) PROVE ErrorOK'
    <2>1. pc[n] # "idle"
      BY <1>5 DEF Node, Begin, HandlerError, Complete, TakeEdge, PropagateSkip, EdgesDone, NodeDone
    <2>2. result # "ok" /\ main # "returned" /\ result' = result
      BY <1>5, <2>1, NodeMeansRunning
      DEF Idle, FinishOK, Node, Begin, HandlerError, Complete, TakeEdge, PropagateSkip, EdgesDone,
          NodeDone, mainVars
    <2>3. main' = "wait_ok" => main = "wait_ok"
      BY <1>5 DEF Node, Begin, HandlerError, Complete, TakeEdge, PropagateSkip, EdgesDone, NodeDone,
                  Fail, Wake, Satisfy, mainVars
    <2>4. (Conditional = {} \/ ~ Parallel) /\ main = "wait_ok" => err' = err
      <3>1. CASE HandlerError(n)
        <4>1. main # "wait_ok"
          BY <3>1, FinishLastNow DEF FinishLast, FinishOK, HandlerError, Executing
        <4> QED
          BY <4>1
      <3>2. CASE EdgesDone(n)
        <4>1. ~ Parallel => main # "wait_ok"
          BY <2>1 DEF SerialOK, inFlight
        <4>2. Conditional = {} => n \in matched
          BY <3>2, TopologyAssumption DEF EdgesDone, ErrorOK
        <4> QED
          BY <3>2, <4>1, <4>2 DEF EdgesDone
      <3> QED
        BY <1>5, <3>1, <3>2 DEF Node, Begin, Complete, TakeEdge, PropagateSkip, NodeDone
    <2>5. /\ \A m \in Nodes : pc'[m] = "edges" /\ m \notin Conditional =>
                m \in matched' \/ own'[m] = Out(m)
          /\ pc'[Finish] # "edges"
      <3>1. CASE Begin(n) \/ HandlerError(n) \/ EdgesDone(n) \/ NodeDone(n)
        <4>1. /\ own' = own /\ matched \ {n} \subseteq matched'
              /\ pc'[n] # "edges" /\ \A m \in Nodes \ {n} : pc'[m] = pc[m]
          BY <3>1 DEF Begin, HandlerError, EdgesDone, NodeDone, TypeOK, LocalTypes
        <4> QED
          BY <4>1, TopologyAssumption DEF ErrorOK
      <3>2. CASE Complete(n)
        <4>1. /\ matched' = matched /\ \A m \in Nodes \ {n} : pc'[m] = pc[m] /\ own'[m] = own[m]
              /\ IF n = Finish THEN pc'[n] = "exit" ELSE own'[n] = Out(n)
          BY <3>2 DEF Complete, TypeOK, LocalTypes
        <4> QED
          BY <4>1, TopologyAssumption DEF ErrorOK
      <3>3. CASE TakeEdge(n)
        <4>1. PICK a \in BOOLEAN :
                /\ n \notin Conditional => a
                /\ matched' = IF a THEN matched \cup {n} ELSE matched
          BY <3>3 DEF TakeEdge
        <4>2. pc' = pc /\ \A m \in Nodes \ {n} : own'[m] = own[m]
          BY <3>3 DEF TakeEdge, TypeOK, LocalTypes
        <4> QED
          BY <4>1, <4>2, TopologyAssumption DEF ErrorOK
      <3>4. CASE PropagateSkip(n)
        BY <3>4 DEF PropagateSkip, ErrorOK
      <3> QED
        BY <1>5, <3>1, <3>2, <3>3, <3>4 DEF Node
    <2> QED
      BY <2>2, <2>3, <2>4, <2>5 DEF ErrorOK
  <1>6. CASE Done
    BY <1>6 DEF Done, vars, ErrorOK
  <1> QED
    BY <1>1, <1>2, <1>3, <1>4, <1>5, <1>6 DEF Next, Main

LInv ==
  /\ FinishOK /\ KeptOK /\ SettledOK /\ QueueComplete
  /\ MatchedOK /\ StallOK /\ SerialOK /\ ErrorOK

\* It holds before the first call.
LEMMA InitLoop == Init => LInv
  <1> SUFFICES ASSUME Init PROVE LInv
    OBVIOUS
  <1> USE TopologyAssumption DEF Init
  <1>1. FinishOK /\ KeptOK
    BY DEF FinishOK, KeptOK
  <1>2. SettledOK
    <2>1. PendingEdges = Edges
      BY DEF PendingEdges, Pending
    <2> QED
      BY <2>1 DEF SettledOK, Settled, In
  <1>3. QueueComplete /\ StallOK
    BY DEF QueueComplete, StallOK
  <1>4. MatchedOK /\ SerialOK /\ ErrorOK
    BY DEF MatchedOK, SerialOK, ErrorOK, inFlight
  <1> QED
    BY <1>1, <1>2, <1>3, <1>4 DEF LInv

(***************************************************************************)
(* The second invariant holds in every execution: the loop of run loses    *)
(* neither a node that could run, nor progress that was not saved, nor an  *)
(* error that was reported.                                                *)
(***************************************************************************)
THEOREM LoopInvariance == Spec => []LInv
  <1>1. TypeOK /\ IInv /\ LInv /\ [Next]_vars => LInv'
    <2> SUFFICES ASSUME TypeOK, IInv, LInv, [Next]_vars PROVE LInv'
      OBVIOUS
    <2>1. CASE Next
      BY <2>1, FinishStep, KeptStep, SettledStep, QueueStep, MatchedStep, StallStep, SerialStep,
         ErrorStep DEF LInv
    <2>2. CASE UNCHANGED vars
      <3>1. FinishOK' /\ KeptOK'
        BY <2>2 DEF vars, LInv, FinishOK, KeptOK, Snapshot
      <3>2. SettledOK'
        BY <2>2, PendingFrame DEF vars, LInv, SettledOK, Settled
      <3>3. QueueComplete' /\ StallOK'
        BY <2>2 DEF vars, LInv, QueueComplete, Scheduled, Executing, Queued, StallOK, inFlight
      <3>4. MatchedOK' /\ SerialOK' /\ ErrorOK'
        BY <2>2 DEF vars, LInv, MatchedOK, SerialOK, ErrorOK, inFlight
      <3> QED
        BY <3>1, <3>2, <3>3, <3>4 DEF LInv
    <2> QED
      BY <2>1, <2>2
  <1> QED
    BY InitLoop, TypeCorrect, Invariance, <1>1, PTL DEF Spec

(***************************************************************************)
(* Checkpoint and Resume fit together: the queue that restoreCheckpoint    *)
(* rebuilds is the queue the task had, and a saved checkpoint of a graph   *)
(* whose nodes are all reachable can always be continued.                  *)
(***************************************************************************)
THEOREM CheckpointSoundHolds == Spec => []CheckpointSound
  <1>1. TypeOK /\ IInv /\ LInv => CheckpointSound
    <2> SUFFICES ASSUME TypeOK, IInv, LInv PROVE CheckpointSound
      OBVIOUS
    <2>1. ASSUME shouldCheckpoint
          PROVE  /\ \A n \in Nodes \ visited : RebuiltRemaining(visited)[n] = remaining[n]
                 /\ Queued \subseteq RebuiltReady(visited, received)
                 /\ err = "none" => RebuiltReady(visited, received) = Queued
      <3>1. inFlight = {} /\ visited # {} /\ main # "off" /\ Entry \in visited
        BY <2>1 DEF shouldCheckpoint, IInv, MainOK, NodesInv, Consistent
      <3>2. PendingEdges = Unvisited(visited)
        BY <3>1, PendingIfIdle DEF IInv, NodesInv
      <3>3. ASSUME NEW n \in Nodes \ visited
            PROVE  RebuiltRemaining(visited)[n] = remaining[n]
        <4>1. {e \in In(n) : Src[e] \notin visited} = In(n) \cap Unvisited(visited)
          BY DEF In, Unvisited
        <4>2. RebuiltRemaining(visited)[n] = Cardinality({e \in In(n) : Src[e] \notin visited})
          BY DEF RebuiltRemaining
        <4> QED
          BY <3>1, <3>2, <4>1, <4>2 DEF IInv, NodesInv, Counts
      <3>4. Queued \subseteq RebuiltReady(visited, received)
        <4> SUFFICES ASSUME NEW n \in Queued PROVE n \in RebuiltReady(visited, received)
          OBVIOUS
        <4>1. n \in Nodes \ visited /\ n # Entry
          BY <3>1, QueuedNodes DEF IInv, NodesInv, AtMostOnce, Scheduled
        <4>2. remaining[n] = 0 /\ received[n] > 0
          BY <4>1 DEF IInv, NodesInv, ScheduledOK
        <4> QED
          BY <3>3, <4>1, <4>2 DEF RebuiltReady
      <3>5. err = "none" => RebuiltReady(visited, received) \subseteq Queued
        <4> SUFFICES ASSUME err = "none", NEW n \in RebuiltReady(visited, received)
                     PROVE  n \in Queued
          OBVIOUS
        <4>1. n \in Nodes \ visited /\ received[n] > 0 /\ RebuiltRemaining(visited)[n] = 0
          BY DEF RebuiltReady
        <4>2. Scheduled(n)
          BY <3>3, <4>1 DEF LInv, QueueComplete
        <4> QED
          BY <3>1, <4>1, <4>2 DEF Scheduled, Executing, inFlight
      <3> QED
        BY <3>3, <3>4, <3>5
    <2>2. ASSUME Reachable = Nodes, NEW c \in store, Finish \notin c.visited
          PROVE  RebuiltReady(c.visited, c.received) # {}
      <3>1. c.visited \in SUBSET Nodes /\ c.received \in [Nodes -> Nat]
        BY DEF TypeOK, FlagTypes, Checkpoint
      <3>2. Entry \in c.visited /\ Settled(c.visited, c.received, Unvisited(c.visited))
        BY DEF IInv, SavedOK, Consistent, LInv, SettledOK
      <3>3. PICK n \in Nodes \ c.visited :
              c.received[n] > 0 /\ In(n) \cap Unvisited(c.visited) = {}
        BY <2>2, <3>1, <3>2, SomeReady
      <3>4. {e \in In(n) : Src[e] \notin c.visited} = {}
        BY <3>3 DEF In, Unvisited
      <3>5. RebuiltRemaining(c.visited)[n] = 0
        BY <3>3, <3>4, FS_EmptySet DEF RebuiltRemaining
      <3> QED
        BY <3>3, <3>5 DEF RebuiltReady
    <2> QED
      BY <2>1, <2>2 DEF CheckpointSound
  <1> QED
    BY <1>1, TypeCorrect, Invariance, LoopInvariance, PTL

(***************************************************************************)
(* A call that was resumed after the finish node was skipped: the loop     *)
(* goes straight to the return, and nothing of the task changes.           *)
(***************************************************************************)
ResumedOver ==
  finished /\ Finish \notin state =>
    /\ inFlight = {} /\ err = "none" /\ ~ progress /\ saving = {}
    /\ main \in {"emit", "term", "wait_ok", "returned"}
    /\ \E c \in store : c.visited = visited /\ c.state = state

\* Such a call stays what it is, and only Resume begins one.
LEMMA ResumedStep ==
  ASSUME TypeOK, IInv, ResumedOver, Next
  PROVE  ResumedOver'
  <1>1. CASE Execute
    BY <1>1 DEF Execute, ResumedOver
  <1>2. CASE Resume
    <2>1. inFlight = {}
      BY <1>2 DEF Resume, Idle, IInv, MainOK, NodesInv
    <2>2. inFlight' = {}
      BY <1>2, <2>1 DEF Resume, nodeVars, inFlight
    <2>3. PICK c \in store : visited' = c.visited /\ state' = c.state
      BY <1>2 DEF Resume
    <2> QED
      BY <1>2, <2>2, <2>3 DEF Resume, ResumedOver
  <1>3. CASE Crash
    BY <1>3 DEF Crash, ResumedOver
  <1>4. CASE Main
    <2>1. CASE finished /\ Finish \notin state
      <3>1. inFlight = {} /\ ~ shouldCheckpoint /\ Verdict = "wait_ok"
        BY <2>1 DEF ResumedOver, shouldCheckpoint, Verdict
      <3>2. /\ pc' = pc /\ visited' = visited /\ state' = state /\ store' = store
            /\ err' = err /\ progress' = progress /\ saving' = saving
            /\ main' \in {"emit", "term", "wait_ok", "returned"}
        BY <1>4, <2>1, <3>1 DEF ResumedOver, Main, EmitCheckpoint, SaveCheckpoint, CheckTermination,
           Return, ScheduleNone, ScheduleNext, nodeVars
      <3>3. inFlight' = {}
        BY <3>1, <3>2 DEF inFlight
      <3> QED
        BY <2>1, <3>2, <3>3 DEF ResumedOver
    <2>2. CASE ~ (finished /\ Finish \notin state)
      <3>1. finished' = finished /\ state' = state
        BY <1>4 DEF Main, EmitCheckpoint, SaveCheckpoint, CheckTermination, Return, ScheduleNone, ScheduleNext
      <3> QED
        BY <2>2, <3>1 DEF ResumedOver
    <2> QED
      BY <2>1, <2>2
  <1>5. ASSUME NEW n \in Nodes, Node(n) PROVE ResumedOver'
    <2>1. n \in inFlight
      BY <1>5 DEF Node, Begin, HandlerError, Complete, TakeEdge, PropagateSkip, EdgesDone, NodeDone, inFlight
    <2>2. ~ (finished /\ Finish \notin state)
      BY <2>1 DEF ResumedOver
    <2>3. CASE Complete(n)
      <3>1. state' = state \cup {n} /\ (n = Finish \/ finished' = finished)
        BY <2>3 DEF Complete
      <3> QED
        BY <2>2, <3>1 DEF ResumedOver
    <2>4. CASE Begin(n) \/ HandlerError(n) \/ TakeEdge(n) \/ PropagateSkip(n) \/ EdgesDone(n) \/ NodeDone(n)
      <3>1. state' = state /\ finished' = finished
        BY <2>4 DEF Begin, HandlerError, TakeEdge, PropagateSkip, EdgesDone, NodeDone
      <3> QED
        BY <2>2, <3>1 DEF ResumedOver
    <2> QED
      BY <1>5, <2>3, <2>4 DEF Node
  <1>6. CASE Done
    BY <1>6 DEF Done, vars, ResumedOver, inFlight
  <1> QED
    BY <1>1, <1>2, <1>3, <1>4, <1>5, <1>6 DEF Next

(***************************************************************************)
(* "finish node not reachable" is never reported for a graph whose nodes   *)
(* are all reachable; a task that skips its finish node ends with an       *)
(* error, and a call that is resumed from its checkpoint runs nothing.     *)
(***************************************************************************)
THEOREM StallReportedHolds == Spec => []StallReported
  <1>1. Init => ResumedOver
    BY DEF Init, ResumedOver
  <1>2. ASSUME TypeOK, IInv, ResumedOver, [Next]_vars PROVE ResumedOver'
    <2>1. CASE UNCHANGED vars
      BY <1>2, <2>1 DEF vars, ResumedOver, inFlight
    <2> QED
      BY <1>2, <2>1, ResumedStep
  <1>3. LInv /\ ResumedOver => StallReported
    BY DEF LInv, StallOK, ResumedOver, StallReported
  <1> QED
    BY <1>1, <1>2, <1>3, TypeCorrect, Invariance, LoopInvariance, PTL DEF Spec

(***************************************************************************)
(* A serial run that returned "ok" recorded no error and left a checkpoint *)
(* of its last state.  (For parallel runs this is the finding that run     *)
(* graph_parallel_final shows.)                                            *)
(***************************************************************************)
THEOREM FinalCheckpointHolds ==
  ASSUME ~ Parallel
  PROVE  Spec => []FinalCheckpoint
  <1>1. TypeOK /\ LInv => FinalCheckpoint
    <2> SUFFICES ASSUME TypeOK, LInv, result = "ok"
                 PROVE  /\ err = "none"
                        /\ Checkpointing => \E c \in store : c.visited = visited /\ c.state = state
      BY DEF FinalCheckpoint
    <2>1. err = "none" /\ visited # {} /\ main = "returned" /\ (Checkpointing => ~ progress)
      BY DEF LInv, FinishOK, ErrorOK, SerialOK
    <2> QED
      BY <2>1 DEF LInv, KeptOK, Snapshot
  <1> QED
    BY <1>1, TypeCorrect, LoopInvariance, PTL

\* Without conditional edges nothing is skipped.
LEMMA NothingSkipped ==
  ASSUME TypeOK, IInv, Conditional = {}
  PROVE  visited = state
  <1> DEFINE S == visited \ state
  <1> SUFFICES ASSUME S # {} PROVE FALSE
    BY DEF IInv, NodesInv, Consistent
  <1>1. S \in (SUBSET Nodes) \ {{}}
    BY DEF TypeOK, TaskTypes
  <1>2. PICK n \in S : \A e \in In(n) : Src[e] \notin S
    BY <1>1, TopologyAssumption DEF Acyclic
  <1>3. n \in Reachable \ {Entry} /\ In(n) \cap PendingEdges = {}
    BY DEF IInv, NodesInv, Consistent
  <1>4. PICK e \in In(n) : TRUE
    BY <1>3, HasPredecessor
  <1>5. Src[e] \in visited
    BY <1>3, <1>4 DEF PendingEdges, Pending, In
  <1>6. Src[e] \in state
    BY <1>2, <1>4, <1>5
  <1> QED
    BY <1>4, <1>6 DEF IInv, NodesInv, Consistent

(***************************************************************************)
(* In a graph without routers a run that returned "ok" ran the finish      *)
(* node's handler and recorded no error, parallel or not.                  *)
(***************************************************************************)
THEOREM OkSoundHolds ==
  ASSUME Conditional = {}
  PROVE  Spec => []OkSound
  <1>1. TypeOK /\ IInv /\ LInv => OkSound
    <2> SUFFICES ASSUME TypeOK, IInv, LInv, result = "ok"
                 PROVE  Finish \in state /\ err = "none"
      BY DEF OkSound
    <2>1. Finish \in visited /\ err = "none"
      BY DEF LInv, FinishOK, ErrorOK
    <2> QED
      BY <2>1, NothingSkipped
  <1> QED
    BY <1>1, TypeCorrect, Invariance, LoopInvariance, PTL

-----------------------------------------------------------------------------
(***************************************************************************)
(* The refinement.  The scheduler's steps are steps of GraphFlow: Complete *)
(* is Run, a satisfy that skips is Skip, SaveCheckpoint is Save, Return is *)
(* End, Crash is Lose, and everything else leaves the progress alone.      *)
(***************************************************************************)

\* The topology is the same on both sides.
LEMMA FlowTopology ==
  /\ \A n : Flow!In(n) = In(n)
  /\ Flow!Reachable = Reachable
  BY DEF Flow!In, In, Flow!Reachable, Reachable

\* The mapped saved snapshots.
FlowSaved == {[visited |-> c.visited, state |-> c.state] : c \in store}

\* A step that leaves the mapped variables alone.
LEMMA FlowStutter ==
  ASSUME Idle' <=> Idle, UNCHANGED <<result, visited, state, store>>
  PROVE  UNCHANGED Flow!vars
  BY DEF Flow!vars

\* A call of Execute or Resume begins an execution, from nothing or a snapshot.
LEMMA BeginRefines ==
  ASSUME Execute \/ Resume
  PROVE  Flow!Begin
  <1>1. Idle /\ ~ Idle' /\ result' = "none" /\ store' = store
    BY DEF Execute, Resume, Idle
  <1>2. \/ visited' = {} /\ state' = {}
        \/ \E c \in FlowSaved : visited' = c.visited /\ state' = c.state
    <2>1. CASE Execute
      BY <2>1 DEF Execute
    <2>2. CASE Resume
      <3>1. PICK c \in store : visited' = c.visited /\ state' = c.state
        BY <2>2 DEF Resume
      <3> DEFINE d == [visited |-> c.visited, state |-> c.state]
      <3>2. d \in FlowSaved /\ d.visited = c.visited /\ d.state = c.state
        BY DEF FlowSaved
      <3> HIDE DEF d
      <3> QED
        BY <3>1, <3>2
    <2> QED
      BY <2>1, <2>2
  <1> QED
    BY <1>1, <1>2 DEF Flow!Begin, FlowSaved

\* The loop: saving is Save, returning is End, the rest stutters.
LEMMA MainRefines ==
  ASSUME TypeOK, IInv, LInv, Main
  PROVE  [Flow!Next]_(Flow!vars)
  <1>1. CASE EmitCheckpoint \/ CheckTermination \/ ScheduleNone \/ ScheduleNext
    <2>1. ~ Idle /\ ~ Idle' /\ UNCHANGED <<result, visited, state, store>>
      BY <1>1 DEF EmitCheckpoint, CheckTermination, Verdict, ScheduleNone, ScheduleNext, Idle
    <2> QED
      BY <2>1, FlowStutter
  <1>2. CASE SaveCheckpoint
    <2>1. ~ Idle /\ ~ Idle' /\ UNCHANGED <<result, visited, state>>
          /\ (store' = saving \/ store' = store)
      BY <1>2 DEF SaveCheckpoint, Idle
    <2>2. PICK c \in saving : saving = {c} /\ Snapshot(c)
      BY <1>2 DEF SaveCheckpoint, LInv, FinishOK
    <2>3. CASE store' = store
      BY <2>1, <2>3, FlowStutter
    <2>4. CASE store' = saving
      <3>1. {[visited |-> d.visited, state |-> d.state] : d \in store'}
              = {[visited |-> visited, state |-> state]}
        BY <2>2, <2>4 DEF Snapshot
      <3>2. Flow!Save
        BY <2>1, <3>1 DEF Flow!Save
      <3> QED
        BY <3>2 DEF Flow!Next
    <2> QED
      BY <2>1, <2>3, <2>4
  <1>3. CASE Return
    <2>1. /\ ~ Idle /\ Idle' /\ UNCHANGED <<visited, state, store>>
          /\ result' = IF main = "wait_ok" THEN "ok" ELSE "error"
      BY <1>3 DEF Return, Idle
    <2>2. main = "wait_ok" => Finish \in visited /\ Reachable \subseteq visited
      BY FinishLastNow DEF FinishLast, LInv, FinishOK
    <2>3. Flow!End
      BY <2>1, <2>2, FlowTopology DEF Flow!End
    <2> QED
      BY <2>3 DEF Flow!Next
  <1> QED
    BY <1>1, <1>2, <1>3 DEF Main

\* A node's goroutine: completing is Run, skipping is Skip, the rest stutters.
LEMMA NodeRefines ==
  ASSUME TypeOK, IInv, IInv', NEW n \in Nodes, Node(n)
  PROVE  [Flow!Next]_(Flow!vars)
  <1>1. ~ Idle /\ ~ Idle' /\ pc[n] # "idle"
    <2>1. pc[n] # "idle"
      BY DEF Node, Begin, HandlerError, Complete, TakeEdge, PropagateSkip, EdgesDone, NodeDone
    <2>2. main' \in {main, Wake(main)}
      BY DEF Node, Begin, HandlerError, Complete, TakeEdge, PropagateSkip, EdgesDone, NodeDone, Fail,
             Satisfy, mainVars
    <2> QED
      BY <2>1, <2>2, NodeMeansRunning DEF Idle
  <1>2. UNCHANGED <<result, store>>
    BY DEF Node, Begin, HandlerError, Complete, TakeEdge, PropagateSkip, EdgesDone, NodeDone, mainVars
  <1>3. CASE Begin(n) \/ HandlerError(n) \/ EdgesDone(n) \/ NodeDone(n)
    <2>1. UNCHANGED <<visited, state>>
      BY <1>3 DEF Begin, HandlerError, EdgesDone, NodeDone
    <2> QED
      BY <1>1, <1>2, <2>1, FlowStutter
  <1>4. CASE Complete(n)
    <2>1. Executing(n) /\ visited' = visited \cup {n} /\ state' = state \cup {n}
      BY <1>4 DEF Complete, Executing
    <2>2. n \notin visited /\ Finish \notin visited
      BY <2>1, FinishLastNow DEF FinishLast, IInv, NodesInv, AtMostOnce, Scheduled
    <2>3. n # Entry => /\ \A e \in In(n) : Src[e] \in visited
                       /\ \E e \in In(n) : Src[e] \in state
      <3> SUFFICES ASSUME n # Entry
                   PROVE  /\ \A e \in In(n) : Src[e] \in visited
                          /\ \E e \in In(n) : Src[e] \in state
        OBVIOUS
      <3>1. \A e \in In(n) : Src[e] \in visited
        BY <2>1, NonePending DEF Pending
      <3>2. \E e \in In(n) : Src[e] \in state
        BY <2>1 DEF IInv, NodesInv, ScheduledOK, Executing, Consistent
      <3> QED
        BY <3>1, <3>2
    <2>4. Flow!Run(n)
      BY <1>1, <1>2, <2>1, <2>2, <2>3, FlowTopology DEF Flow!Run, Flow!PredecessorsResolved
    <2> QED
      BY <2>4 DEF Flow!Next
  <1>5. CASE TakeEdge(n) \/ PropagateSkip(n)
    <2>1. PICK e \in Edges, a \in BOOLEAN, L \in SUBSET Edges :
             HandsOver(n, e, a, L) /\ Effect(n, e, a, L) /\ state' = state
      BY <1>5, EdgeStep
    <2> DEFINE to == Dst[e]
    <2>2. CASE ~ Skipped(e, a)
      <3>1. UNCHANGED <<visited, state>>
        BY <2>1, <2>2 DEF Effect
      <3> QED
        BY <1>1, <1>2, <3>1, FlowStutter
    <2>3. CASE Skipped(e, a)
      <3>1. /\ visited' = visited \cup {to} /\ to \notin visited /\ to \in Nodes
            /\ state' = state /\ to # Entry /\ state \subseteq visited
        BY <2>1, <2>3 DEF Effect, IInv, NodesInv, Consistent
      <3>2. Finish \notin visited
        BY <2>1, FinishLastNow DEF HandsOver, FinishLast
      <3>3. In(to) \cap PendingEdges' = {}
        BY <3>1 DEF IInv, NodesInv, Consistent
      <3>4. \A f \in In(to) : Src[f] \in visited
        <4>1. \A f \in In(to) : Src[f] \in visited'
          BY <3>3 DEF PendingEdges, Pending, In
        <4>2. \A f \in In(to) : Src[f] # to
          <5>1. {to} \in (SUBSET Nodes) \ {{}}
            BY <3>1
          <5> QED
            BY <5>1, TopologyAssumption DEF Acyclic, In
        <4> QED
          BY <3>1, <4>1, <4>2
      <3>5. \A f \in In(to) : Src[f] \in state => Src[f] \in Conditional
        BY <3>1 DEF IInv, NodesInv, Consistent
      <3>6. Flow!Skip(to)
        BY <1>1, <1>2, <3>1, <3>2, <3>4, <3>5, FlowTopology
        DEF Flow!Skip, Flow!PredecessorsResolved
      <3> QED
        BY <3>1, <3>6 DEF Flow!Next
    <2> QED
      BY <2>2, <2>3
  <1> QED
    BY <1>3, <1>4, <1>5 DEF Node

(***************************************************************************)
(* The scheduler implements GraphFlow: nodes resolve one at a time, in the *)
(* order of the edges, each once, nothing after the finish node; the saved *)
(* checkpoint is a snapshot of that progress and Resume starts from it.    *)
(***************************************************************************)
THEOREM FlowRefinement == Spec => ImplementsFlow
  <1>1. Init => Flow!Init
    BY DEF Init, Flow!Init, Idle
  <1>2. TypeOK /\ IInv /\ IInv' /\ LInv /\ [Next]_vars => [Flow!Next]_(Flow!vars)
    <2> SUFFICES ASSUME TypeOK, IInv, IInv', LInv, [Next]_vars PROVE [Flow!Next]_(Flow!vars)
      OBVIOUS
    <2>1. CASE Execute \/ Resume
      BY <2>1, BeginRefines DEF Flow!Next
    <2>2. CASE Crash
      <3>1. /\ ~ Idle /\ Idle' /\ result' = "none" /\ visited' = {} /\ state' = {}
            /\ store' = store
        BY <2>2 DEF Crash, Idle
      <3>2. Flow!Lose
        BY <3>1 DEF Flow!Lose
      <3> QED
        BY <3>2 DEF Flow!Next
    <2>3. CASE Main
      BY <2>3, MainRefines
    <2>4. ASSUME NEW n \in Nodes, Node(n) PROVE [Flow!Next]_(Flow!vars)
      BY <2>4, NodeRefines
    <2>5. CASE Done \/ UNCHANGED vars
      <3>1. (Idle' <=> Idle) /\ UNCHANGED <<result, visited, state, store>>
        BY <2>5 DEF Done, vars, Idle
      <3> QED
        BY <3>1, FlowStutter
    <2> QED
      BY <2>1, <2>2, <2>3, <2>4, <2>5 DEF Next
  <1> QED
    BY <1>1, <1>2, TypeCorrect, Invariance, LoopInvariance, PTL DEF Spec, ImplementsFlow, Flow!Spec
=============================================================================
