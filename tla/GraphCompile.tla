---------------------------- MODULE GraphCompile ----------------------------
(***************************************************************************)
(* The graph builder (graph/graph.go) and what NewExecutor                 *)
(* (graph/executor.go) keeps of it.  AddNode, AddEdge, SetEntryPoint and   *)
(* SetFinishPoint may come in any order and before or after Compile, which *)
(* runs validate, ensureAcyclic, ensureReachable and validateStructure;    *)
(* a step of it is a step of one of their loops.                           *)
(***************************************************************************)
EXTENDS Naturals, Sequences, FiniteSets

CONSTANTS
  Names,     \* node names
  Unset,     \* the empty name
  MaxEdges   \* bound: calls of AddEdge

ASSUME CompileAssumption == Unset \notin Names /\ MaxEdges \in Nat

VARIABLES
  nodes,     \* names given to AddNode
  edges,     \* g.edges: per node its edges, in order
  numbered,  \* the same edges with their sources, in the order of the AddEdge calls
  entry,     \* entryPoint
  finish,    \* finishPoint
  phase,     \* "build", or the function that Compile is in
  states,    \* of ensureAcyclic
  stack,     \* its calls of visit: the node, and how many of its edges are done
  queue,     \* of ensureReachable
  seen,      \* its visited map
  verdict,   \* what Compile returned; "none" after a change of the graph
  infos      \* nodeInfos of the last Executor, <<>> before

graph == <<nodes, edges, numbered, entry, finish>>
search == <<states, stack, queue, seen>>
vars == <<graph, phase, search, verdict, infos>>

Edge == [to : Names, conditional : BOOLEAN]

Unvisited == [n \in Names |-> "unvisited"]

Init ==
  /\ nodes = {} /\ edges = [n \in Names |-> <<>>] /\ numbered = <<>>
  /\ entry = Unset /\ finish = Unset
  /\ phase = "build" /\ states = Unvisited /\ stack = <<>> /\ queue = <<>> /\ seen = {}
  /\ verdict = "none" /\ infos = <<>>

AddNode(n) ==
  /\ phase = "build"
  /\ nodes' = nodes \cup {n}
  /\ verdict' = "none"
  /\ UNCHANGED <<edges, numbered, entry, finish, phase, search, infos>>

AddEdge(from, e) ==
  /\ phase = "build" /\ Len(numbered) < MaxEdges
  /\ edges' = [edges EXCEPT ![from] = Append(@, e)]
  /\ numbered' = Append(numbered, [from |-> from, to |-> e.to, conditional |-> e.conditional])
  /\ verdict' = "none"
  /\ UNCHANGED <<nodes, entry, finish, phase, search, infos>>

SetEntryPoint(n) ==
  /\ phase = "build"
  /\ entry' = n
  /\ verdict' = "none"
  /\ UNCHANGED <<nodes, edges, numbered, finish, phase, search, infos>>

SetFinishPoint(n) ==
  /\ phase = "build"
  /\ finish' = n
  /\ verdict' = "none"
  /\ UNCHANGED <<nodes, edges, numbered, entry, phase, search, infos>>

-----------------------------------------------------------------------------
\* Compile returns, and its local variables are gone.
Returns(result) ==
  /\ phase' = "build" /\ states' = Unvisited /\ stack' = <<>> /\ queue' = <<>> /\ seen' = {}
  /\ verdict' = result
  /\ UNCHANGED graph

Refuses(reason) == Returns(reason) /\ UNCHANGED infos

\* validate
PointsKnown == entry \in nodes /\ finish \in nodes
EdgesKnown  == \A n \in Names : edges[n] # <<>> =>
                 n \in nodes /\ \A i \in DOMAIN edges[n] : edges[n][i].to \in nodes

Compile ==
  /\ phase = "build"
  /\ \/ entry = Unset /\ Refuses("no entry")
     \/ entry # Unset /\ finish = Unset /\ Refuses("no finish")
     \/ Unset \notin {entry, finish} /\ ~ PointsKnown /\ Refuses("unknown point")
     \/ PointsKnown /\ ~ EdgesKnown /\ Refuses("unknown end")
     \/ /\ PointsKnown /\ EdgesKnown
        /\ phase' = "acyclic" /\ verdict' = "none"
        /\ UNCHANGED <<graph, search, infos>>

-----------------------------------------------------------------------------
(***************************************************************************)
(* ensureAcyclic: a depth-first search with three states.                  *)
(***************************************************************************)
Call(n) == [node |-> n, done |-> 0]

\* The loop over g.nodes, in the order of a map iteration.
VisitRoot(n) ==
  /\ phase = "acyclic" /\ stack = <<>> /\ states[n] = "unvisited"
  /\ states' = [states EXCEPT ![n] = "visiting"] /\ stack' = <<Call(n)>>
  /\ UNCHANGED <<graph, phase, queue, seen, verdict, infos>>

\* The next edge of the node on top of the stack.
VisitEdge ==
  /\ phase = "acyclic" /\ stack # <<>>
  /\ LET top  == stack[Len(stack)]
         next == edges[top.node][top.done + 1].to
         rest == [stack EXCEPT ![Len(stack)].done = @ + 1]
     IN  /\ top.done < Len(edges[top.node])
         /\ \/ states[next] = "visiting" /\ Refuses("cycle")
            \/ /\ states[next] = "unvisited"
               /\ states' = [states EXCEPT ![next] = "visiting"] /\ stack' = Append(rest, Call(next))
               /\ UNCHANGED <<graph, phase, queue, seen, verdict, infos>>
            \/ /\ states[next] = "visited"
               /\ stack' = rest
               /\ UNCHANGED <<graph, phase, states, queue, seen, verdict, infos>>

StaysOnStack(n) == states  \* with a fault: states[node] is not updated
Leave(n) == [states EXCEPT ![n] = "visited"]

\* visit returns.
VisitEnds ==
  /\ phase = "acyclic" /\ stack # <<>>
  /\ LET top == stack[Len(stack)]
     IN  top.done = Len(edges[top.node]) /\ states' = Leave(top.node)
  /\ stack' = SubSeq(stack, 1, Len(stack) - 1)
  /\ UNCHANGED <<graph, phase, queue, seen, verdict, infos>>

AllVisited ==
  /\ phase = "acyclic" /\ stack = <<>> /\ \A n \in nodes : states[n] # "unvisited"
  /\ IF entry = finish
     THEN phase' = "structure" /\ UNCHANGED queue
     ELSE phase' = "reachable" /\ queue' = <<entry>>
  /\ UNCHANGED <<graph, states, stack, seen, verdict, infos>>

-----------------------------------------------------------------------------
\* ensureReachable: breadth-first from the entry.
Targets(n) == [i \in 1 .. Len(edges[n]) |-> edges[n][i].to]

Seek ==
  /\ phase = "reachable"
  /\ \/ queue = <<>> /\ Refuses("unreachable")
     \/ /\ queue # <<>> /\ Head(queue) \in seen
        /\ queue' = Tail(queue)
        /\ UNCHANGED <<graph, phase, states, stack, seen, verdict, infos>>
     \/ /\ queue # <<>> /\ Head(queue) \notin seen /\ Head(queue) = finish
        /\ phase' = "structure"
        /\ UNCHANGED <<graph, search, verdict, infos>>
     \/ /\ queue # <<>> /\ Head(queue) \notin seen /\ Head(queue) # finish
        /\ queue' = Tail(queue) \o Targets(Head(queue))
        /\ seen' = seen \cup {Head(queue)}
        /\ UNCHANGED <<graph, phase, states, stack, verdict, infos>>

-----------------------------------------------------------------------------
\* validateStructure
FinishHasEdges == edges[finish] # <<>>
DeadEnd == \E n \in nodes \ {finish} : edges[n] = <<>>
Mixed   == \E n \in Names : \E i, j \in DOMAIN edges[n] :
             edges[n][i].conditional /\ ~ edges[n][j].conditional

\* NewExecutor: dependency counts and cloned edges per node.
EdgesInto(n) == UNION {{m} \X {i \in DOMAIN edges[m] : edges[m][i].to = n} : m \in Names}
NodeInfos ==
  [n \in nodes |->
     [outEdges      |-> edges[n],
      dependencies  |-> Cardinality(EdgesInto(n)),
      hasConditions |-> \E i \in DOMAIN edges[n] : edges[n][i].conditional]]

ChecksStructure ==
  /\ phase = "structure"
  /\ \/ FinishHasEdges /\ Refuses("finish has edges")
     \/ ~ FinishHasEdges /\ DeadEnd /\ Refuses("dead end")
     \/ ~ FinishHasEdges /\ ~ DeadEnd /\ Mixed /\ Refuses("mixed")
     \/ /\ ~ FinishHasEdges /\ ~ DeadEnd /\ ~ Mixed
        /\ Returns("ok") /\ infos' = NodeInfos

Next ==
  \/ \E n \in Names : AddNode(n) \/ SetEntryPoint(n) \/ SetFinishPoint(n)
  \/ \E n \in Names, e \in Edge : AddEdge(n, e)
  \/ Compile
  \/ \E n \in nodes : VisitRoot(n)
  \/ VisitEdge \/ VisitEnds \/ AllVisited \/ Seek \/ ChecksStructure

Spec == Init /\ [][Next]_vars

-----------------------------------------------------------------------------
(***************************************************************************)
(* Properties.                                                             *)
(***************************************************************************)

\* The graph that the builder describes, for the definitions of GraphTopology.
Topology == INSTANCE GraphTopology WITH
  Nodes       <- nodes,
  Edges       <- DOMAIN numbered,
  Src         <- [i \in DOMAIN numbered |-> numbered[i].from],
  Dst         <- [i \in DOMAIN numbered |-> numbered[i].to],
  Conditional <- {n \in nodes : \E i \in DOMAIN numbered :
                                   numbered[i].from = n /\ numbered[i].conditional},
  Entry       <- entry,
  Finish      <- finish

Uniform ==
  \A i, j \in DOMAIN numbered :
     numbered[i].from = numbered[j].from => numbered[i].conditional = numbered[j].conditional

(***************************************************************************)
(* Compile accepts exactly the graphs that the scheduler can run: those    *)
(* that satisfy GraphTopology's assumption, have a finish node the entry   *)
(* reaches and no node with mixed edges, whatever the order in which the   *)
(* maps are iterated; and what NewExecutor counts and copies for the       *)
(* scheduler is what GraphTopology derives from the edges.  In an accepted *)
(* graph every node leads to the finish node, so a run that keeps choosing *)
(* an edge gets there.                                                     *)
(***************************************************************************)
CompileExact ==
  /\ verdict = "ok" =>
        /\ Topology!WellFormed /\ finish \in Topology!Reachable /\ Uniform
        /\ \A n \in nodes :
              /\ infos[n].dependencies = Topology!dependencies(n)
              /\ Len(infos[n].outEdges) = Cardinality(Topology!Out(n))
  /\ verdict = "cycle" => ~ Topology!Acyclic
  /\ verdict = "unreachable" => finish \notin Topology!Reachable
  /\ verdict \in {"finish has edges", "dead end"} =>
        \E n \in nodes : (Topology!Out(n) = {}) # (n = finish)
  /\ verdict = "mixed" => ~ Uniform
  /\ verdict = "ok" =>
        \A S \in SUBSET nodes :
           S # {} /\ (\A i \in DOMAIN numbered : numbered[i].from \in S => numbered[i].to \in S)
             => finish \in S
=============================================================================
