----------------------------- MODULE GraphFlow -----------------------------
(***************************************************************************)
(* What graph.Executor promises its caller, without the scheduler: nodes   *)
(* are resolved one at a time, each at most once, by running or by being   *)
(* skipped, in an order the edges allow; nothing happens after the finish  *)
(* node; a snapshot of the progress may be saved at any point and a later  *)
(* call may start from the last one.                                       *)
(***************************************************************************)
EXTENDS GraphTopology

VARIABLES
  phase,     \* "idle" or "running": a call of Execute or Resume is under way
  outcome,   \* what the last call returned
  resolved,  \* nodes that ran or were skipped
  done,      \* nodes that ran
  saved      \* the last snapshot, {} or a singleton

vars == <<phase, outcome, resolved, done, saved>>

Init ==
  /\ phase = "idle" /\ outcome = "none"
  /\ resolved = {} /\ done = {} /\ saved = {}

Begin ==
  /\ phase = "idle" /\ phase' = "running" /\ outcome' = "none"
  /\ UNCHANGED saved
  /\ \/ resolved' = {} /\ done' = {}
     \/ \E c \in saved : resolved' = c.visited /\ done' = c.state

PredecessorsResolved(n) == \A e \in In(n) : Src[e] \in resolved

\* A node runs after all its predecessors, at least one of which ran.
Run(n) ==
  /\ phase = "running"
  /\ n \notin resolved /\ Finish \notin resolved
  /\ n # Entry => PredecessorsResolved(n) /\ \E e \in In(n) : Src[e] \in done
  /\ resolved' = resolved \cup {n}
  /\ done' = done \cup {n}
  /\ UNCHANGED <<phase, outcome, saved>>

\* A node is skipped when every predecessor was skipped or chose another edge.
Skip(n) ==
  /\ phase = "running"
  /\ n \notin resolved /\ Finish \notin resolved
  /\ PredecessorsResolved(n)
  /\ \A e \in In(n) : Src[e] \in done => Src[e] \in Conditional
  /\ resolved' = resolved \cup {n}
  /\ UNCHANGED <<phase, outcome, done, saved>>

Save ==
  /\ phase = "running"
  /\ saved' = {[visited |-> resolved, state |-> done]}
  /\ UNCHANGED <<phase, outcome, resolved, done>>

End ==
  /\ phase = "running" /\ phase' = "idle"
  /\ \/ outcome' = "ok" /\ Finish \in resolved /\ Reachable \subseteq resolved
     \/ outcome' = "error"
  /\ UNCHANGED <<resolved, done, saved>>

Lose ==
  /\ phase = "running" /\ phase' = "idle" /\ outcome' = "none"
  /\ resolved' = {} /\ done' = {}
  /\ UNCHANGED saved

Next == Begin \/ (\E n \in Nodes : Run(n) \/ Skip(n)) \/ Save \/ End \/ Lose

Spec == Init /\ [][Next]_vars
=============================================================================
