----------------------------- MODULE GraphTask -----------------------------
(***************************************************************************)
(* The execution of a compiled graph: graph/task.go (the ready-queue       *)
(* scheduler of one Task) and the two calls of graph/executor.go that      *)
(* create a Task, Execute and Resume, around one checkpoint id of a        *)
(* Checkpointer.                                                           *)
(*                                                                         *)
(* Processes: the goroutine of Execute/Resume (main) and one goroutine per *)
(* node in flight.  An action is one critical section of Task.mu, or one   *)
(* call between two of them.  A crash loses everything but the saved       *)
(* checkpoint.                                                             *)
(*                                                                         *)
(* Node handlers are external.  A handler returns an error or a map; the   *)
(* state map is modelled by the set of nodes whose output it holds, node n *)
(* storing its output under a key of its own.                              *)
(***************************************************************************)
EXTENDS GraphTopology, Sequences

CONSTANTS
  Parallel,       \* WithParallel: nodes run in goroutines of their own
  Checkpointing,  \* a Checkpointer and a checkpoint id are configured
  MaxRuns         \* bound: calls of Execute and Resume

ASSUME TaskAssumption ==
  /\ Parallel \in BOOLEAN
  /\ Checkpointing \in BOOLEAN
  /\ MaxRuns \in Nat

VARIABLES
  \* Task fields, guarded by Task.mu
  ready,      \* the ready queue
  remaining,  \* in-edges not yet satisfied
  received,   \* in-edges satisfied by a taken edge
  visited,    \* nodes that completed or were skipped
  state,      \* nodes whose output the shared state map holds
  progress,   \* progressSinceCheckpoint
  finished,
  err,        \* the first error, "none" before
  \* the goroutine of Execute/Resume
  main,       \* where it is
  saving,     \* the snapshot it is about to save, {} or a singleton
  result,     \* what it returned
  \* the goroutines of the nodes in flight
  pc,         \* where each one is, "idle" when there is none
  input,      \* the state map handed to the handler
  own,        \* own out-edges still to be processed
  skips,      \* out-edges of skipped nodes still to be propagated
  matched,    \* nodes for which an own out-edge was taken
  \* the Checkpointer
  store,      \* the last saved checkpoint, {} or a singleton
  runs        \* calls of Execute and Resume so far

mainVars  == <<main, saving, result>>
queueVars == <<ready, remaining, received>>
nodeVars  == <<pc, input, own, skips, matched>>
vars == <<ready, remaining, received, visited, state, progress, finished, err,
          main, saving, result, pc, input, own, skips, matched, store, runs>>

Errors == {"none", "handler", "condition", "unreachable", "save"}
MainPc == {"off", "emit", "save", "term", "sched", "asleep",
           "wait_ok", "wait_err", "returned"}
NodePc == {"idle", "start", "run", "edges", "exit"}

Checkpoint == [received : [Nodes -> Nat],
               visited  : SUBSET Nodes,
               state    : SUBSET Nodes]

TaskTypes ==
  /\ ready \in Seq(Nodes)
  /\ remaining \in [Nodes -> Nat]
  /\ received \in [Nodes -> Nat]
  /\ visited \subseteq Nodes
  /\ state \subseteq Nodes
  /\ runs \in 0 .. MaxRuns

FlagTypes ==
  /\ progress \in BOOLEAN
  /\ finished \in BOOLEAN
  /\ err \in Errors
  /\ main \in MainPc
  /\ saving \subseteq Checkpoint
  /\ result \in {"none", "ok", "error"}
  /\ store \subseteq Checkpoint

LocalTypes ==
  /\ pc \in [Nodes -> NodePc]
  /\ input \in [Nodes -> SUBSET Nodes]
  /\ own \in [Nodes -> SUBSET Edges]
  /\ skips \in [Nodes -> SUBSET Edges]
  /\ matched \subseteq Nodes

\* The fields of the task, the checkpoints and the goroutines' locals are typed.
TypeOK == TaskTypes /\ FlagTypes /\ LocalTypes

-----------------------------------------------------------------------------
\* Task.inFlight: set by scheduleNext, deleted by nodeDone.
inFlight == {n \in Nodes : pc[n] # "idle"}

\* A serial task runs a node inside scheduleNext: main moves only between nodes.
MainMayRun == Parallel \/ inFlight = {}

Queued == {ready[i] : i \in 1 .. Len(ready)}

\* readyCond.Signal and Broadcast: main is the only goroutine that waits.
LostWakeup(m) == m  \* with a fault: the signal is not sent
Wake(m) == IF m = "asleep" THEN "sched" ELSE m

\* Task.fail: the first error wins and wakes main.
Fail(e) ==
  /\ err' = IF err = "none" THEN e ELSE err
  /\ main' = IF err = "none" THEN Wake(main) ELSE main

\* With a fault: while nodes are in flight, and not after the finish node.
CheckpointWhileBusy == Checkpointing /\ progress
NoCheckpointAtFinish == Checkpointing /\ progress /\ inFlight = {} /\ ~ finished
shouldCheckpoint == Checkpointing /\ progress /\ inFlight = {}

Init ==
  /\ ready = <<>>
  /\ remaining = [n \in Nodes |-> 0] /\ received = [n \in Nodes |-> 0]
  /\ visited = {} /\ state = {}
  /\ progress = FALSE /\ finished = FALSE
  /\ err = "none"
  /\ saving = {} /\ result = "none"
  /\ pc = [n \in Nodes |-> "idle"]
  /\ input = [n \in Nodes |-> {}]
  /\ own = [n \in Nodes |-> {}] /\ skips = [n \in Nodes |-> {}]
  /\ matched = {}
  /\ main = "off"
  /\ store = {}
  /\ runs = 0

-----------------------------------------------------------------------------
(***************************************************************************)
(* Execute: newTask and prepareEntry.                                      *)
(***************************************************************************)
Idle == main \in {"off", "returned"}

Execute ==
  /\ Idle
  /\ runs < MaxRuns
  /\ runs' = runs + 1
  /\ ready' = <<Entry>>
  /\ remaining' = [n \in Nodes |-> dependencies(n)]
  /\ received' = [n \in Nodes |-> IF n = Entry THEN 1 ELSE 0]
  /\ visited' = {}
  /\ state' = {}
  /\ progress' = FALSE
  /\ finished' = FALSE
  /\ err' = "none"
  /\ main' = "emit"
  /\ saving' = {}
  /\ result' = "none"
  /\ UNCHANGED <<nodeVars, store>>

(***************************************************************************)
(* rebuildRemainingLocked and rebuildReadyLocked: what the queue of a task *)
(* with the visited set V and the received counts R must be.               *)
(***************************************************************************)
RebuiltRemaining(V) ==
  [n \in Nodes |-> Cardinality({e \in In(n) : Src[e] \notin V})]

RebuiltReady(V, R) ==
  {n \in Nodes \ V : R[n] > 0 /\ RebuiltRemaining(V)[n] = 0}

\* The sequences that list every member of S once.
Orders(S) ==
  {q \in [1 .. Cardinality(S) -> S] : {q[i] : i \in DOMAIN q} = S}

(***************************************************************************)
(* Resume: load the checkpoint, newTask, restoreCheckpoint.  The map       *)
(* nodeInfos is iterated in no particular order.  The caller's own state   *)
(* keys are outside the model.                                             *)
(***************************************************************************)
Resume ==
  /\ Idle
  /\ runs < MaxRuns
  /\ runs' = runs + 1
  /\ \E c \in store :
       /\ received' = c.received
       /\ visited' = c.visited
       /\ state' = c.state
       /\ remaining' = RebuiltRemaining(c.visited)
       /\ ready' \in Orders(RebuiltReady(c.visited, c.received))
       /\ finished' = (Finish \in c.visited)
  /\ progress' = FALSE
  /\ err' = "none"
  /\ main' = "emit"
  /\ saving' = {}
  /\ result' = "none"
  /\ UNCHANGED <<nodeVars, store>>

\* The process dies: only the saved checkpoint is left.
Crash ==
  /\ ~ Idle
  /\ ready' = <<>>
  /\ remaining' = [n \in Nodes |-> 0] /\ received' = [n \in Nodes |-> 0]
  /\ visited' = {} /\ state' = {}
  /\ progress' = FALSE /\ finished' = FALSE
  /\ err' = "none"
  /\ saving' = {} /\ result' = "none"
  /\ pc' = [n \in Nodes |-> "idle"]
  /\ input' = [n \in Nodes |-> {}]
  /\ own' = [n \in Nodes |-> {}] /\ skips' = [n \in Nodes |-> {}]
  /\ matched' = {}
  /\ main' = "off"
  /\ UNCHANGED <<store, runs>>

-----------------------------------------------------------------------------
(***************************************************************************)
(* The scheduling loop of run: emitCheckpointIfIdle, checkTermination,     *)
(* scheduleNext.                                                           *)
(***************************************************************************)
EmitCheckpoint ==
  /\ main = "emit"
  /\ MainMayRun
  /\ \/ /\ shouldCheckpoint
        /\ saving' = {[received |-> received, visited |-> visited, state |-> state]}
        /\ progress' = FALSE
        /\ main' = "save"
     \/ /\ ~ shouldCheckpoint
        /\ main' = "term"
        /\ UNCHANGED <<saving, progress>>
  /\ UNCHANGED <<queueVars, visited, state, finished, err, result, nodeVars, store, runs>>

\* Checkpointer.Save, outside the lock; its error fails the task.
SaveCheckpoint ==
  /\ main = "save"
  /\ \/ store' = saving /\ UNCHANGED err
     \/ err' = (IF err = "none" THEN "save" ELSE err) /\ UNCHANGED store
  /\ saving' = {}
  /\ main' = "term"
  /\ UNCHANGED <<queueVars, visited, state, progress, finished, result, nodeVars, runs>>

\* Variants with a fault, which the properties must reject: an error reported
\* as success, and an error the loop does not see.
ErrorIsSuccess == IF err # "none" \/ finished THEN "wait_ok" ELSE "sched"
ErrorUnseen == IF finished THEN "wait_ok" ELSE "sched"

\* What the loop does next: an error goes before the finish.
Verdict ==
  IF err # "none" THEN "wait_err" ELSE IF finished THEN "wait_ok" ELSE "sched"

CheckTermination ==
  /\ main = "term"
  /\ MainMayRun
  /\ main' = Verdict
  /\ UNCHANGED <<queueVars, visited, state, progress, finished, err, saving, result,
                 nodeVars, store, runs>>

\* wg.Wait, then return.
Return ==
  /\ main \in {"wait_ok", "wait_err"}
  /\ inFlight = {}
  /\ result' = IF main = "wait_ok" THEN "ok" ELSE "error"
  /\ main' = "returned"
  /\ UNCHANGED <<queueVars, visited, state, progress, finished, err, saving, nodeVars,
                 store, runs>>

(***************************************************************************)
(* scheduleNext.  With an empty queue main goes back to the loop when      *)
(* there is an error, a finish or a checkpoint to write, fails when        *)
(* nothing is in flight, and waits on readyCond otherwise.                 *)
(***************************************************************************)
ScheduleNone ==
  /\ main = "sched"
  /\ MainMayRun
  /\ ready = <<>> \/ shouldCheckpoint
  /\ \/ /\ shouldCheckpoint \/ err # "none" \/ finished
        /\ main' = "emit"
        /\ UNCHANGED err
     \/ /\ ~ shouldCheckpoint /\ err = "none" /\ ~ finished
        /\ inFlight = {}
        /\ main' = "emit"
        /\ err' = "unreachable"
     \/ /\ err = "none" /\ ~ finished
        /\ inFlight # {}
        /\ main' = "asleep"
        /\ UNCHANGED err
  /\ UNCHANGED <<queueVars, visited, state, progress, finished, saving, result, nodeVars,
                 store, runs>>

ScheduleNext ==
  /\ main = "sched"
  /\ MainMayRun
  /\ ready # <<>>
  /\ ~ shouldCheckpoint
  /\ ready' = Tail(ready)
  /\ main' = "emit"
  /\ IF Head(ready) \in visited
       THEN UNCHANGED <<pc, input>>
       ELSE /\ pc' = [pc EXCEPT ![Head(ready)] = "start"]
            /\ input' = [input EXCEPT ![Head(ready)] = state]
  /\ UNCHANGED <<remaining, received, visited, state, progress, finished, err, saving,
                 result, own, skips, matched, store, runs>>

Main == EmitCheckpoint \/ SaveCheckpoint \/ CheckTermination \/ Return
        \/ ScheduleNone \/ ScheduleNext

-----------------------------------------------------------------------------
(***************************************************************************)
(* The goroutine of node n: executeNode, then nodeDone.                    *)
(***************************************************************************)
Begin(n) ==
  /\ pc[n] = "start"
  /\ pc' = [pc EXCEPT ![n] = IF err # "none" \/ finished THEN "exit" ELSE "run"]
  /\ UNCHANGED <<queueVars, visited, state, progress, finished, err, mainVars, input, own,
                 skips, matched, store, runs>>

\* The handler returned an error.
HandlerError(n) ==
  /\ pc[n] = "run"
  /\ pc' = [pc EXCEPT ![n] = "exit"]
  /\ Fail("handler")
  /\ UNCHANGED <<queueVars, visited, state, progress, finished, saving, result, input, own,
                 skips, matched, store, runs>>

\* The handler returned a map: store it and mark the node visited.
Complete(n) ==
  /\ pc[n] = "run"
  /\ state' = state \cup {n}
  /\ visited' = visited \cup {n}
  /\ progress' = TRUE
  /\ IF n = Finish
       THEN /\ finished' = TRUE
            /\ main' = Wake(main)
            /\ pc' = [pc EXCEPT ![n] = "exit"]
            /\ UNCHANGED own
       ELSE /\ pc' = [pc EXCEPT ![n] = "edges"]
            /\ own' = [own EXCEPT ![n] = Out(n)]
            /\ UNCHANGED <<finished, main>>
  /\ UNCHANGED <<queueVars, err, saving, result, input, skips, matched, store, runs>>

(***************************************************************************)
(* satisfy(from, to, activated) for the edge e, up to the recursive calls: *)
(* the out-edges of a node it skips are left in skips of the goroutine n   *)
(* that runs it.  Leftover is what remains of that goroutine's skips.      *)
(***************************************************************************)
AnyInput(k) == 0  \* with a fault: the first satisfied edge is enough
Decrement(k) == IF k > 0 THEN k - 1 ELSE 0

\* The node has all its dependencies and is not running.
OneShort(to, left) == left <= 1 /\ to \notin inFlight  \* with a fault: off by one
NotCounted(to, left) == to \notin inFlight             \* with a fault: no count
Resolvable(to, left) == left = 0 /\ to \notin inFlight

\* The edges that a skipped node passes the skip on to.
NoPropagation(to) == {}  \* with a fault: the skip stops here
SkippedEdges(to) == Out(to)

Satisfy(n, e, activated, leftover) ==
  LET to   == Dst[e]
      recv == received[to] + (IF activated THEN 1 ELSE 0)
      left == Decrement(remaining[to])
      live == to \notin visited
      open == live /\ Resolvable(to, left)
  IN  /\ remaining' = IF live THEN [remaining EXCEPT ![to] = left] ELSE remaining
      /\ received' = IF live THEN [received EXCEPT ![to] = recv] ELSE received
      /\ ready' = IF open /\ recv > 0 THEN Append(ready, to) ELSE ready
      /\ main' = IF open THEN Wake(main) ELSE main
      /\ IF open /\ recv = 0
           THEN /\ visited' = visited \cup {to}
                /\ progress' = TRUE
                /\ skips' = [skips EXCEPT ![n] = leftover \cup SkippedEdges(to)]
           ELSE /\ skips' = [skips EXCEPT ![n] = leftover]
                /\ UNCHANGED <<visited, progress>>

\* processOutgoing, one own edge, in the order of the edges.
TakeEdge(n) ==
  /\ pc[n] = "edges"
  /\ skips[n] = {}
  /\ \E e \in own[n] :
       /\ \A f \in own[n] : e <= f
       /\ own' = [own EXCEPT ![n] = @ \ {e}]
       /\ \E activated \in BOOLEAN :
            /\ n \notin Conditional => activated
            /\ matched' = IF activated THEN matched \cup {n} ELSE matched
            /\ Satisfy(n, e, activated, {})
  /\ UNCHANGED <<state, finished, err, saving, result, pc, input, store, runs>>

\* satisfy's loop over the out-edges of a node it skipped.
PropagateSkip(n) ==
  /\ pc[n] = "edges"
  /\ \E e \in skips[n] : Satisfy(n, e, FALSE, skips[n] \ {e})
  /\ UNCHANGED <<state, finished, err, saving, result, pc, input, own, matched, store, runs>>

\* The end of processOutgoing: no condition was true.
EdgesDone(n) ==
  /\ pc[n] = "edges"
  /\ own[n] = {} /\ skips[n] = {}
  /\ pc' = [pc EXCEPT ![n] = "exit"]
  /\ IF n \in matched
       THEN UNCHANGED <<err, main>>
       ELSE Fail("condition")
  /\ UNCHANGED <<queueVars, visited, state, progress, finished, saving, result, input, own,
                 skips, matched, store, runs>>

NodeDone(n) ==
  /\ pc[n] = "exit"
  /\ pc' = [pc EXCEPT ![n] = "idle"]
  /\ input' = [input EXCEPT ![n] = {}]
  /\ matched' = matched \ {n}
  /\ main' = Wake(main)
  /\ UNCHANGED <<queueVars, visited, state, progress, finished, err, saving, result, own,
                 skips, store, runs>>

Node(n) == Begin(n) \/ HandlerError(n) \/ Complete(n) \/ TakeEdge(n)
           \/ PropagateSkip(n) \/ EdgesDone(n) \/ NodeDone(n)

-----------------------------------------------------------------------------
\* Every call the bound allows has been made.
Done == Idle /\ runs = MaxRuns /\ UNCHANGED vars

Next ==
  \/ Execute
  \/ Resume
  \/ Crash
  \/ Main
  \/ \E n \in Nodes : Node(n)
  \/ Done

Spec == Init /\ [][Next]_vars

(***************************************************************************)
(* Goroutines are scheduled fairly and handlers return.  Nobody has to     *)
(* call Execute or Resume, and nothing has to crash.                       *)
(***************************************************************************)
Fairness ==
  /\ WF_vars(Main)
  /\ \A n \in Nodes : WF_vars(Node(n))

FairSpec == Spec /\ Fairness

-----------------------------------------------------------------------------
(***************************************************************************)
(* Properties.                                                             *)
(***************************************************************************)
Executing(n) == pc[n] \in {"start", "run"}
Scheduled(n) == n \in Queued \/ Executing(n)

\* An edge its source has not yet passed on to its target.
Pending(e) == Src[e] \notin visited \/ \E m \in Nodes : e \in own[m] \cup skips[m]

(***************************************************************************)
(* A node is handed to a handler at most once per run, and never again     *)
(* after it completed, was skipped or was restored as visited: it is in    *)
(* the ready queue once at most, never both queued and in flight, and      *)
(* never queued or executing once visited (satisfy, scheduleNext,          *)
(* rebuildReadyLocked).                                                    *)
(***************************************************************************)
AtMostOnce ==
  /\ \A i, j \in 1 .. Len(ready) : ready[i] = ready[j] => i = j
  /\ \A n \in Nodes : Scheduled(n) => n \notin visited
  /\ \A n \in Queued : pc[n] = "idle"

(***************************************************************************)
(* Join semantics: a node other than the entry executes only after every   *)
(* incoming edge was satisfied, at least one of them by a node that really *)
(* ran, and the state handed to its handler holds the output of every      *)
(* predecessor that ran.                                                   *)
(***************************************************************************)
JoinComplete ==
  \A n \in Nodes \ {Entry} : Executing(n) =>
     /\ \A e \in In(n) : ~ Pending(e)
     /\ \E e \in In(n) : Src[e] \in state
     /\ \A e \in In(n) : Src[e] \in state => Src[e] \in input[n]

(***************************************************************************)
(* The finish node is resolved last: once it is visited, every node that   *)
(* the entry reaches is visited too and no goroutine still has an edge to  *)
(* satisfy, so the state that Execute returns is complete.                 *)
(***************************************************************************)
FinishLast ==
  Finish \in visited =>
     /\ Reachable \subseteq visited
     /\ \A n \in Nodes : ~ Executing(n) /\ own[n] = {} /\ skips[n] = {}

(***************************************************************************)
(* A node is skipped only when nothing led to it: every predecessor was    *)
(* resolved before, and each one that ran was a conditional node.          *)
(***************************************************************************)
SkipSound ==
  \A n \in visited \ state : \A e \in In(n) :
     Src[e] \in visited /\ (Src[e] \in state => Src[e] \in Conditional)

(***************************************************************************)
(* Whenever a checkpoint may be written, the queue that                    *)
(* rebuildRemainingLocked and rebuildReadyLocked would derive from it is   *)
(* the queue of the running task: Resume continues where the task was.     *)
(* After an error the rebuilt queue also holds the nodes that failed.  And *)
(* every checkpoint that reached the Checkpointer can be continued: it is  *)
(* finished, or Resume finds a node to run.                                *)
(***************************************************************************)
CheckpointSound ==
  /\ shouldCheckpoint =>
        /\ \A n \in Nodes \ visited : RebuiltRemaining(visited)[n] = remaining[n]
        /\ Queued \subseteq RebuiltReady(visited, received)
        /\ err = "none" => RebuiltReady(visited, received) = Queued
  /\ Reachable = Nodes =>
        \A c \in store : \/ Finish \in c.visited
                         \/ RebuiltReady(c.visited, c.received) # {}

(***************************************************************************)
(* In a graph whose nodes can all be reached, "finish node not reachable"  *)
(* (scheduleNext) is never reported: the queue runs dry only after the     *)
(* finish node is resolved or an error occurred.  And a task that skips    *)
(* its finish node does not settle without an error: only "no condition    *)
(* matched" can cut every path to it.  The checkpoint of such a task has   *)
(* the skipped node among the visited ones, so restoreCheckpoint takes it  *)
(* for a finished task: a call that is resumed from it records no error,   *)
(* but it runs nothing and returns the state as it was saved.              *)
(***************************************************************************)
StallReported ==
  /\ Reachable = Nodes => err # "unreachable"
  /\ Finish \in visited \ state /\ inFlight = {} =>
       err # "none" \/ \E c \in store : c.visited = visited /\ c.state = state

(***************************************************************************)
(* A run that returned without an error recorded none and left a           *)
(* checkpoint of its last state behind, the finish node included.          *)
(***************************************************************************)
FinalCheckpoint ==
  result = "ok" =>
    /\ err = "none"
    /\ Checkpointing => \E c \in store : c.visited = visited /\ c.state = state

(***************************************************************************)
(* A run that returns without an error has run the finish node's handler,  *)
(* so the state it returns is the output of the whole graph, and recorded  *)
(* no error: a handler that failed or a checkpoint that was not saved is   *)
(* reported, whichever goroutine sees what first.  Routers make two        *)
(* exceptions.  In a parallel run "no condition matched" is recorded after *)
(* the edges were passed on, when the finish node may already have         *)
(* completed; and a call may be resumed from a checkpoint in which the     *)
(* finish node was skipped (StallReported).                                *)
(***************************************************************************)
OkSound == result = "ok" => Finish \in state /\ err = "none"

(***************************************************************************)
(* The scheduler implements the specification of a graph execution: nodes  *)
(* resolve in dependency order, each once, nothing after the finish node,  *)
(* checkpoints are snapshots of that progress and Resume starts from one.  *)
(***************************************************************************)
Flow == INSTANCE GraphFlow WITH
  phase    <- IF Idle THEN "idle" ELSE "running",
  outcome  <- result,
  resolved <- visited,
  done     <- state,
  saved    <- {[visited |-> c.visited, state |-> c.state] : c \in store}

ImplementsFlow == Flow!Spec

(***************************************************************************)
(* Every call of Execute or Resume returns, unless the process dies.       *)
(***************************************************************************)
Terminates == ~ Idle ~> Idle
=============================================================================
