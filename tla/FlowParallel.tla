----------------------------- MODULE FlowParallel -----------------------------
(***************************************************************************)
(* ParallelAgent.Run: every sub-agent runs in a goroutine of its own and   *)
(* sends what it yields to a buffered channel; Run receives, and the       *)
(* runner, the consumer, takes what Run yields (flow/parallel.go,          *)
(* runner.go).                                                             *)
(***************************************************************************)
EXTENDS AgentRun

CONSTANT Buffer  \* places of the channel for each agent; 8 in the code

ASSUME BufferAssumption == Buffer \in Nat \ {0}

VARIABLES
  ch, closed,  \* the channel
  seen,        \* what the consumer has received, without partial messages
  outcome      \* of the run, for the caller

flowVars == <<ch, closed, seen, outcome>>
vars == <<agentVars, flowVars>>

Capacity == Cardinality(Agents) * Buffer

Init ==
  /\ AgentInit
  /\ ch = <<>> /\ closed = FALSE /\ seen = <<>> /\ outcome = "none"

\* The goroutine of an agent starts.
Spawn(a) ==
  /\ pc[a] = "off"
  /\ Start(a)
  /\ UNCHANGED flowVars

Work(a) == Agent(a) /\ UNCHANGED flowVars

\* ch <- result; the goroutine ends after an error.
Send(a) ==
  /\ pc[a] = "yield"
  /\ Len(ch) < Capacity
  /\ ch' = Append(ch, Offer(a))
  /\ Answer(a, TRUE)
  /\ UNCHANGED <<closed, seen, outcome>>

\* Close with a fault: the channel is closed when the first agent has ended.
CloseEarly ==
  /\ ~ closed
  /\ \E a \in Agents : pc[a] = "done"
  /\ closed' = TRUE
  /\ UNCHANGED <<agentVars, ch, seen, outcome>>

\* Close with a fault: eg.Wait returns and the channel stays open.
CloseForgotten ==
  /\ ~ closed
  /\ \A a \in Agents : pc[a] = "done"
  /\ UNCHANGED vars

\* eg.Wait has returned.
Close ==
  /\ ~ closed
  /\ \A a \in Agents : pc[a] = "done"
  /\ closed' = TRUE
  /\ UNCHANGED <<agentVars, ch, seen, outcome>>

\* Run receives a result and yields it.
Receive ==
  /\ outcome = "none" /\ ch # <<>>
  /\ \E more \in Wants(Head(ch)) :
       outcome' = IF more THEN "none"
                  ELSE IF Head(ch) = Failure THEN "error" ELSE "stopped"
  /\ seen' = Received(seen, Head(ch))
  /\ ch' = Tail(ch)
  /\ UNCHANGED <<agentVars, closed>>

\* The channel is closed and empty.
Return ==
  /\ outcome = "none" /\ ch = <<>> /\ closed
  /\ outcome' = IF ~ stream /\ seen = <<>> THEN "error" ELSE "ok"
  /\ UNCHANGED <<agentVars, ch, closed, seen>>

\* Run has returned; goroutines that nobody receives from stay blocked.
Done ==
  /\ outcome # "none"
  /\ \A a \in Agents : pc[a] = "done" \/ (pc[a] = "yield" /\ Len(ch) = Capacity)
  /\ UNCHANGED vars

Next ==
  \/ \E a \in Agents : Spawn(a) \/ Work(a) \/ Send(a)
  \/ Close \/ Receive \/ Return \/ Done

Spec == Init /\ [][Next]_vars

\* Goroutines are scheduled, models and tools return, the consumer reads on or
\* stops.
FairSpec ==
  /\ Spec
  /\ \A a \in Agents : WF_vars(Spawn(a) \/ Work(a) \/ Send(a))
  /\ WF_vars(Close) /\ WF_vars(Receive \/ Return)

-----------------------------------------------------------------------------
\* A run that ends well: every agent has ended well, and of each the consumer
\* has received exactly the messages that the session holds, in their order
\* (the channel is closed only after eg.Wait, and drained before Run returns).
Published ==
  outcome = "ok" =>
    \A a \in Agents : /\ result[a] = "ok" /\ Agree({a}, seen, history)
                      /\ Number({a}, seen) = Number({a}, history)

\* The run ends, even when agents fail while others wait for room in the
\* channel.
Ends == <>(outcome # "none")
=============================================================================
