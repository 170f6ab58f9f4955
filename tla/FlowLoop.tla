------------------------------ MODULE FlowLoop ------------------------------
(***************************************************************************)
(* LoopAgent.Run and SequentialAgent.Run: the sub-agents run one after the *)
(* other, in a loop for as many rounds as the condition, the exit tool or  *)
(* MaxIterations allow; what they yield goes straight to the consumer      *)
(* (flow/loop.go, flow/sequential.go, runner.go).                          *)
(***************************************************************************)
EXTENDS AgentRun

CONSTANTS
  Order,     \* SubAgents, a sequence without repetition
  Flows,     \* which of "sequential", "loop", "condition" (a loop with one)
  MaxRounds  \* MaxIterations of the LoopAgent

ASSUME LoopAssumption ==
  /\ Order \in Seq(Agents) /\ Len(Order) > 0
  /\ \A a \in Agents : \E i \in DOMAIN Order : Order[i] = a
  /\ \A i, j \in DOMAIN Order : Order[i] = Order[j] => i = j
  /\ Flows \subseteq {"sequential", "loop", "condition"}
  /\ MaxRounds \in Nat \ {0}

VARIABLES
  flow,       \* the kind of the flow
  at, round,  \* the index of the current agent, the round
  phase,      \* "call" Run of the agent, "range" over it, "check", "returned"
  exit,       \* exitRequested and escalated
  seen,       \* what the consumer has received, without partial messages
  outcome     \* of the run, for the caller

flowVars == <<flow, at, round, phase, exit, seen, outcome>>
vars == <<agentVars, flowVars>>

Current == Order[at]

Init ==
  /\ AgentInit
  /\ flow \in Flows /\ at = 1 /\ round = 1 /\ phase = "call"
  /\ exit = "no" /\ seen = <<>> /\ outcome = "none"

\* The flow returns.
Finish(how) == phase' = "returned" /\ outcome' = how

\* agent.Run on a clone of the invocation.
CallAgent ==
  /\ phase = "call"
  /\ Start(Current)
  /\ phase' = "range"
  /\ UNCHANGED <<flow, at, round, exit, seen, outcome>>

Work ==
  /\ phase = "range"
  /\ Agent(Current)
  /\ UNCHANGED flowVars

\* Consume with a fault: a later message overwrites the exit request.
ForgetsExit ==
  /\ phase = "range" /\ pc[Current] = "yield"
  /\ seen' = Received(seen, Offer(Current))
  /\ \E more \in Wants(Offer(Current)) :
       /\ Answer(Current, more)
       /\ IF more
          THEN exit' = Offer(Current).exit /\ UNCHANGED <<phase, outcome>>
          ELSE /\ Finish(IF Offer(Current) = Failure THEN "error" ELSE "stopped")
               /\ UNCHANGED exit
  /\ UNCHANGED <<flow, at, round>>

\* The agent yields: an error ends the flow, a message goes to the consumer,
\* and an exit action is remembered once the consumer has taken the message.
Consume ==
  /\ phase = "range" /\ pc[Current] = "yield"
  /\ seen' = Received(seen, Offer(Current))
  /\ \E more \in Wants(Offer(Current)) :
       /\ Answer(Current, more)
       /\ IF more
          THEN /\ exit' = IF flow # "sequential" /\ msg[Current].exit # "no"
                          THEN msg[Current].exit ELSE exit
               /\ UNCHANGED <<phase, outcome>>
          ELSE /\ Finish(IF Offer(Current) = Failure THEN "error" ELSE "stopped")
               /\ UNCHANGED exit
  /\ UNCHANGED <<flow, at, round>>

\* The agent has ended; the next one, or the end of the round.
NextAgent ==
  /\ phase = "range" /\ pc[Current] = "done"
  /\ IF at < Len(Order) THEN at' = at + 1 /\ phase' = "call"
                        ELSE phase' = "check" /\ UNCHANGED at
  /\ UNCHANGED <<agentVars, flow, round, exit, seen, outcome>>

\* Another round, or the end of the loop.
NextRound ==
  IF round < MaxRounds
  THEN /\ round' = round + 1 /\ at' = 1 /\ exit' = "no" /\ phase' = "call"
       /\ UNCHANGED outcome
  ELSE Finish("ok") /\ UNCHANGED <<at, round, exit>>

\* The end of a round.
CheckRound ==
  /\ phase = "check"
  /\ \/ flow = "sequential" /\ Finish("ok") /\ UNCHANGED <<at, round, exit>>
     \/ flow = "condition" /\ NextRound
     \/ /\ flow = "condition"
        /\ Finish("ok") \/ Finish("error")
        /\ UNCHANGED <<at, round, exit>>
     \/ flow = "loop" /\ exit = "no" /\ NextRound
     \/ /\ flow = "loop" /\ exit # "no"
        /\ Finish(IF exit = "escalate" THEN "escalated" ELSE "ok")
        /\ UNCHANGED <<at, round, exit>>
  /\ UNCHANGED <<agentVars, flow, seen>>

Done == phase = "returned" /\ UNCHANGED vars

Next == CallAgent \/ Work \/ Consume \/ NextAgent \/ CheckRound \/ Done

Spec == Init /\ [][Next]_vars

\* Everything runs in the caller's goroutine and those of its tools: models,
\* tools, conditions and the consumer return.
FairSpec == Spec /\ WF_vars(CallAgent \/ Work \/ Consume \/ NextAgent \/ CheckRound)

-----------------------------------------------------------------------------
\* What the session holds of this run's agents is what the consumer has taken, in
\* order; only the message that was taken last may still be missing, and it is
\* not when the flow has ended well (handle yields a message, then appends it):
\* then the output keys are those of the agents with a final answer.
SavedIsSeen ==
  /\ Number(Agents, history) \in {Number(Agents, seen), Number(Agents, seen) - 1}
  /\ Agree(Agents, history, seen)
  /\ outcome \in {"ok", "escalated"} =>
       /\ Number(Agents, history) = Number(Agents, seen)
       /\ outputs = {history[i].by : i \in {j \in DOMAIN history : history[j].kind = "assistant"}}

Index(a) == CHOOSE i \in DOMAIN Order : Order[i] = a

\* In a loop without a condition an exit request is obeyed: what the session
\* holds after it comes from later agents of the same round, and the loop
\* reports an escalation exactly if the last request asked for it (the action
\* travels from a tool over the message and the loop to the caller).
ExitObeyed ==
  LET requests == {i \in DOMAIN history : history[i].exit # "no"}
      last     == CHOOSE i \in requests : \A j \in requests : j <= i
  IN  flow = "loop" =>
        /\ \A i \in requests : \A j \in i + 1 .. Len(history) :
             Index(history[j].by) > Index(history[i].by)
        /\ outcome \in {"ok", "escalated"} =>
             (outcome = "escalated") <=>
               (requests # {} /\ history[last].exit = "escalate")

\* The flow returns, whatever the models and the tools answer.
Ends == <>(outcome # "none")
=============================================================================
