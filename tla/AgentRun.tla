------------------------------ MODULE AgentRun ------------------------------
(***************************************************************************)
(* Agents working on one invocation over one session: agent.Run with its   *)
(* retry middleware, the loop of handle, and the goroutines of             *)
(* executeTools (agent.go, middleware/retry.go).                           *)
(*                                                                         *)
(* The agents share the session and the committed flag, as the clones of   *)
(* an Invocation do.  How they are started and who consumes what they      *)
(* yield is left to the modules that extend this one (FlowParallel,        *)
(* FlowLoop): an agent at "yield" waits for Answer.                        *)
(***************************************************************************)
EXTENDS Naturals, Sequences, FiniteSets

CONSTANTS
  Agents,         \* the sub-agents
  Calls,          \* the tool calls a model may ask for in one message
  UseContext,     \* the agents built WithContext(true)
  MaxIterations,  \* WithMaxIterations of each agent
  Attempts,       \* attempts of each agent's retry middleware; 1 is none
  Resumes,        \* the values of the option Resume to consider
  Exits           \* Actions[ActionLoopExit]: "no" for none, "quit", "escalate"

ASSUME AgentAssumption ==
  /\ Agents # {} /\ UseContext \subseteq Agents
  /\ Agents \cap {"user", "none", "earlier"} = {}
  /\ MaxIterations \in [Agents -> Nat \ {0}]
  /\ Attempts \in [Agents -> Nat \ {0}]
  /\ Resumes \subseteq BOOLEAN
  /\ "no" \in Exits /\ Exits \subseteq {"no", "quit", "escalate"}

VARIABLES
  resume, stream,  \* options of the run: Resume; RunStream rather than Run
  committed,       \* Invocation.committed, shared by all clones
  history,         \* the messages of the session
  outputs,         \* agents whose output key the session's state holds
  pc, result,      \* where each agent is, and how it ended
  iter, tries,     \* i of handle, attempts made by the retry middleware
  local,           \* localMessages
  shown,           \* messages of the request under way
  msg,             \* finalMessage
  failing,         \* agents whose next yield is an error
  call,            \* goroutines of executeTools
  actions,         \* the action map the tools of a message share
  aborted          \* agents one of whose tools returned a context error

optionVars  == <<resume, stream>>
sessionVars == <<committed, history, outputs>>
loopVars    == <<iter, tries, local>>
toolVars    == <<call, actions, aborted>>
agentVars   == <<optionVars, sessionVars, pc, result, loopVars, shown, msg,
                 failing, toolVars>>

(***************************************************************************)
(* A message: what it is, who wrote it, the tool parts that are not        *)
(* completed, and its exit action.                                         *)
(***************************************************************************)
Message(kind, by, open, exit) ==
  [kind |-> kind, by |-> by, open |-> open, exit |-> exit]

User    == Message("user", "user", {}, "no")
NoMsg   == Message("none", "none", {}, "no")
Partial == Message("partial", "none", {}, "no")
Failure == Message("error", "none", {}, "no")    \* yield(nil, err)
Earlier == Message("tool", "earlier", {}, "no")  \* of the run that is resumed

\* What a model may answer: text, or a message with tool parts, of which the
\* provider may have completed some itself.
Replies(a) == {Message("assistant", a, {}, "no")}
                \cup {Message("tool", a, C, "no") : C \in SUBSET Calls}

NoCalls == [c \in Calls |-> "idle"]

\* A resumed session holds the user message and perhaps a tool message.
AgentInit ==
  /\ stream \in BOOLEAN
  /\ resume \in Resumes
  /\ history \in IF resume THEN {<<User>>, <<User, Earlier>>} ELSE {<<>>}
  /\ committed = FALSE /\ outputs = {}
  /\ pc = [a \in Agents |-> "off"] /\ result = [a \in Agents |-> "none"]
  /\ iter = [a \in Agents |-> 0] /\ tries = [a \in Agents |-> 0]
  /\ local = [a \in Agents |-> <<>>] /\ shown = [a \in Agents |-> <<>>]
  /\ msg = [a \in Agents |-> NoMsg] /\ failing = {}
  /\ call = [a \in Agents |-> NoCalls]
  /\ actions = [a \in Agents |-> "no"] /\ aborted = {}

Goto(a, place) == pc' = [pc EXCEPT ![a] = place]

\* The range over the agent ends, and with it the locals of its functions.
End(a, how) ==
  /\ Goto(a, "done")
  /\ result' = [result EXCEPT ![a] = how]
  /\ iter' = [iter EXCEPT ![a] = 0] /\ tries' = [tries EXCEPT ![a] = 0]
  /\ local' = [local EXCEPT ![a] = <<>>]
  /\ msg' = [msg EXCEPT ![a] = NoMsg]
  /\ actions' = [actions EXCEPT ![a] = "no"]

-----------------------------------------------------------------------------
\* agent.Run is called on a clone of the invocation.
Start(a) ==
  /\ pc[a] \in {"off", "done"}
  /\ Goto(a, "prepare")
  /\ result' = [result EXCEPT ![a] = "none"]
  /\ UNCHANGED <<optionVars, sessionVars, loopVars, shown, msg, failing, toolVars>>

\* prepareInvocation: the resolver of the tools, the instruction provider or
\* the template of the instruction may fail.
Prepare(a) ==
  /\ pc[a] = "prepare"
  /\ \/ Goto(a, "commit") /\ UNCHANGED failing
     \/ Goto(a, "yield") /\ failing' = failing \cup {a}
  /\ UNCHANGED <<optionVars, sessionVars, result, loopVars, shown, msg, toolVars>>

\* What handle starts from.
Handle(a) ==
  /\ iter' = [iter EXCEPT ![a] = 0]
  /\ local' = [local EXCEPT ![a] = <<User>>]

\* Commit with a fault: the flag is read, and never set.
NeverCommitted(a) ==
  /\ pc[a] = "commit"
  /\ Goto(a, IF resume \/ committed THEN "request" ELSE "append")
  /\ Handle(a)
  /\ tries' = [tries EXCEPT ![a] = 0]
  /\ UNCHANGED <<optionVars, sessionVars, result, shown, msg, failing, toolVars>>

\* The CompareAndSwap decides who appends the user message.
Commit(a) ==
  /\ pc[a] = "commit"
  /\ IF resume \/ committed
     THEN Goto(a, "request") /\ UNCHANGED committed
     ELSE Goto(a, "append") /\ committed' = TRUE
  /\ Handle(a)
  /\ tries' = [tries EXCEPT ![a] = 0]
  /\ UNCHANGED <<optionVars, history, outputs, result, shown, msg, failing, toolVars>>

AppendUser(a) ==
  /\ pc[a] = "append"
  /\ history' = Append(history, User)
  /\ Goto(a, "request")
  /\ UNCHANGED <<optionVars, committed, outputs, result, loopVars, shown, msg,
                 failing, toolVars>>

\* HandlerError with a fault: attempts are not counted.
RetriesForever(a) ==
  \/ Attempts[a] > 1 /\ Handle(a) /\ Goto(a, "request") /\ UNCHANGED <<tries, failing>>
  \/ failing' = failing \cup {a} /\ Goto(a, "yield") /\ UNCHANGED loopVars

\* handle yielded an error: the middleware runs it again, or passes it on.
HandlerError(a) ==
  \/ /\ tries[a] + 1 < Attempts[a]
     /\ tries' = [tries EXCEPT ![a] = @ + 1]
     /\ Handle(a)
     /\ Goto(a, "request")
     /\ UNCHANGED failing
  \/ /\ failing' = failing \cup {a}
     /\ Goto(a, "yield")
     /\ UNCHANGED loopVars

Loads(a) == resume \/ a \in UseContext

\* The head of the loop: the messages of the next request.
Request(a) ==
  /\ pc[a] = "request"
  /\ msg' = [msg EXCEPT ![a] = NoMsg]
  /\ \/ /\ iter[a] < MaxIterations[a]
        /\ shown' = [shown EXCEPT ![a] = IF Loads(a) THEN history ELSE local[a]]
        /\ Goto(a, "model")
        /\ UNCHANGED <<failing, loopVars>>
     \/ /\ Loads(a) \/ iter[a] = MaxIterations[a]  \* History fails; the limit
        /\ HandlerError(a)
        /\ UNCHANGED shown
  /\ UNCHANGED <<optionVars, sessionVars, result, toolVars>>

\* executeTools starts one goroutine for each tool part.
StartTools(a, m) ==
  /\ call' = [call EXCEPT ![a] = [c \in Calls |-> IF c \in m.open THEN "run" ELSE "idle"]]
  /\ actions' = [actions EXCEPT ![a] = m.exit]
  /\ aborted' = aborted \ {a}
  /\ Goto(a, "tools")

\* model.Generate, and what handle does with the answer.
Generate(a) ==
  /\ pc[a] = "model" /\ ~ stream
  /\ shown' = [shown EXCEPT ![a] = <<>>]
  /\ \/ HandlerError(a) /\ UNCHANGED <<msg, outputs, toolVars>>
     \/ /\ \E m \in Replies(a) :
             /\ msg' = [msg EXCEPT ![a] = m]
             /\ \/ /\ m.kind = "assistant"
                   /\ outputs' = outputs \cup {a}
                   /\ Goto(a, "yield")
                   /\ UNCHANGED toolVars
                \/ /\ m.kind = "tool"
                   /\ StartTools(a, m)
                   /\ UNCHANGED outputs
        /\ UNCHANGED <<failing, loopVars>>
  /\ UNCHANGED <<optionVars, committed, history, result>>

\* model.NewStreaming yields: any number of partial messages (a second one
\* leads back to the same state) and at last a completed one, or an error.
Streaming(a) ==
  /\ pc[a] \in {"model", "stream"} /\ stream
  /\ msg[a].kind \in {"none", "partial"}
  /\ shown' = [shown EXCEPT ![a] = <<>>]
  /\ \/ /\ msg[a].kind = "none"
        /\ msg' = [msg EXCEPT ![a] = Partial]
        /\ Goto(a, "yield")
        /\ UNCHANGED <<outputs, failing, loopVars>>
     \/ /\ \E m \in Replies(a) :
             /\ msg' = [msg EXCEPT ![a] = m]
             /\ \/ m.kind = "tool" /\ Goto(a, "stream") /\ UNCHANGED outputs
                \/ /\ m.kind = "assistant" /\ Goto(a, "yield")
                   /\ outputs' = outputs \cup {a}
        /\ UNCHANGED <<failing, loopVars>>
     \/ HandlerError(a) /\ UNCHANGED <<msg, outputs>>
  /\ UNCHANGED <<optionVars, committed, history, result, toolVars>>

\* The stream has ended with a completed message.
StreamEnds(a) ==
  /\ pc[a] = "stream"
  /\ \/ /\ msg[a].kind = "tool"
        /\ StartTools(a, msg[a])
     \/ /\ msg[a].kind = "assistant"
        /\ Goto(a, "persist")
        /\ UNCHANGED toolVars
  /\ UNCHANGED <<optionVars, sessionVars, result, loopVars, shown, msg, failing>>

-----------------------------------------------------------------------------
\* A tool's handler runs; the exit tool sets an action.  An unknown tool and
\* an ordinary error are answered with a text.
ToolHandles(a, c) ==
  /\ call[a][c] = "run"
  /\ \E x \in Exits : actions' = [actions EXCEPT ![a] = IF x = "no" THEN @ ELSE x]
  /\ call' = [call EXCEPT ![a][c] = "handled"]
  /\ UNCHANGED <<optionVars, sessionVars, pc, result, loopVars, shown, msg,
                 failing, aborted>>

\* A tool's handler returns a context error.
ToolAborts(a, c) ==
  /\ call[a][c] = "run"
  /\ aborted' = aborted \cup {a}
  /\ call' = [call EXCEPT ![a][c] = "idle"]
  /\ UNCHANGED <<optionVars, sessionVars, pc, result, loopVars, shown, msg,
                 failing, actions>>

\* MergeActions with a fault: the arguments are swapped.
MergesStale(base, extra) == IF base = "no" THEN extra ELSE base

\* MergeActions: the second argument overrides the first.
MergeActions(base, extra) == IF extra = "no" THEN base ELSE extra

\* The section under m: store the part and merge the actions.
ToolStores(a, c) ==
  /\ call[a][c] = "handled"
  /\ LET m == msg[a]
         x == MergeActions(m.exit, actions[a])
     IN  msg' = [msg EXCEPT ![a] = Message(m.kind, m.by, m.open \ {c}, x)]
  /\ call' = [call EXCEPT ![a][c] = "idle"]
  /\ UNCHANGED <<optionVars, sessionVars, pc, result, loopVars, shown, failing,
                 actions, aborted>>

\* ToolsDone with a fault: the error of the group is dropped.
AbortDropped(a) ==
  /\ pc[a] = "tools"
  /\ call[a] = NoCalls
  /\ Goto(a, "yield")
  /\ UNCHANGED <<optionVars, sessionVars, result, loopVars, shown, msg, failing, toolVars>>

\* eg.Wait.
ToolsDone(a) ==
  /\ pc[a] = "tools"
  /\ call[a] = NoCalls
  /\ IF a \in aborted THEN HandlerError(a)
                      ELSE Goto(a, "yield") /\ UNCHANGED <<failing, loopVars>>
  /\ UNCHANGED <<optionVars, sessionVars, result, shown, msg, toolVars>>

\* Persist with a fault: the result of the tools is not kept for the next request.
ForgetsResult(a) ==
  /\ pc[a] = "persist"
  /\ history' = Append(history, msg[a])
  /\ IF msg[a].kind = "tool" /\ msg[a].exit = "no"
     THEN /\ iter' = [iter EXCEPT ![a] = @ + 1]
          /\ msg' = [msg EXCEPT ![a] = NoMsg]
          /\ Goto(a, "request")
          /\ UNCHANGED <<result, tries, local, actions>>
     ELSE End(a, "ok")
  /\ UNCHANGED <<optionVars, committed, outputs, shown, failing, call, aborted>>

\* Persist with a fault: the loop is left before the message is appended.
ExitUnsaved(a) ==
  /\ pc[a] = "persist"
  /\ IF msg[a].exit # "no"
     THEN End(a, "ok") /\ UNCHANGED history
     ELSE /\ history' = Append(history, msg[a])
          /\ IF msg[a].kind = "tool"
             THEN /\ iter' = [iter EXCEPT ![a] = @ + 1]
                  /\ local' = [local EXCEPT ![a] = IF Loads(a) THEN @ ELSE Append(@, msg[a])]
                  /\ msg' = [msg EXCEPT ![a] = NoMsg]
                  /\ Goto(a, "request")
                  /\ UNCHANGED <<result, tries, actions>>
             ELSE End(a, "ok")
  /\ UNCHANGED <<optionVars, committed, outputs, shown, failing, call, aborted>>

\* session.Append after the message was yielded; the loop ends, or goes on
\* with the result of the tools.
Persist(a) ==
  /\ pc[a] = "persist"
  /\ history' = Append(history, msg[a])
  /\ IF msg[a].kind = "tool" /\ msg[a].exit = "no"
     THEN /\ iter' = [iter EXCEPT ![a] = @ + 1]
          /\ local' = [local EXCEPT ![a] = IF Loads(a) THEN @ ELSE Append(@, msg[a])]
          /\ msg' = [msg EXCEPT ![a] = NoMsg]
          /\ Goto(a, "request")
          /\ UNCHANGED <<result, tries, actions>>
     ELSE End(a, "ok")
  /\ UNCHANGED <<optionVars, committed, outputs, shown, failing, call, aborted>>

\* Where handle goes on when yield returns true.
After(a) == IF stream /\ msg[a].kind # "tool" THEN "stream" ELSE "persist"

\* yield returns to the agent: whoever ranges over it goes on, or stops.
Answer(a, more) ==
  /\ pc[a] = "yield"
  /\ IF a \in failing \/ ~ more
     THEN End(a, IF a \in failing THEN "error" ELSE "stopped")
     ELSE Goto(a, After(a)) /\ UNCHANGED <<result, loopVars, msg, actions>>
  /\ failing' = failing \ {a}
  /\ UNCHANGED <<optionVars, sessionVars, shown, call, aborted>>

\* What an agent at "yield" offers.
Offer(a) == IF a \in failing THEN Failure ELSE msg[a]

\* Whether the consumer of a run may ask for more after m: Runner.Run reads to
\* the end, the caller of RunStream may stop, and both stop at an error.
Wants(m) == IF m = Failure THEN {FALSE} ELSE IF stream THEN BOOLEAN ELSE {TRUE}

\* The completed messages and the errors that the consumer has received.
Received(log, m) == IF m = Partial THEN log ELSE Append(log, m)

Agent(a) ==
  \/ Prepare(a) \/ Commit(a) \/ AppendUser(a) \/ Request(a)
  \/ Generate(a) \/ Streaming(a) \/ StreamEnds(a)
  \/ \E c \in Calls : ToolHandles(a, c) \/ ToolAborts(a, c) \/ ToolStores(a, c)
  \/ ToolsDone(a) \/ Persist(a)

-----------------------------------------------------------------------------
Kinds == {"none", "user", "partial", "tool", "assistant", "error"}

Messages ==
  [kind : Kinds, by : Agents \cup {"user", "none", "earlier"},
   open : SUBSET Calls, exit : Exits]

\* How many of the first n messages of s, and of all of them, an author in A wrote.
Count(A, s, n) == Cardinality({i \in 1 .. n : s[i].by \in A})
Number(A, s) == Count(A, s, Len(s))

\* As far as both go, s and t hold the same messages of the authors A in the same
\* order: the k-th such message of s is the k-th of t.
Agree(A, s, t) ==
  \A i \in DOMAIN s, j \in DOMAIN t :
    s[i].by \in A /\ t[j].by \in A /\ Count(A, s, i) = Count(A, t, j) => s[i] = t[j]

\* The user message enters the session exactly once: never twice, however many
\* agents share the invocation, and it is there when all of them have ended well
\* (CompareAndSwap on Invocation.committed; not at all on Resume).  One that lost
\* the CompareAndSwap may end before the winner has appended the message.
UserOnce ==
  LET users == {i \in DOMAIN history : history[i].kind = "user"}
  IN  /\ \A i, j \in users : i = j
      /\ (\A a \in Agents : result[a] = "ok") => users # {}

\* No message reaches the session, and through it a model, with a tool call
\* that is still unanswered, whichever tools fail or are cancelled
\* (executeTools returns its message only after eg.Wait without an error).
ToolsAnswered == \A i \in DOMAIN history : history[i].open = {}

\* A tool message is yielded with the last action that any of its tools set,
\* in whatever order the tools finish and take the lock of executeTools.
ActionsCurrent ==
  \A a \in Agents :
    pc[a] = "yield" /\ msg[a].kind = "tool" /\ a \notin failing => msg[a].exit = actions[a]

\* Every request carries the user message and each tool result of this attempt,
\* from the session for agents WithContext and from localMessages otherwise.
ContextComplete ==
  \A a \in Agents :
    pc[a] = "model" =>
      Number({"user"}, shown[a]) = 1 /\ Number({a}, shown[a]) >= iter[a]
=============================================================================
