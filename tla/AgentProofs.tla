----------------------------- MODULE AgentProofs -----------------------------
(***************************************************************************)
(* What the steps of an agent keep about its message and its tools,        *)
(* whatever flow the agent is part of.                                     *)
(***************************************************************************)
EXTENDS AgentRun, FiniteSetTheorems, TLAPS

Places == {"off", "prepare", "commit", "append", "request", "model", "stream",
           "tools", "yield", "persist", "done"}

\* The types that the argument needs.
ToolTypes ==
  /\ pc \in [Agents -> Places]
  /\ msg \in [Agents -> Messages]
  /\ call \in [Agents -> [Calls -> {"idle", "run", "handled"}]]
  /\ actions \in [Agents -> Exits]
  /\ history \in Seq(Messages)

\* Tools run only at "tools"; until one is cancelled, every open call has one.
CallsOK(b) ==
  /\ pc[b] # "tools" => call[b] = NoCalls
  /\ pc[b] = "tools" /\ b \notin aborted => \A c \in msg[b].open : call[b][c] # "idle"

\* What is about to be stored or was yielded without an error is complete.
OpenOK(b) ==
  /\ msg[b].kind # "tool" => msg[b].open = {}
  /\ pc[b] = "persist" => msg[b].open = {}
  /\ pc[b] = "yield" /\ b \notin failing => msg[b].open = {}

\* The message lags behind the shared actions only while a tool that has
\* returned waits for the lock, and no action is ever taken back.
ExitOK(b) ==
  /\ pc[b] = "tools" /\ (\A c \in Calls : call[b][c] # "handled") => msg[b].exit = actions[b]
  /\ pc[b] = "tools" /\ actions[b] = "no" => msg[b].exit = "no"
  /\ pc[b] = "yield" /\ msg[b].kind = "tool" /\ b \notin failing => msg[b].exit = actions[b]

\* The inductive invariant of the message and its tools.
ToolInv ==
  /\ ToolTypes
  /\ \A b \in Agents : CallsOK(b) /\ OpenOK(b) /\ ExitOK(b)
  /\ ToolsAnswered

\* The messages that the code writes are messages.
LEMMA MessageTypes ==
  /\ User \in Messages /\ NoMsg \in Messages /\ Partial \in Messages
  /\ Failure \in Messages /\ Earlier \in Messages
  /\ \A a \in Agents : Replies(a) \subseteq Messages
  BY AgentAssumption
     DEF User, NoMsg, Partial, Failure, Earlier, Replies, Message, Messages, Kinds

\* The invariant holds at the start.
LEMMA ToolInvInit == AgentInit => ToolInv
  <1> SUFFICES ASSUME AgentInit PROVE ToolInv
    OBVIOUS
  <1> USE DEF AgentInit
  <1>1. NoCalls \in [Calls -> {"idle", "run", "handled"}]
    BY DEF NoCalls
  <1>2. history \in Seq(Messages)
    <2>1. history = <<>> \/ history = <<User>> \/ history = <<User, Earlier>>
      OBVIOUS
    <2>2. User \in Messages /\ Earlier \in Messages
      BY MessageTypes
    <2> HIDE DEF AgentInit
    <2>3. <<>> \in Seq(Messages)
      OBVIOUS
    <2>4. <<User>> \in Seq(Messages)
      BY <2>2
    <2>5. <<User, Earlier>> \in Seq(Messages)
      BY <2>2
    <2> QED
      BY <2>1, <2>3, <2>4, <2>5
  <1>3. ToolTypes
    BY <1>1, <1>2, AgentAssumption, MessageTypes DEF ToolTypes, Places
  <1>4. ToolsAnswered
    BY DEF ToolsAnswered, User, Earlier, Message
  <1>5. \A b \in Agents : CallsOK(b) /\ OpenOK(b) /\ ExitOK(b)
    BY DEF CallsOK, OpenOK, ExitOK, NoMsg, Message
  <1> QED
    BY <1>3, <1>4, <1>5 DEF ToolInv

\* A step of one agent leaves what is said of another as it was.
LEMMA OtherAgent ==
  ASSUME ToolInv, NEW b \in Agents,
         pc'[b] = pc[b], msg'[b] = msg[b], call'[b] = call[b],
         actions'[b] = actions[b],
         b \in failing' <=> b \in failing, b \in aborted' <=> b \in aborted
  PROVE  CallsOK(b)' /\ OpenOK(b)' /\ ExitOK(b)'
  <1>1. CallsOK(b) /\ OpenOK(b) /\ ExitOK(b)
    BY DEF ToolInv
  <1>2. CallsOK(b)'
    BY <1>1 DEF CallsOK, NoCalls
  <1>3. OpenOK(b)'
    BY <1>1 DEF OpenOK
  <1>4. ExitOK(b)'
    BY <1>1 DEF ExitOK
  <1> QED
    BY <1>2, <1>3, <1>4

(***************************************************************************)
(* A step outside executeTools: agent a moves to q with the message M, the *)
(* goroutines of its tools are gone, and nothing is stored but complete    *)
(* messages.                                                               *)
(***************************************************************************)
LEMMA PlainStep ==
  ASSUME ToolInv, NEW a \in Agents, NEW q \in Places \ {"tools"}, NEW M \in Messages,
         NEW X \in Exits,
         pc' = [pc EXCEPT ![a] = q], msg' = [msg EXCEPT ![a] = M],
         actions' = [actions EXCEPT ![a] = X], call' = call, aborted' = aborted,
         call[a] = NoCalls,
         M.kind # "tool" => M.open = {},
         q = "persist" => M.open = {},
         q = "yield" /\ a \notin failing' => M.open = {} /\ (M.kind = "tool" => M.exit = X),
         \A b \in Agents \ {a} : b \in failing' <=> b \in failing,
         history' \in Seq(Messages), ToolsAnswered'
  PROVE  ToolInv'
  <1>1. ToolTypes'
    BY DEF ToolInv, ToolTypes
  <1>2. ASSUME NEW b \in Agents PROVE CallsOK(b)' /\ OpenOK(b)' /\ ExitOK(b)'
    <2>1. CASE b # a
      BY <2>1, OtherAgent DEF ToolInv, ToolTypes
    <2>2. CASE b = a
      <3>1. pc'[a] = q /\ msg'[a] = M /\ actions'[a] = X /\ call'[a] = NoCalls
        BY DEF ToolInv, ToolTypes
      <3>2. CallsOK(a)'
        BY <3>1 DEF CallsOK, NoCalls
      <3>3. OpenOK(a)'
        BY <3>1 DEF OpenOK
      <3>4. ExitOK(a)'
        BY <3>1 DEF ExitOK
      <3> QED
        BY <2>2, <3>2, <3>3, <3>4
    <2> QED
      BY <2>1, <2>2
  <1> QED
    BY <1>1, <1>2 DEF ToolInv

\* The steps of Run before the loop, and the head of the loop.
LEMMA HeadStep ==
  ASSUME ToolInv, NEW a \in Agents,
         Start(a) \/ Prepare(a) \/ Commit(a) \/ AppendUser(a)
  PROVE  ToolInv'
  <1>1. /\ call[a] = NoCalls /\ msg[a] \in Messages /\ actions[a] \in Exits
        /\ msg[a].kind # "tool" => msg[a].open = {}
    BY DEF ToolInv, ToolTypes, CallsOK, OpenOK, Start, Prepare, Commit, AppendUser
  <1>2. /\ msg' = [msg EXCEPT ![a] = msg[a]] /\ actions' = [actions EXCEPT ![a] = actions[a]]
        /\ call' = call /\ aborted' = aborted
    BY DEF ToolInv, ToolTypes, Start, Prepare, Commit, AppendUser, toolVars
  <1>3. \A b \in Agents \ {a} : b \in failing' <=> b \in failing
    BY DEF Start, Prepare, Commit, AppendUser
  <1>4. PICK q \in Places \ {"tools", "persist"} :
          pc' = [pc EXCEPT ![a] = q] /\ (q = "yield" => a \in failing')
    BY DEF Start, Prepare, Commit, AppendUser, Goto, Places
  <1>5. history' \in Seq(Messages) /\ ToolsAnswered'
    <2>1. history' = history \/ history' = Append(history, User)
      BY DEF Start, Prepare, Commit, AppendUser, sessionVars
    <2>2. User \in Messages /\ User.open = {}
      BY MessageTypes DEF User, Message
    <2>3. history \in Seq(Messages) /\ \A i \in DOMAIN history : history[i].open = {}
      BY DEF ToolInv, ToolTypes, ToolsAnswered
    <2> QED
      BY <2>1, <2>2, <2>3 DEF ToolsAnswered
  <1> QED
    BY <1>1, <1>2, <1>3, <1>4, <1>5, PlainStep

\* An error of handle: the agent starts over, or yields the error.
LEMMA ErrorPlace ==
  ASSUME NEW a \in Agents, HandlerError(a)
  PROVE  /\ \E q \in {"request", "yield"} :
              pc' = [pc EXCEPT ![a] = q] /\ (q = "yield" => a \in failing')
         /\ \A b \in Agents \ {a} : b \in failing' <=> b \in failing
  BY DEF HandlerError, Goto

\* The invariant of an agent between two steps outside executeTools.
LEMMA NoToolsRun ==
  ASSUME ToolInv, NEW a \in Agents
  PROVE  /\ msg[a] \in Messages /\ actions[a] \in Exits
         /\ msg = [msg EXCEPT ![a] = msg[a]] /\ actions = [actions EXCEPT ![a] = actions[a]]
         /\ history \in Seq(Messages) /\ ToolsAnswered
         /\ pc[a] # "tools" => call[a] = NoCalls
         /\ msg[a].kind # "tool" => msg[a].open = {}
  BY DEF ToolInv, ToolTypes, CallsOK, OpenOK

\* An error of handle while no tool runs.
LEMMA ErrorStep ==
  ASSUME ToolInv, NEW a \in Agents, HandlerError(a), call[a] = NoCalls,
         msg' = msg, actions' = actions, call' = call, aborted' = aborted,
         history' = history
  PROVE  ToolInv'
  <1>1. PICK q \in {"request", "yield"} :
          pc' = [pc EXCEPT ![a] = q] /\ (q = "yield" => a \in failing')
    BY ErrorPlace
  <1>2. \A b \in Agents \ {a} : b \in failing' <=> b \in failing
    BY ErrorPlace
  <1>3. q \in Places \ {"tools"} /\ q # "persist"
    BY DEF Places
  <1>4. ToolsAnswered' /\ history' \in Seq(Messages)
    BY NoToolsRun DEF ToolsAnswered
  <1>5. msg' = [msg EXCEPT ![a] = msg[a]] /\ actions' = [actions EXCEPT ![a] = actions[a]]
    BY NoToolsRun
  <1> QED
    BY <1>1, <1>2, <1>3, <1>4, <1>5, NoToolsRun, PlainStep

\* The head of the loop.
LEMMA RequestStep ==
  ASSUME ToolInv, NEW a \in Agents, Request(a)
  PROVE  ToolInv'
  <1>1. NoMsg \in Messages /\ NoMsg.open = {}
    BY MessageTypes DEF NoMsg, Message
  <1>2. /\ pc[a] = "request" /\ msg' = [msg EXCEPT ![a] = NoMsg] /\ history' = history
        /\ actions' = actions /\ call' = call /\ aborted' = aborted
    BY DEF Request, sessionVars, toolVars
  <1>3. /\ \E q \in {"request", "yield", "model"} :
             pc' = [pc EXCEPT ![a] = q] /\ (q = "yield" => a \in failing')
        /\ \A b \in Agents \ {a} : b \in failing' <=> b \in failing
    BY ErrorPlace DEF Request, Goto
  <1>4. ToolsAnswered'
    BY <1>2, NoToolsRun DEF ToolsAnswered
  <1> QED
    BY <1>1, <1>2, <1>3, <1>4, NoToolsRun, PlainStep DEF Places

\* executeTools starts on the message m: all its open calls run, and the shared
\* actions are those of the message.
LEMMA StartToolsStep ==
  ASSUME ToolInv, NEW a \in Agents, NEW m \in Messages, m.kind = "tool",
         StartTools(a, m), msg' = [msg EXCEPT ![a] = m],
         failing' = failing, history' = history
  PROVE  ToolInv'
  <1>1. m.open \subseteq Calls /\ m.exit \in Exits
    BY DEF Messages
  <1>2. ToolTypes'
    BY <1>1 DEF ToolInv, ToolTypes, StartTools, Goto, Places
  <1>3. ToolsAnswered'
    BY NoToolsRun DEF ToolsAnswered
  <1>4. ASSUME NEW b \in Agents PROVE CallsOK(b)' /\ OpenOK(b)' /\ ExitOK(b)'
    <2>1. CASE b # a
      BY <2>1, OtherAgent DEF ToolInv, ToolTypes, StartTools, Goto
    <2>2. CASE b = a
      <3>1. /\ pc'[a] = "tools" /\ msg'[a] = m /\ actions'[a] = m.exit
            /\ call'[a] = [c \in Calls |-> IF c \in m.open THEN "run" ELSE "idle"]
        BY DEF ToolInv, ToolTypes, StartTools, Goto
      <3>2. CallsOK(a)'
        BY <1>1, <3>1 DEF CallsOK
      <3>3. OpenOK(a)'
        BY <3>1 DEF OpenOK
      <3>4. ExitOK(a)'
        BY <3>1 DEF ExitOK
      <3> QED
        BY <2>2, <3>2, <3>3, <3>4
    <2> QED
      BY <2>1, <2>2
  <1> QED
    BY <1>2, <1>3, <1>4 DEF ToolInv

\* The answer of the model, in one piece or as a stream.
LEMMA ModelStep ==
  ASSUME ToolInv, NEW a \in Agents, Generate(a) \/ Streaming(a)
  PROVE  ToolInv'
  <1>1. /\ pc[a] # "tools" /\ history' = history
        /\ call[a] = NoCalls /\ ToolsAnswered' /\ history' \in Seq(Messages)
    BY NoToolsRun DEF Generate, Streaming, ToolsAnswered
  <1>2. /\ Partial \in Messages /\ Partial.open = {} /\ Partial.kind # "tool"
        /\ \A m \in Replies(a) : m \in Messages /\ (m.kind # "tool" => m.open = {})
    BY MessageTypes DEF Partial, Replies, Message
  <1>3. CASE HandlerError(a) /\ UNCHANGED <<msg, toolVars>>
    BY <1>1, <1>3, ErrorStep DEF toolVars
  <1>4. ASSUME NEW m \in Replies(a), m.kind = "tool", StartTools(a, m),
               msg' = [msg EXCEPT ![a] = m], failing' = failing
        PROVE  ToolInv'
    BY <1>1, <1>2, <1>4, StartToolsStep
  <1>5. ASSUME NEW m \in Replies(a) \cup {Partial}, NEW q \in {"stream", "yield"},
               q = "yield" => m.kind # "tool",
               pc' = [pc EXCEPT ![a] = q], msg' = [msg EXCEPT ![a] = m],
               failing' = failing, UNCHANGED toolVars
        PROVE  ToolInv'
    BY <1>1, <1>2, <1>5, NoToolsRun, PlainStep DEF Places, toolVars
  <1>6. CASE Generate(a)
    <2>1. CASE HandlerError(a) /\ UNCHANGED <<msg, outputs, toolVars>>
      BY <1>3, <2>1
    <2>2. ASSUME NEW m \in Replies(a), msg' = [msg EXCEPT ![a] = m], UNCHANGED failing,
                 m.kind = "assistant", Goto(a, "yield"), UNCHANGED toolVars
          PROVE  ToolInv'
      <3>1. pc' = [pc EXCEPT ![a] = "yield"] /\ m.kind # "tool" /\ failing' = failing
        BY <2>2 DEF Goto
      <3> QED
        BY <1>5, <2>2, <3>1
    <2>3. ASSUME NEW m \in Replies(a), msg' = [msg EXCEPT ![a] = m], UNCHANGED failing,
                 m.kind = "tool", StartTools(a, m)
          PROVE  ToolInv'
      BY <1>4, <2>3
    <2> QED
      BY <1>6, <2>1, <2>2, <2>3 DEF Generate
  <1>7. CASE Streaming(a)
    BY <1>2, <1>3, <1>5, <1>7 DEF Streaming, Goto
  <1> QED
    BY <1>6, <1>7

\* The end of a stream.
LEMMA StreamEndsStep ==
  ASSUME ToolInv, NEW a \in Agents, StreamEnds(a)
  PROVE  ToolInv'
  <1>1. /\ pc[a] = "stream" /\ history' = history /\ failing' = failing
        /\ msg' = [msg EXCEPT ![a] = msg[a]] /\ ToolsAnswered'
    BY NoToolsRun DEF StreamEnds, sessionVars, ToolsAnswered
  <1>2. CASE msg[a].kind = "tool" /\ StartTools(a, msg[a])
    BY <1>1, <1>2, NoToolsRun, StartToolsStep
  <1>3. CASE msg[a].kind = "assistant" /\ Goto(a, "persist") /\ UNCHANGED toolVars
    BY <1>1, <1>3, NoToolsRun, PlainStep DEF Goto, Places, toolVars
  <1> QED
    BY <1>2, <1>3 DEF StreamEnds

(***************************************************************************)
(* The goroutines of executeTools.  They run only while their agent is at  *)
(* "tools".                                                                *)
(***************************************************************************)
LEMMA ToolStep ==
  ASSUME ToolInv, NEW a \in Agents, NEW c \in Calls,
         ToolHandles(a, c) \/ ToolAborts(a, c) \/ ToolStores(a, c)
  PROVE  ToolInv'
  <1>1. call[a][c] # "idle" /\ pc' = pc /\ history' = history /\ failing' = failing
    BY DEF ToolHandles, ToolAborts, ToolStores, sessionVars
  <1>2. pc[a] = "tools" /\ CallsOK(a) /\ OpenOK(a) /\ ExitOK(a)
    BY <1>1 DEF ToolInv, CallsOK, NoCalls
  <1>3. ToolsAnswered'
    BY <1>1, NoToolsRun DEF ToolsAnswered
  <1>4. ToolTypes /\ msg[a] \in Messages
    BY DEF ToolInv, ToolTypes
  <1>5. msg[a].open \subseteq Calls /\ msg[a].exit \in Exits /\ actions[a] \in Exits
    BY <1>4 DEF Messages, ToolTypes
  <1>6. \A b \in Agents \ {a} : CallsOK(b)' /\ OpenOK(b)' /\ ExitOK(b)'
    <2> TAKE b \in Agents \ {a}
    <2>1. /\ call'[b] = call[b] /\ msg'[b] = msg[b] /\ actions'[b] = actions[b]
          /\ b \in aborted' <=> b \in aborted
      BY <1>4 DEF ToolTypes, ToolHandles, ToolAborts, ToolStores
    <2> QED
      BY <1>1, <2>1, OtherAgent
  <1>7. CASE ToolHandles(a, c)
    <2>1. /\ msg' = msg /\ aborted' = aborted
          /\ call' = [call EXCEPT ![a][c] = "handled"]
      BY <1>7 DEF ToolHandles
    <2>2. PICK x \in Exits : actions' = [actions EXCEPT ![a] = IF x = "no" THEN @ ELSE x]
      BY <1>7 DEF ToolHandles
    <2>3. ToolTypes'
      BY <1>1, <1>4, <1>5, <2>1, <2>2 DEF ToolTypes
    <2>4. call'[a][c] = "handled" /\ (actions'[a] = "no" => actions[a] = "no")
      BY <1>4, <2>1, <2>2 DEF ToolTypes
    <2>5. CallsOK(a)'
      BY <1>1, <1>2, <1>4, <2>1 DEF CallsOK, ToolTypes
    <2>6. OpenOK(a)'
      BY <1>1, <1>2, <2>1 DEF OpenOK
    <2>7. ExitOK(a)'
      BY <1>1, <1>2, <2>1, <2>4 DEF ExitOK
    <2> QED
      BY <1>3, <1>6, <2>3, <2>5, <2>6, <2>7 DEF ToolInv
  <1>8. CASE ToolAborts(a, c)
    <2>1. /\ msg' = msg /\ actions' = actions /\ aborted' = aborted \cup {a}
          /\ call' = [call EXCEPT ![a][c] = "idle"] /\ call[a][c] = "run"
      BY <1>8 DEF ToolAborts
    <2>2. ToolTypes'
      BY <1>1, <1>4, <2>1 DEF ToolTypes
    <2>3. \A d \in Calls : call'[a][d] = "handled" <=> call[a][d] = "handled"
      BY <1>4, <2>1 DEF ToolTypes
    <2>4. CallsOK(a)'
      BY <1>1, <1>2, <2>1 DEF CallsOK
    <2>5. OpenOK(a)'
      BY <1>1, <1>2, <2>1 DEF OpenOK
    <2>6. ExitOK(a)'
      BY <1>1, <1>2, <2>1, <2>3 DEF ExitOK
    <2> QED
      BY <1>3, <1>6, <2>2, <2>4, <2>5, <2>6 DEF ToolInv
  <1>9. CASE ToolStores(a, c)
    <2> DEFINE x == MergeActions(msg[a].exit, actions[a])
               M == Message(msg[a].kind, msg[a].by, msg[a].open \ {c}, x)
    <2>1. x \in Exits /\ x = actions[a]
      BY <1>2, <1>5 DEF MergeActions, ExitOK
    <2>2. M \in Messages /\ M.open = msg[a].open \ {c} /\ M.exit = x /\ M.kind = msg[a].kind
      BY <1>4, <1>5, <2>1 DEF Messages, Message
    <2>3. /\ msg' = [msg EXCEPT ![a] = M] /\ actions' = actions /\ aborted' = aborted
          /\ call' = [call EXCEPT ![a][c] = "idle"]
      BY <1>4, <1>9 DEF ToolStores, ToolTypes
    <2> HIDE DEF M, x
    <2>4. msg'[a] = M /\ ToolTypes'
      BY <1>1, <1>4, <2>2, <2>3 DEF ToolTypes
    <2>5. \A d \in Calls \ {c} : call'[a][d] = call[a][d]
      BY <1>4, <2>3 DEF ToolTypes
    <2>6. CallsOK(a)'
      BY <1>1, <1>2, <1>5, <2>2, <2>3, <2>4, <2>5 DEF CallsOK
    <2>7. OpenOK(a)'
      BY <1>1, <1>2, <2>2, <2>4 DEF OpenOK
    <2>8. ExitOK(a)'
      BY <1>1, <1>2, <2>1, <2>2, <2>3, <2>4 DEF ExitOK
    <2> QED
      BY <1>3, <1>6, <2>4, <2>6, <2>7, <2>8 DEF ToolInv
  <1> QED
    BY <1>7, <1>8, <1>9

\* eg.Wait: without an error every call has been answered and every action merged.
LEMMA ToolsDoneStep ==
  ASSUME ToolInv, NEW a \in Agents, ToolsDone(a)
  PROVE  ToolInv'
  <1>1. /\ pc[a] = "tools" /\ call[a] = NoCalls /\ history' = history /\ msg' = msg
        /\ actions' = actions /\ call' = call /\ aborted' = aborted
    BY DEF ToolsDone, sessionVars, toolVars
  <1>2. CASE a \in aborted
    BY <1>1, <1>2, ErrorStep DEF ToolsDone
  <1>3. CASE a \notin aborted
    <2>1. pc' = [pc EXCEPT ![a] = "yield"] /\ failing' = failing
      BY <1>3 DEF ToolsDone, Goto
    <2>2. \A c \in Calls : call[a][c] = "idle"
      BY <1>1 DEF NoCalls
    <2>3. msg[a].open = {}
      BY <1>1, <1>3, <2>2 DEF ToolInv, ToolTypes, Messages, CallsOK
    <2>4. msg[a].exit = actions[a]
      BY <1>1, <2>2 DEF ToolInv, ExitOK
    <2>5. "yield" \in Places \ {"tools"} /\ ToolsAnswered'
      BY <1>1, NoToolsRun DEF Places, ToolsAnswered
    <2>6. /\ msg' = [msg EXCEPT ![a] = msg[a]] /\ actions' = [actions EXCEPT ![a] = actions[a]]
          /\ msg[a] \in Messages /\ actions[a] \in Exits /\ history' \in Seq(Messages)
      BY <1>1, NoToolsRun
    <2> QED
      BY <1>1, <2>1, <2>3, <2>4, <2>5, <2>6, PlainStep
  <1> QED
    BY <1>2, <1>3

\* session.Append: what is stored is complete.
LEMMA PersistStep ==
  ASSUME ToolInv, NEW a \in Agents, Persist(a)
  PROVE  ToolInv'
  <1>1. /\ pc[a] = "persist" /\ history' = Append(history, msg[a])
        /\ call' = call /\ aborted' = aborted /\ failing' = failing
    BY DEF Persist
  <1>2. msg[a].open = {} /\ msg[a] \in Messages /\ call[a] = NoCalls
    BY <1>1, NoToolsRun DEF ToolInv, OpenOK
  <1>3. history' \in Seq(Messages) /\ ToolsAnswered'
    <2>1. history \in Seq(Messages) /\ \A i \in DOMAIN history : history[i].open = {}
      BY NoToolsRun DEF ToolsAnswered
    <2> QED
      BY <1>1, <1>2, <2>1 DEF ToolsAnswered
  <1>4. NoMsg \in Messages /\ NoMsg.open = {} /\ "no" \in Exits
    BY MessageTypes, AgentAssumption DEF NoMsg, Message
  <1>5. msg' = [msg EXCEPT ![a] = NoMsg]
    BY DEF Persist, End
  <1>6. PICK q \in {"request", "done"} : pc' = [pc EXCEPT ![a] = q]
    BY DEF Persist, End, Goto
  <1>7. PICK x \in {actions[a], "no"} : actions' = [actions EXCEPT ![a] = x]
    BY NoToolsRun DEF Persist, End
  <1>8. x \in Exits /\ q \in Places \ {"tools"} /\ q # "yield" /\ q # "persist"
    BY <1>4, NoToolsRun DEF Places
  <1> QED
    BY <1>1, <1>2, <1>3, <1>4, <1>5, <1>6, <1>7, <1>8, PlainStep

\* yield returns to the agent.
LEMMA AnswerStep ==
  ASSUME ToolInv, NEW a \in Agents, NEW more \in BOOLEAN, Answer(a, more)
  PROVE  ToolInv'
  <1>1. /\ pc[a] = "yield" /\ history' = history /\ call' = call /\ aborted' = aborted
        /\ failing' = failing \ {a}
    BY DEF Answer, sessionVars
  <1>2. call[a] = NoCalls /\ history' \in Seq(Messages) /\ ToolsAnswered'
    BY <1>1, NoToolsRun DEF ToolsAnswered
  <1>3. NoMsg \in Messages /\ NoMsg.open = {} /\ "no" \in Exits
    BY MessageTypes, AgentAssumption DEF NoMsg, Message
  <1>4. CASE a \in failing \/ ~ more
    <2>1. /\ pc' = [pc EXCEPT ![a] = "done"] /\ msg' = [msg EXCEPT ![a] = NoMsg]
          /\ actions' = [actions EXCEPT ![a] = "no"]
      BY <1>4 DEF Answer, End, Goto
    <2>2. "done" \in Places \ {"tools"}
      BY DEF Places
    <2> QED
      BY <1>1, <1>2, <1>3, <2>1, <2>2, PlainStep
  <1>5. CASE a \notin failing /\ more
    <2>1. pc' = [pc EXCEPT ![a] = After(a)] /\ msg' = msg /\ actions' = actions
      BY <1>5 DEF Answer, Goto
    <2>2. After(a) \in Places \ {"tools"} /\ After(a) # "yield"
      BY DEF After, Places
    <2>3. msg[a].open = {}
      BY <1>1, <1>5 DEF ToolInv, OpenOK
    <2>4. /\ msg' = [msg EXCEPT ![a] = msg[a]] /\ actions' = [actions EXCEPT ![a] = actions[a]]
          /\ msg[a] \in Messages /\ actions[a] \in Exits
      BY <2>1, NoToolsRun
    <2> QED
      BY <1>1, <1>2, <2>1, <2>2, <2>3, <2>4, PlainStep
  <1> QED
    BY <1>4, <1>5

\* Every step of an agent keeps the invariant.
LEMMA AgentStep ==
  ASSUME ToolInv, NEW a \in Agents, Agent(a)
  PROVE  ToolInv'
  BY HeadStep, RequestStep, ModelStep, StreamEndsStep, ToolStep, ToolsDoneStep,
     PersistStep DEF Agent

\* So does a step of the flow that leaves the agents alone.
LEMMA FlowStep ==
  ASSUME ToolInv, UNCHANGED agentVars
  PROVE  ToolInv'
  <1>1. /\ pc' = pc /\ msg' = msg /\ call' = call /\ actions' = actions
        /\ history' = history /\ failing' = failing /\ aborted' = aborted
    BY DEF agentVars, sessionVars, toolVars
  <1>2. ToolTypes' /\ ToolsAnswered'
    BY <1>1 DEF ToolInv, ToolTypes, ToolsAnswered
  <1>3. \A b \in Agents : CallsOK(b)' /\ OpenOK(b)' /\ ExitOK(b)'
    BY <1>1, OtherAgent
  <1> QED
    BY <1>2, <1>3 DEF ToolInv

-----------------------------------------------------------------------------
HasUser == \E i \in DOMAIN history : history[i].kind = "user"

\* The agent has left the CompareAndSwap behind.
Past(b) == \/ pc[b] \in {"request", "model", "stream", "tools", "persist"}
           \/ pc[b] = "yield" /\ b \notin failing

\* No message of an agent is a user message, and the session has one at most.
UsersOK ==
  /\ \A b \in Agents : msg[b].kind # "user"
  /\ \A i, j \in DOMAIN history : history[i].kind = "user" /\ history[j].kind = "user" => i = j

\* Who may append it: nobody on Resume, else the one agent that set the flag.
AppendOK ==
  /\ \A b \in Agents : pc[b] = "append" => committed /\ ~ resume /\ ~ HasUser
  /\ \A b, d \in Agents : pc[b] = "append" /\ pc[d] = "append" => b = d

\* The flag tells whether the message is in the session or about to be.
FlagOK ==
  /\ HasUser => committed \/ resume
  /\ committed \/ resume => HasUser \/ \E b \in Agents : pc[b] = "append"

\* Nobody goes past the flag, or ends well, before it is set.
OrderOK ==
  \A b \in Agents :
    /\ Past(b) => committed \/ resume
    /\ result[b] = "ok" => pc[b] = "done" /\ (committed \/ resume)

\* The inductive invariant of the user message.
UserInv ==
  /\ committed \in BOOLEAN /\ resume \in BOOLEAN
  /\ result \in [Agents -> {"none", "ok", "error", "stopped"}]
  /\ UsersOK /\ AppendOK /\ FlagOK /\ OrderOK

\* The invariant holds at the start.
LEMMA UserInvInit == AgentInit => UserInv
  <1> SUFFICES ASSUME AgentInit PROVE UserInv
    OBVIOUS
  <1>1. /\ pc = [a \in Agents |-> "off"] /\ result = [a \in Agents |-> "none"]
        /\ msg = [a \in Agents |-> NoMsg] /\ committed = FALSE /\ resume \in BOOLEAN
    BY AgentAssumption DEF AgentInit
  <1>2. NoMsg.kind # "user" /\ User.kind = "user" /\ Earlier.kind # "user"
    BY DEF NoMsg, User, Earlier, Message
  <1>3. /\ ~ resume => history = <<>>
        /\ resume => history = <<User>> \/ history = <<User, Earlier>>
    BY DEF AgentInit
  <1>4. HasUser <=> resume
    BY <1>2, <1>3 DEF HasUser
  <1>5. UsersOK
    BY <1>1, <1>2, <1>3 DEF UsersOK
  <1>6. AppendOK /\ OrderOK
    BY <1>1 DEF AppendOK, OrderOK, Past
  <1>7. FlagOK
    BY <1>1, <1>4 DEF FlagOK
  <1> QED
    BY <1>1, <1>5, <1>6, <1>7 DEF UserInv

(***************************************************************************)
(* A step of agent a that neither begins nor ends the append of the user   *)
(* message: it moves to q, with result r, and does not pass the flag       *)
(* unless it is set.                                                       *)
(***************************************************************************)
LEMMA UserFrame ==
  ASSUME UserInv, ToolInv, NEW a \in Agents, NEW q \in Places,
         NEW r \in {"none", "ok", "error", "stopped"},
         pc' = [pc EXCEPT ![a] = q], result' = [result EXCEPT ![a] = r],
         pc[a] # "append", q # "append",
         committed' = committed, resume' = resume, HasUser' <=> HasUser, UsersOK',
         \A b \in Agents \ {a} : b \in failing' <=> b \in failing,
         Past(a)' => committed \/ resume,
         r = "ok" => q = "done" /\ (committed \/ resume)
  PROVE  UserInv'
  <1>1. /\ pc'[a] = q /\ result'[a] = r
        /\ \A b \in Agents \ {a} : pc'[b] = pc[b] /\ result'[b] = result[b]
    BY DEF ToolInv, ToolTypes, UserInv
  <1>2. AppendOK'
    BY <1>1 DEF UserInv, AppendOK
  <1>3. FlagOK'
    <2>1. (\E b \in Agents : pc[b] = "append") => \E b \in Agents : pc'[b] = "append"
      BY <1>1
    <2> QED
      BY <2>1 DEF UserInv, FlagOK
  <1>4. OrderOK'
    <2>1. \A b \in Agents \ {a} : Past(b)' => Past(b)
      BY <1>1 DEF Past
    <2> QED
      BY <1>1, <2>1 DEF UserInv, OrderOK
  <1> QED
    BY <1>2, <1>3, <1>4 DEF UserInv

\* Storing nothing, or a message of an agent, changes nothing about user messages.
LEMMA SameUser ==
  ASSUME UserInv, ToolInv, \A b \in Agents : msg'[b].kind # "user",
         \/ history' = history
         \/ \E m \in Messages : m.kind # "user" /\ history' = Append(history, m)
  PROVE  (HasUser' <=> HasUser) /\ UsersOK'
  <1>1. history \in Seq(Messages)
    BY NoToolsRun DEF ToolInv, ToolTypes
  <1>2. CASE history' = history
    BY <1>2 DEF UserInv, UsersOK, HasUser
  <1>3. ASSUME NEW m \in Messages, m.kind # "user", history' = Append(history, m)
        PROVE  (HasUser' <=> HasUser) /\ UsersOK'
    <2>1. /\ Len(history) \in Nat /\ DOMAIN history = 1 .. Len(history)
          /\ DOMAIN history' = 1 .. Len(history) + 1
          /\ history'[Len(history) + 1].kind # "user"
          /\ \A i \in DOMAIN history : history'[i] = history[i]
      BY <1>1, <1>3
    <2>2. HasUser' <=> HasUser
      BY <2>1 DEF HasUser
    <2>3. \A i \in DOMAIN history' : history'[i].kind = "user" => i \in DOMAIN history
      BY <2>1
    <2>4. UsersOK'
      BY <2>1, <2>3 DEF UserInv, UsersOK
    <2> QED
      BY <2>2, <2>4
  <1> QED
    BY <1>2, <1>3

\* The messages that an agent is given are not user messages.
LEMMA KindStep ==
  ASSUME UserInv, ToolInv, NEW a \in Agents,
         \/ msg' = msg
         \/ \E m \in Replies(a) \cup {Partial, NoMsg} : msg' = [msg EXCEPT ![a] = m]
  PROVE  \A b \in Agents : msg'[b].kind # "user"
  <1>1. \A m \in Replies(a) \cup {Partial, NoMsg} : m.kind # "user"
    BY DEF Replies, Partial, NoMsg, Message
  <1> QED
    BY <1>1 DEF UserInv, UsersOK, ToolInv, ToolTypes

\* The steps before the flag.
LEMMA EarlyUserStep ==
  ASSUME UserInv, ToolInv, NEW a \in Agents, Start(a) \/ Prepare(a)
  PROVE  UserInv'
  <1>1. /\ history' = history /\ msg' = msg /\ committed' = committed /\ resume' = resume
        /\ \A b \in Agents \ {a} : b \in failing' <=> b \in failing
        /\ pc[a] # "append"
    BY DEF Start, Prepare, sessionVars, optionVars
  <1>2. (HasUser' <=> HasUser) /\ UsersOK'
    BY <1>1, KindStep, SameUser
  <1>3. result \in [Agents -> {"none", "ok", "error", "stopped"}]
    BY DEF UserInv
  <1>4. PICK q \in {"prepare", "commit", "yield"} :
          pc' = [pc EXCEPT ![a] = q] /\ (q = "yield" => a \in failing')
    BY DEF Start, Prepare, Goto
  <1>5. q \in Places /\ ~ Past(a)'
    BY <1>4 DEF Places, Past, ToolInv, ToolTypes
  <1>6. PICK r \in {"none", "error", "stopped"} : result' = [result EXCEPT ![a] = r]
    <2>1. CASE Start(a)
      BY <2>1 DEF Start
    <2>2. CASE Prepare(a)
      <3>1. result' = result /\ result[a] # "ok"
        BY <2>2 DEF Prepare, UserInv, OrderOK
      <3> QED
        BY <1>3, <3>1
    <2> QED
      BY <2>1, <2>2
  <1> QED
    BY <1>1, <1>2, <1>4, <1>5, <1>6, UserFrame

\* The steps of the loop that store nothing and do not leave it.
LEMMA LoopUserStep ==
  ASSUME UserInv, ToolInv, NEW a \in Agents, Past(a), pc[a] # "done",
         NEW q \in Places \ {"append", "done"},
         pc' = [pc EXCEPT ![a] = q], result' = result,
         committed' = committed, resume' = resume,
         \/ history' = history
         \/ \E m \in Messages : m.kind # "user" /\ history' = Append(history, m),
         \A b \in Agents \ {a} : b \in failing' <=> b \in failing,
         \/ msg' = msg
         \/ \E m \in Replies(a) \cup {Partial, NoMsg} : msg' = [msg EXCEPT ![a] = m]
  PROVE  UserInv'
  <1>1. (HasUser' <=> HasUser) /\ UsersOK'
    BY KindStep, SameUser
  <1>2. /\ committed \/ resume
        /\ result[a] # "ok" /\ result[a] \in {"none", "ok", "error", "stopped"}
        /\ result' = [result EXCEPT ![a] = result[a]]
    BY DEF UserInv, OrderOK
  <1>3. pc[a] # "append"
    BY DEF Past
  <1> QED
    BY <1>1, <1>2, <1>3, UserFrame

\* The CompareAndSwap: one agent wins, while the session has no user message.
LEMMA CommitUserStep ==
  ASSUME UserInv, ToolInv, NEW a \in Agents, Commit(a)
  PROVE  UserInv'
  <1>1. /\ history' = history /\ msg' = msg /\ resume' = resume /\ result' = result
        /\ failing' = failing /\ pc[a] = "commit"
    BY DEF Commit, optionVars
  <1>2. (HasUser' <=> HasUser) /\ UsersOK'
    BY <1>1, KindStep, SameUser
  <1>3. /\ result[a] # "ok" /\ result[a] \in {"none", "ok", "error", "stopped"}
        /\ result' = [result EXCEPT ![a] = result[a]]
    BY <1>1 DEF UserInv, OrderOK
  <1>4. CASE resume \/ committed
    <2>1. pc' = [pc EXCEPT ![a] = "request"] /\ committed' = committed
      BY <1>4 DEF Commit, Goto
    <2>2. "request" \in Places
      BY DEF Places
    <2> QED
      BY <1>1, <1>2, <1>3, <1>4, <2>1, <2>2, UserFrame
  <1>5. CASE ~ resume /\ ~ committed
    <2>1. pc' = [pc EXCEPT ![a] = "append"] /\ committed' = TRUE
      BY <1>5 DEF Commit, Goto
    <2>2. pc'[a] = "append" /\ \A b \in Agents \ {a} : pc'[b] = pc[b]
      BY <2>1 DEF ToolInv, ToolTypes
    <2>3. ~ HasUser /\ \A b \in Agents : pc[b] # "append"
      BY <1>5 DEF UserInv, FlagOK, AppendOK
    <2>4. AppendOK'
      BY <1>1, <1>2, <1>5, <2>1, <2>2, <2>3 DEF AppendOK
    <2>5. FlagOK'
      BY <2>1, <2>2 DEF FlagOK
    <2>6. OrderOK'
      <3>1. \A b \in Agents : result[b] # "ok"
        BY <1>5 DEF UserInv, OrderOK
      <3> QED
        BY <1>1, <2>1, <3>1 DEF OrderOK
    <2> QED
      BY <1>1, <1>2, <2>1, <2>4, <2>5, <2>6 DEF UserInv
  <1> QED
    BY <1>4, <1>5

\* The winner appends the user message, the only one.
LEMMA AppendUserStep ==
  ASSUME UserInv, ToolInv, NEW a \in Agents, AppendUser(a)
  PROVE  UserInv'
  <1>1. /\ msg' = msg /\ resume' = resume /\ result' = result /\ committed' = committed
        /\ failing' = failing /\ pc[a] = "append" /\ history' = Append(history, User)
        /\ pc' = [pc EXCEPT ![a] = "request"]
    BY DEF AppendUser, optionVars, Goto
  <1>2. /\ committed /\ ~ HasUser /\ \A b \in Agents \ {a} : pc[b] # "append"
        /\ history \in Seq(Messages) /\ User.kind = "user" /\ User \in Messages
    BY <1>1, NoToolsRun, MessageTypes DEF UserInv, AppendOK, User, Message
  <1>3. pc'[a] = "request" /\ \A b \in Agents \ {a} : pc'[b] = pc[b]
    BY <1>1 DEF ToolInv, ToolTypes
  <1>4. /\ Len(history) \in Nat /\ DOMAIN history = 1 .. Len(history)
        /\ DOMAIN history' = 1 .. Len(history) + 1
        /\ history'[Len(history) + 1].kind = "user"
        /\ \A i \in DOMAIN history : history'[i] = history[i]
    BY <1>1, <1>2
  <1>5. \A i \in DOMAIN history' : history'[i].kind = "user" => i = Len(history) + 1
    BY <1>2, <1>4 DEF HasUser
  <1>6. UsersOK'
    BY <1>1, <1>5 DEF UserInv, UsersOK
  <1>7. HasUser'
    BY <1>4 DEF HasUser
  <1>8. AppendOK'
    BY <1>2, <1>3 DEF AppendOK
  <1>9. FlagOK' /\ OrderOK'
    <2>1. \A b \in Agents : result'[b] = "ok" => pc'[b] = "done"
      BY <1>1, <1>3 DEF UserInv, OrderOK
    <2> QED
      BY <1>1, <1>2, <1>7, <2>1 DEF FlagOK, OrderOK
  <1> QED
    BY <1>1, <1>6, <1>8, <1>9 DEF UserInv

\* The steps of the loop up to the yield.
LEMMA ModelUserStep ==
  ASSUME UserInv, ToolInv, NEW a \in Agents,
         Request(a) \/ Generate(a) \/ Streaming(a) \/ StreamEnds(a) \/ ToolsDone(a)
  PROVE  UserInv'
  <1>1. /\ history' = history /\ result' = result /\ committed' = committed
        /\ resume' = resume /\ Past(a) /\ pc[a] # "done"
    BY DEF Request, Generate, Streaming, StreamEnds, ToolsDone, optionVars, sessionVars, Past
  <1>2. \/ msg' = msg
        \/ \E m \in Replies(a) \cup {Partial, NoMsg} : msg' = [msg EXCEPT ![a] = m]
    BY DEF Request, Generate, Streaming, StreamEnds, ToolsDone
  <1>3. \A b \in Agents \ {a} : b \in failing' <=> b \in failing
    BY ErrorPlace DEF Request, Generate, Streaming, StreamEnds, ToolsDone
  <1>4. PICK q \in Places \ {"append", "done"} : pc' = [pc EXCEPT ![a] = q]
    <2>1. CASE HandlerError(a)
      BY <2>1, ErrorPlace DEF Places
    <2>2. CASE ~ HandlerError(a)
      BY <2>2 DEF Request, Generate, Streaming, StreamEnds, ToolsDone, StartTools, Goto, Places
    <2> QED
      BY <2>1, <2>2
  <1> QED
    BY <1>1, <1>2, <1>3, <1>4, LoopUserStep

\* A tool keeps the kind of the message it is answered in.
LEMMA ToolUserStep ==
  ASSUME UserInv, ToolInv, NEW a \in Agents, NEW c \in Calls,
         ToolHandles(a, c) \/ ToolAborts(a, c) \/ ToolStores(a, c)
  PROVE  UserInv'
  <1>1. /\ history' = history /\ result' = result /\ committed' = committed
        /\ resume' = resume /\ pc' = pc /\ failing' = failing
    BY DEF ToolHandles, ToolAborts, ToolStores, optionVars, sessionVars
  <1>2. \A b \in Agents : msg'[b].kind # "user"
    <2>1. \A b \in Agents : msg[b].kind # "user"
      BY DEF UserInv, UsersOK
    <2>2. CASE msg' = msg
      BY <2>1, <2>2
    <2>3. CASE ToolStores(a, c)
      <3>1. msg'[a].kind = msg[a].kind
        BY <2>3 DEF ToolStores, Message, ToolInv, ToolTypes
      <3>2. \A b \in Agents \ {a} : msg'[b] = msg[b]
        BY <2>3 DEF ToolStores, ToolInv, ToolTypes
      <3> QED
        BY <2>1, <3>1, <3>2
    <2> QED
      BY <2>2, <2>3 DEF ToolHandles, ToolAborts
  <1>3. (HasUser' <=> HasUser) /\ UsersOK'
    BY <1>1, <1>2, SameUser
  <1>4. AppendOK' /\ FlagOK' /\ OrderOK'
    BY <1>1, <1>3 DEF UserInv, AppendOK, FlagOK, OrderOK, Past
  <1> QED
    BY <1>1, <1>3, <1>4 DEF UserInv

\* The agent ends, or goes on, after its message was stored.
LEMMA PersistUserStep ==
  ASSUME UserInv, ToolInv, NEW a \in Agents, Persist(a)
  PROVE  UserInv'
  <1>1. /\ history' = Append(history, msg[a]) /\ committed' = committed
        /\ resume' = resume /\ failing' = failing /\ pc[a] = "persist"
        /\ msg' = [msg EXCEPT ![a] = NoMsg]
    BY DEF Persist, End, optionVars
  <1>2. msg[a] \in Messages /\ msg[a].kind # "user" /\ Past(a)
    BY <1>1, NoToolsRun DEF UserInv, UsersOK, Past
  <1>3. (HasUser' <=> HasUser) /\ UsersOK'
    BY <1>1, <1>2, KindStep, SameUser
  <1>4. /\ committed \/ resume
        /\ result[a] \in {"none", "ok", "error", "stopped"} /\ result[a] # "ok"
        /\ result = [result EXCEPT ![a] = result[a]]
    BY <1>1, <1>2 DEF UserInv, OrderOK
  <1>5. PICK q \in {"request", "done"}, r \in {"none", "ok", "error", "stopped"} :
          /\ pc' = [pc EXCEPT ![a] = q] /\ result' = [result EXCEPT ![a] = r]
          /\ r = "ok" => q = "done"
    BY <1>4 DEF Persist, End, Goto
  <1>6. q \in Places
    BY DEF Places
  <1> QED
    BY <1>1, <1>3, <1>4, <1>5, <1>6, UserFrame

\* yield returns: the agent ends, or goes on.
LEMMA AnswerUserStep ==
  ASSUME UserInv, ToolInv, NEW a \in Agents, NEW more \in BOOLEAN, Answer(a, more)
  PROVE  UserInv'
  <1>1. /\ history' = history /\ committed' = committed
        /\ resume' = resume /\ failing' = failing \ {a} /\ pc[a] = "yield"
        /\ msg' = msg \/ msg' = [msg EXCEPT ![a] = NoMsg]
    BY DEF Answer, End, optionVars, sessionVars
  <1>2. (HasUser' <=> HasUser) /\ UsersOK'
    BY <1>1, KindStep, SameUser
  <1>3. CASE a \in failing \/ ~ more
    <2>1. PICK r \in {"error", "stopped"} :
            pc' = [pc EXCEPT ![a] = "done"] /\ result' = [result EXCEPT ![a] = r]
      BY <1>3 DEF Answer, End, Goto
    <2>2. "done" \in Places /\ ~ Past(a)'
      BY <2>1 DEF Places, Past, ToolInv, ToolTypes
    <2> QED
      BY <1>1, <1>2, <2>1, <2>2, UserFrame
  <1>4. CASE a \notin failing /\ more
    <2>1. pc' = [pc EXCEPT ![a] = After(a)] /\ result' = result /\ Past(a)
      BY <1>1, <1>4 DEF Answer, Goto, Past
    <2>2. After(a) \in Places \ {"append", "done"}
      BY DEF After, Places
    <2>3. /\ committed \/ resume
          /\ result[a] \in {"none", "ok", "error", "stopped"} /\ result[a] # "ok"
          /\ result' = [result EXCEPT ![a] = result[a]]
      BY <1>1, <2>1 DEF UserInv, OrderOK
    <2> QED
      BY <1>1, <1>2, <2>1, <2>2, <2>3, UserFrame
  <1> QED
    BY <1>3, <1>4

\* Every step of an agent keeps the invariant of the user message.
LEMMA AgentUserStep ==
  ASSUME UserInv, ToolInv, NEW a \in Agents, Agent(a)
  PROVE  UserInv'
  BY EarlyUserStep, CommitUserStep, AppendUserStep, ModelUserStep, ToolUserStep,
     PersistUserStep DEF Agent

\* So does a step of the flow that leaves the agents alone.
LEMMA FlowUserStep ==
  ASSUME UserInv, ToolInv, UNCHANGED agentVars
  PROVE  UserInv'
  <1>1. /\ pc' = pc /\ msg' = msg /\ history' = history /\ failing' = failing
        /\ committed' = committed /\ resume' = resume /\ result' = result
    BY DEF agentVars, sessionVars, optionVars
  <1>2. UsersOK' /\ (HasUser' <=> HasUser)
    BY <1>1 DEF UserInv, UsersOK, HasUser
  <1>3. AppendOK' /\ FlagOK' /\ OrderOK'
    BY <1>1, <1>2 DEF UserInv, AppendOK, FlagOK, OrderOK, Past
  <1> QED
    BY <1>1, <1>2, <1>3 DEF UserInv

\* The invariant implies the property: an agent that ended well is at "done",
\* so the flag is set and nobody is about to append.
LEMMA UserOnceFollows == UserInv => UserOnce
  <1> SUFFICES ASSUME UserInv PROVE UserOnce
    OBVIOUS
  <1> DEFINE users == {i \in DOMAIN history : history[i].kind = "user"}
  <1>1. \A i, j \in users : i = j
    BY DEF UserInv, UsersOK
  <1>2. ASSUME \A a \in Agents : result[a] = "ok" PROVE users # {}
    <2>1. PICK a \in Agents : TRUE
      BY AgentAssumption
    <2>2. committed \/ resume
      BY <1>2, <2>1 DEF UserInv, OrderOK
    <2>3. \A b \in Agents : pc[b] = "done"
      BY <1>2 DEF UserInv, OrderOK
    <2>4. HasUser
      BY <2>2, <2>3 DEF UserInv, FlagOK
    <2> QED
      BY <2>4 DEF HasUser
  <1> QED
    BY <1>1, <1>2 DEF UserOnce

-----------------------------------------------------------------------------
\* Who wrote the message of an agent, and what kind it has at each place.
Authored(b) ==
  /\ msg[b].kind \in {"none", "partial", "tool", "assistant"}
  /\ msg[b].kind \in {"tool", "assistant"} => msg[b].by = b
  /\ msg[b].kind = "partial" => msg[b] = Partial
  /\ msg[b].kind # "tool" => msg[b].exit = "no"
  /\ pc[b] = "persist" => msg[b].kind \in {"tool", "assistant"}
  /\ pc[b] = "tools" => msg[b].kind = "tool"
  /\ pc[b] = "model" => msg[b].kind = "none"
  /\ msg[b].kind = "assistant" => pc[b] \in {"yield", "stream", "persist"}
  /\ pc[b] = "yield" /\ b \notin failing =>
       msg[b].kind # "none" /\ (~ stream => msg[b].kind # "partial")

AuthorInv == \A b \in Agents : Authored(b)

\* The facts hold at the start.
LEMMA AuthorInit == AgentInit => AuthorInv
  BY DEF AgentInit, AuthorInv, Authored, NoMsg, Message

\* A step of agent a that keeps the other agents, and the facts about its own.
LEMMA AuthorFrame ==
  ASSUME AuthorInv, ToolInv, NEW a \in Agents, NEW q, NEW M,
         pc' = [pc EXCEPT ![a] = q], msg' = [msg EXCEPT ![a] = M], stream' = stream,
         \A b \in Agents \ {a} : b \in failing' <=> b \in failing,
         Authored(a)'
  PROVE  AuthorInv'
  <1>1. ASSUME NEW b \in Agents \ {a} PROVE Authored(b)'
    <2>1. pc'[b] = pc[b] /\ msg'[b] = msg[b] /\ (b \in failing' <=> b \in failing)
      BY <1>1 DEF ToolInv, ToolTypes
    <2>2. Authored(b)
      BY <1>1 DEF AuthorInv
    <2> QED
      BY <2>1, <2>2 DEF Authored
  <1> QED
    BY <1>1 DEF AuthorInv

\* What the model answers has its author and no action yet.
LEMMA ReplyFacts ==
  ASSUME NEW a \in Agents
  PROVE  /\ \A m \in Replies(a) : m.kind \in {"tool", "assistant"} /\ m.by = a /\ m.exit = "no"
         /\ NoMsg.kind = "none" /\ NoMsg.exit = "no"
         /\ Partial.kind = "partial" /\ Partial.exit = "no"
  BY DEF Replies, NoMsg, Partial, Message

\* A step that leaves the message of the agent alone, or resets it, and does not
\* bring it to a place where the message must have a certain kind.
LEMMA AuthorPlain ==
  ASSUME AuthorInv, ToolInv, NEW a \in Agents, NEW q, NEW M \in {msg[a], NoMsg, Partial},
         pc' = [pc EXCEPT ![a] = q], msg' = [msg EXCEPT ![a] = M], stream' = stream,
         \A b \in Agents \ {a} : b \in failing' <=> b \in failing,
         q \notin {"persist", "tools"}, q = "yield" => a \in failing' \/ (M = Partial /\ stream),
         M.kind # "assistant", q = "model" => M = NoMsg
  PROVE  AuthorInv'
  <1>1. pc'[a] = q /\ msg'[a] = M
    BY DEF ToolInv, ToolTypes
  <1>2. Authored(a) /\ NoMsg.kind = "none" /\ NoMsg.exit = "no"
        /\ Partial.kind = "partial" /\ Partial.exit = "no"
    BY ReplyFacts DEF AuthorInv
  <1>3. Authored(a)'
    BY <1>1, <1>2 DEF Authored
  <1> QED
    BY <1>3, AuthorFrame

\* Every step of an agent keeps the facts.
LEMMA AuthorStep ==
  ASSUME AuthorInv, ToolInv, NEW a \in Agents, Agent(a) \/ Start(a)
  PROVE  AuthorInv'
  <1>0. /\ msg = [msg EXCEPT ![a] = msg[a]] /\ pc = [pc EXCEPT ![a] = pc[a]]
        /\ pc[a] \in Places /\ Authored(a)
        /\ NoMsg.kind # "assistant" /\ Partial.kind # "assistant"
        /\ pc[a] \notin {"yield", "stream", "persist"} => msg[a].kind # "assistant"
    BY ReplyFacts DEF ToolInv, ToolTypes, AuthorInv, Authored
  <1>1. CASE Start(a) \/ Prepare(a)
    <2>1. \E q \in {"prepare", "commit", "yield"} :
            pc' = [pc EXCEPT ![a] = q] /\ (q = "yield" => a \in failing')
      BY <1>1 DEF Start, Prepare, Goto
    <2>2. /\ msg' = msg /\ stream' = stream
          /\ \A b \in Agents \ {a} : b \in failing' <=> b \in failing
          /\ msg[a].kind # "assistant"
      BY <1>0, <1>1 DEF Start, Prepare, optionVars
    <2> QED
      BY <1>0, <2>1, <2>2, AuthorPlain
  <1>2. CASE Commit(a) \/ AppendUser(a)
    <2>1. \E q \in {"append", "request"} : pc' = [pc EXCEPT ![a] = q]
      BY <1>2 DEF Commit, AppendUser, Goto
    <2>2. msg' = msg /\ stream' = stream /\ failing' = failing /\ msg[a].kind # "assistant"
      BY <1>0, <1>2 DEF Commit, AppendUser, optionVars
    <2> QED
      BY <1>0, <2>1, <2>2, AuthorPlain
  <1>3. CASE Request(a)
    <2>1. msg' = [msg EXCEPT ![a] = NoMsg] /\ stream' = stream
      BY <1>3 DEF Request, optionVars
    <2>2. /\ \E q \in {"model", "request", "yield"} :
               pc' = [pc EXCEPT ![a] = q] /\ (q = "yield" => a \in failing')
          /\ \A b \in Agents \ {a} : b \in failing' <=> b \in failing
      BY <1>3, ErrorPlace DEF Request, Goto
    <2> QED
      BY <1>0, <2>1, <2>2, AuthorPlain
  <1>4. CASE (Generate(a) \/ Streaming(a)) /\ HandlerError(a) /\ msg' = msg
    <2>1. stream' = stream /\ msg[a].kind # "assistant"
      BY <1>0, <1>4 DEF Generate, Streaming, optionVars
    <2> QED
      BY <1>0, <1>4, <2>1, ErrorPlace, AuthorPlain
  <1>5. ASSUME NEW m \in Replies(a), NEW q \in {"yield", "tools", "stream"},
               msg' = [msg EXCEPT ![a] = m], pc' = [pc EXCEPT ![a] = q],
               stream' = stream, failing' = failing, q = "tools" => m.kind = "tool"
        PROVE  AuthorInv'
    <2>1. pc'[a] = q /\ msg'[a] = m
      BY <1>5 DEF ToolInv, ToolTypes
    <2>2. Authored(a)'
      BY <1>5, <2>1, ReplyFacts DEF Authored
    <2> QED
      BY <1>5, <2>2, AuthorFrame
  <1>6. CASE Streaming(a) /\ msg' = [msg EXCEPT ![a] = Partial] /\ Goto(a, "yield")
    <2>1. /\ stream' = stream /\ stream /\ pc' = [pc EXCEPT ![a] = "yield"]
          /\ \A b \in Agents \ {a} : b \in failing' <=> b \in failing
      BY <1>6, ErrorPlace DEF Streaming, optionVars, Goto
    <2> QED
      BY <1>0, <1>6, <2>1, AuthorPlain
  <1>7. CASE Generate(a) \/ Streaming(a)
    <2>1. \/ HandlerError(a) /\ msg' = msg
          \/ Streaming(a) /\ msg' = [msg EXCEPT ![a] = Partial] /\ Goto(a, "yield")
          \/ \E m \in Replies(a), q \in {"yield", "tools", "stream"} :
               /\ msg' = [msg EXCEPT ![a] = m] /\ pc' = [pc EXCEPT ![a] = q]
               /\ failing' = failing /\ (q = "tools" => m.kind = "tool")
      BY <1>7 DEF Generate, Streaming, StartTools, Goto
    <2>2. stream' = stream
      BY <1>7 DEF Generate, Streaming, optionVars
    <2> QED
      BY <1>4, <1>5, <1>6, <1>7, <2>1, <2>2
  <1>8. CASE StreamEnds(a)
    <2>1. /\ msg' = msg /\ stream' = stream /\ failing' = failing
          /\ \/ pc' = [pc EXCEPT ![a] = "tools"] /\ msg[a].kind = "tool"
             \/ pc' = [pc EXCEPT ![a] = "persist"] /\ msg[a].kind = "assistant"
      BY <1>8 DEF StreamEnds, StartTools, Goto, optionVars
    <2>2. Authored(a)'
      BY <1>0, <2>1 DEF Authored, ToolInv, ToolTypes
    <2> QED
      BY <1>0, <2>1, <2>2, AuthorFrame
  <1>9. ASSUME NEW c \in Calls, ToolHandles(a, c) \/ ToolAborts(a, c) \/ ToolStores(a, c)
        PROVE  AuthorInv'
    <2>1. /\ call[a][c] # "idle" /\ pc' = pc /\ failing' = failing /\ stream' = stream
          /\ msg' = msg \/ \E x : msg' = [msg EXCEPT ![a] = Message(msg[a].kind, msg[a].by, msg[a].open \ {c}, x)]
      BY <1>9 DEF ToolHandles, ToolAborts, ToolStores, optionVars
    <2>2. pc[a] = "tools" /\ msg[a].kind = "tool"
      BY <1>0, <2>1 DEF ToolInv, CallsOK, NoCalls, Authored
    <2>3. CASE msg' = msg
      BY <1>0, <2>1, <2>3 DEF AuthorInv, Authored
    <2>4. CASE msg' # msg
      <3>1. PICK x : msg' = [msg EXCEPT ![a] = Message(msg[a].kind, msg[a].by, msg[a].open \ {c}, x)]
        BY <2>1, <2>4
      <3>2. msg'[a].kind = "tool" /\ msg'[a].by = msg[a].by
        BY <2>2, <3>1 DEF ToolInv, ToolTypes, Message
      <3>3. Authored(a)'
        BY <1>0, <2>1, <2>2, <3>2 DEF Authored
      <3> QED
        BY <1>0, <2>1, <3>1, <3>3, AuthorFrame
    <2> QED
      BY <2>3, <2>4
  <1>10. CASE ToolsDone(a)
    <2>1. msg' = msg /\ stream' = stream /\ pc[a] = "tools" /\ msg[a].kind = "tool"
      BY <1>0, <1>10 DEF ToolsDone, optionVars, Authored
    <2>2. CASE HandlerError(a)
      BY <1>0, <2>1, <2>2, ErrorPlace, AuthorPlain
    <2>3. CASE Goto(a, "yield") /\ failing' = failing
      <3>1. pc' = [pc EXCEPT ![a] = "yield"]
        BY <2>3 DEF Goto
      <3>2. Authored(a)'
        BY <1>0, <2>1, <2>3, <3>1 DEF Authored, ToolInv, ToolTypes
      <3> QED
        BY <1>0, <2>1, <2>3, <3>1, <3>2, AuthorFrame
    <2> QED
      BY <1>10, <2>2, <2>3 DEF ToolsDone
  <1>11. CASE Persist(a)
    <2>1. /\ msg' = [msg EXCEPT ![a] = NoMsg] /\ stream' = stream /\ failing' = failing
          /\ \E q \in {"request", "done"} : pc' = [pc EXCEPT ![a] = q]
      BY <1>11 DEF Persist, End, Goto, optionVars
    <2> QED
      BY <1>0, <2>1, AuthorPlain
  <1> QED
    BY <1>1, <1>2, <1>3, <1>7, <1>8, <1>9, <1>10, <1>11 DEF Agent

\* So does the answer of whoever ranges over the agent.
LEMMA AuthorAnswer ==
  ASSUME AuthorInv, ToolInv, NEW a \in Agents, NEW more \in BOOLEAN, Answer(a, more)
  PROVE  AuthorInv'
  <1>0. /\ msg = [msg EXCEPT ![a] = msg[a]] /\ Authored(a)
        /\ pc[a] = "yield" /\ stream' = stream /\ failing' = failing \ {a}
    BY DEF ToolInv, ToolTypes, AuthorInv, Answer, optionVars
  <1>1. CASE a \in failing \/ ~ more
    <2>1. msg' = [msg EXCEPT ![a] = NoMsg] /\ pc' = [pc EXCEPT ![a] = "done"]
      BY <1>1 DEF Answer, End, Goto
    <2>2. /\ stream' = stream /\ NoMsg.kind # "assistant"
          /\ \A b \in Agents \ {a} : b \in failing' <=> b \in failing
      BY <1>0, ReplyFacts
    <2> QED
      BY <2>1, <2>2, AuthorPlain
  <1>2. CASE ~ (a \in failing \/ ~ more)
    <2>1. msg' = msg /\ pc' = [pc EXCEPT ![a] = After(a)]
      BY <1>2 DEF Answer, Goto
    <2>2. Authored(a)'
      BY <1>0, <1>2, <2>1 DEF Authored, After, ToolInv, ToolTypes
    <2> QED
      BY <1>0, <2>1, <2>2, AuthorFrame
  <1> QED
    BY <1>1, <1>2

\* And a step of the flow that leaves the agents alone.
LEMMA AuthorFlow ==
  ASSUME AuthorInv, UNCHANGED agentVars
  PROVE  AuthorInv'
  BY DEF AuthorInv, Authored, agentVars, optionVars

(***************************************************************************)
(* A step of an agent touches no other agent; it leaves the session alone, *)
(* or appends the user message, or appends the agent's own message.        *)
(***************************************************************************)
LEMMA AgentEffect ==
  ASSUME ToolInv, AuthorInv, NEW a \in Agents, Agent(a)
  PROVE  /\ \A b \in Agents \ {a} : pc'[b] = pc[b] /\ msg'[b] = msg[b]
         /\ resume' = resume /\ stream' = stream
         /\ pc[a] \notin {"off", "done"}
         /\ \/ /\ history' = history /\ pc[a] # "persist" /\ pc'[a] # "done"
               /\ pc'[a] = "persist" => msg'[a].exit = "no"
               /\ pc'[a] = "append" => ~ committed /\ ~ resume
               /\ committed' = committed \/ (committed' = TRUE)
            \/ /\ pc[a] = "append" /\ pc'[a] = "request"
               /\ history' = Append(history, User) /\ committed' = committed
            \/ /\ pc[a] = "persist" /\ history' = Append(history, msg[a]) /\ committed' = committed
               /\ pc'[a] \in {"request", "done"} /\ (msg[a].exit # "no" => pc'[a] = "done")
  <1>0. /\ pc \in [Agents -> Places] /\ msg \in [Agents -> Messages] /\ Authored(a)
    BY DEF ToolInv, ToolTypes, AuthorInv
  <1>1. CASE Prepare(a) \/ Commit(a)
    BY <1>0, <1>1 DEF Prepare, Commit, Goto, sessionVars, optionVars
  <1>2. CASE AppendUser(a)
    BY <1>0, <1>2 DEF AppendUser, Goto, optionVars
  <1>3. CASE Request(a)
    <2>1. \E q \in {"model", "request", "yield"} : pc' = [pc EXCEPT ![a] = q]
      BY <1>3, ErrorPlace DEF Request, Goto
    <2> QED
      BY <1>0, <1>3, <2>1 DEF Request, sessionVars, optionVars
  <1>4. CASE Generate(a) \/ Streaming(a)
    <2>1. /\ \E q \in {"tools", "stream", "request", "yield"} : pc' = [pc EXCEPT ![a] = q]
          /\ msg' = msg \/ \E m : msg' = [msg EXCEPT ![a] = m]
      BY <1>4, ErrorPlace DEF Generate, Streaming, StartTools, Goto
    <2>2. /\ history' = history /\ committed' = committed /\ resume' = resume
          /\ stream' = stream /\ pc[a] \in {"model", "stream"}
      BY <1>4 DEF Generate, Streaming, optionVars
    <2> QED
      BY <1>0, <2>1, <2>2
  <1>5. CASE StreamEnds(a)
    <2>1. /\ msg' = msg /\ history' = history /\ committed' = committed /\ resume' = resume
          /\ stream' = stream /\ pc[a] = "stream"
          /\ \/ pc' = [pc EXCEPT ![a] = "tools"]
             \/ pc' = [pc EXCEPT ![a] = "persist"] /\ msg[a].kind = "assistant"
      BY <1>5 DEF StreamEnds, StartTools, Goto, optionVars, sessionVars
    <2>2. msg[a].kind = "assistant" => msg[a].exit = "no"
      BY <1>0 DEF Authored
    <2> QED
      BY <1>0, <2>1, <2>2
  <1>6. ASSUME NEW c \in Calls, ToolHandles(a, c) \/ ToolAborts(a, c) \/ ToolStores(a, c)
        PROVE  /\ \A b \in Agents \ {a} : pc'[b] = pc[b] /\ msg'[b] = msg[b]
               /\ resume' = resume /\ stream' = stream /\ history' = history
               /\ pc[a] = "tools" /\ pc' = pc /\ committed' = committed
    <2>1. call[a][c] # "idle" /\ pc' = pc
      BY <1>6 DEF ToolHandles, ToolAborts, ToolStores
    <2>2. pc[a] = "tools"
      BY <2>1 DEF ToolInv, CallsOK, NoCalls
    <2> QED
      BY <1>0, <1>6, <2>1, <2>2 DEF ToolHandles, ToolAborts, ToolStores, optionVars, sessionVars
  <1>7. CASE ToolsDone(a)
    <2>1. \E q \in {"request", "yield"} : pc' = [pc EXCEPT ![a] = q]
      BY <1>7, ErrorPlace DEF ToolsDone, Goto
    <2> QED
      BY <1>0, <1>7, <2>1 DEF ToolsDone, optionVars, sessionVars
  <1>8. CASE Persist(a)
    <2>1. /\ \E q \in {"request", "done"} : pc' = [pc EXCEPT ![a] = q] /\ (msg[a].exit # "no" => q = "done")
          /\ msg' = [msg EXCEPT ![a] = NoMsg]
          /\ history' = Append(history, msg[a]) /\ pc[a] = "persist"
          /\ resume' = resume /\ stream' = stream /\ committed' = committed
      BY <1>8 DEF Persist, End, Goto, optionVars
    <2> QED
      BY <1>0, <2>1
  <1> QED
    BY <1>1, <1>2, <1>3, <1>4, <1>5, <1>6, <1>7, <1>8 DEF Agent

-----------------------------------------------------------------------------
\* Counting: a longer prefix counts one place more.
LEMMA CountStep ==
  ASSUME NEW A, NEW s, NEW n \in Nat
  PROVE  /\ Count(A, s, n) \in Nat /\ Count(A, s, 0) = 0
         /\ s[n + 1].by \in A => Count(A, s, n + 1) = Count(A, s, n) + 1
         /\ s[n + 1].by \notin A => Count(A, s, n + 1) = Count(A, s, n)
  <1> DEFINE P(k) == {i \in 1 .. k : s[i].by \in A}
  <1>1. IsFiniteSet(1 .. n) /\ IsFiniteSet({})
    BY FS_Interval, FS_EmptySet
  <1>2. IsFiniteSet(P(n)) /\ Cardinality(P(n)) \in Nat
    BY <1>1, FS_Subset, FS_CardinalityType
  <1>3. P(0) = {} /\ Cardinality({}) = 0
    BY FS_EmptySet
  <1>4. CASE s[n + 1].by \in A
    <2>1. P(n + 1) = P(n) \cup {n + 1} /\ n + 1 \notin P(n)
      BY <1>4
    <2> HIDE DEF P
    <2>2. Cardinality(P(n + 1)) = Cardinality(P(n)) + 1
      BY <1>2, <2>1, FS_AddElement
    <2>3. /\ Count(A, s, n + 1) = Cardinality(P(n + 1)) /\ Count(A, s, n) = Cardinality(P(n))
          /\ Count(A, s, 0) = Cardinality(P(0))
      BY DEF Count, P
    <2> QED
      BY <1>2, <1>3, <1>4, <2>2, <2>3
  <1>5. CASE s[n + 1].by \notin A
    <2>1. P(n + 1) = P(n)
      BY <1>5
    <2>2. /\ Count(A, s, n + 1) = Cardinality(P(n + 1)) /\ Count(A, s, n) = Cardinality(P(n))
          /\ Count(A, s, 0) = Cardinality(P(0))
      BY DEF Count
    <2> HIDE DEF P
    <2> QED
      BY <1>2, <1>3, <1>5, <2>1, <2>2
  <1> QED
    BY <1>4, <1>5

\* A prefix counts no more than a longer one.
LEMMA CountMono ==
  ASSUME NEW A, NEW s, NEW m \in Nat, NEW n \in Nat, m <= n
  PROVE  Count(A, s, m) <= Count(A, s, n)
  <1> DEFINE P(k) == {i \in 1 .. k : s[i].by \in A}
  <1>0. IsFiniteSet(1 .. n)
    BY FS_Interval
  <1>1. IsFiniteSet(P(n))
    BY <1>0, FS_Subset
  <1>2. P(m) \subseteq P(n)
    OBVIOUS
  <1> HIDE DEF P
  <1>3. Cardinality(P(m)) <= Cardinality(P(n))
    BY <1>1, <1>2, FS_Subset
  <1> QED
    BY <1>3 DEF Count, P

\* Sequences that begin alike count alike.
LEMMA CountSame ==
  ASSUME NEW A, NEW s, NEW t, NEW n \in Nat, \A i \in 1 .. n : s[i] = t[i]
  PROVE  Count(A, s, n) = Count(A, t, n)
  <1>1. {i \in 1 .. n : s[i].by \in A} = {i \in 1 .. n : t[i].by \in A}
    OBVIOUS
  <1> QED
    BY <1>1 DEF Count

\* What stands before a message that is added at the end.
LEMMA CountAppend ==
  ASSUME NEW A, NEW S, NEW s \in Seq(S), NEW m \in S, NEW i \in 1 .. Len(s)
  PROVE  /\ Count(A, Append(s, m), i) = Count(A, s, i)
         /\ Count(A, s, i) \in Nat /\ Count(A, s, i) <= Number(A, s)
  <1>1. i \in Nat /\ Len(s) \in Nat /\ i <= Len(s) /\ \A j \in 1 .. i : Append(s, m)[j] = s[j]
    OBVIOUS
  <1>2. Count(A, Append(s, m), i) = Count(A, s, i)
    BY <1>1, CountSame
  <1>3. Count(A, s, i) \in Nat /\ Count(A, s, i) <= Count(A, s, Len(s))
    BY <1>1, CountStep, CountMono
  <1> QED
    BY <1>2, <1>3 DEF Number

\* What a message adds at the end of a sequence.
LEMMA NumberAppend ==
  ASSUME NEW A, NEW S, NEW s \in Seq(S), NEW m \in S
  PROVE  /\ Number(A, s) \in Nat
         /\ Number(A, Append(s, m)) = IF m.by \in A THEN Number(A, s) + 1 ELSE Number(A, s)
         /\ Count(A, Append(s, m), Len(s) + 1) = Number(A, Append(s, m))
  <1>a. PICK t : t = Append(s, m)
    OBVIOUS
  <1>b. PICK n : n = Len(s)
    OBVIOUS
  <1>1. n \in Nat /\ Len(t) = n + 1 /\ t[n + 1] = m /\ \A i \in 1 .. n : t[i] = s[i]
    BY <1>a, <1>b
  <1>2. Count(A, t, n) = Count(A, s, n) /\ Count(A, s, n) \in Nat
    BY <1>1, CountSame, CountStep
  <1>3. /\ t[n + 1].by \in A => Count(A, t, n + 1) = Count(A, t, n) + 1
        /\ t[n + 1].by \notin A => Count(A, t, n + 1) = Count(A, t, n)
    BY <1>1, CountStep
  <1>4. Number(A, t) = Count(A, t, n + 1) /\ Number(A, s) = Count(A, s, n)
    BY <1>1, <1>b DEF Number
  <1> QED
    BY <1>a, <1>b, <1>1, <1>2, <1>3, <1>4

\* Taking the head off a sequence.
LEMMA CountTail ==
  ASSUME NEW A, NEW S, NEW s \in Seq(S), s # <<>>, NEW n \in 0 .. Len(s) - 1
  PROVE  Count(A, s, n + 1) = IF Head(s).by \in A THEN Count(A, Tail(s), n) + 1 ELSE Count(A, Tail(s), n)
  <1> DEFINE t == Tail(s)
             P == {i \in 1 .. n : t[i].by \in A}
             Q == {i \in 2 .. n + 1 : s[i].by \in A}
             f == [i \in P |-> i + 1]
  <1>1. /\ n \in Nat /\ Len(s) \in Nat /\ s[1] = Head(s)
        /\ \A i \in 1 .. n : t[i] = s[i + 1]
    OBVIOUS
  <1>2. IsFiniteSet(P) /\ IsFiniteSet(Q)
    <2>1. IsFiniteSet(1 .. n) /\ IsFiniteSet(2 .. n + 1)
      BY <1>1, FS_Interval
    <2>2. P \subseteq 1 .. n /\ Q \subseteq 2 .. n + 1
      OBVIOUS
    <2> HIDE DEF P, Q
    <2> QED
      BY <2>1, <2>2, FS_Subset
  <1>3. f \in Bijection(P, Q)
    <2> HIDE DEF t
    <2>1. f \in [P -> Q]
      BY <1>1
    <2>2. \A i, j \in P : f[i] = f[j] => i = j
      BY <1>1
    <2>3. \A j \in Q : \E i \in P : f[i] = j
      <3> TAKE j \in Q
      <3>1. j - 1 \in P /\ f[j - 1] = j
        BY <1>1
      <3> QED
        BY <3>1
    <2> HIDE DEF f, P, Q
    <2> QED
      BY <2>1, <2>2, <2>3 DEF Bijection, Injection, Surjection, IsInjective
  <1>4. Cardinality(Q) = Cardinality(P) /\ Cardinality(P) \in Nat
    BY <1>2, <1>3, FS_Bijection, FS_CardinalityType DEF ExistsBijection
  <1>5. Count(A, t, n) = Cardinality(P)
    BY DEF Count
  <1>6. {i \in 1 .. n + 1 : s[i].by \in A} = IF Head(s).by \in A THEN Q \cup {1} ELSE Q
    BY <1>1
  <1>7. Count(A, s, n + 1) = IF Head(s).by \in A THEN Cardinality(Q) + 1 ELSE Cardinality(Q)
    <2>1. 1 \notin Q
      OBVIOUS
    <2> HIDE DEF Q, P, f, t
    <2>2. Cardinality(Q \cup {1}) = Cardinality(Q) + 1
      BY <1>2, <2>1, FS_AddElement
    <2>3. Count(A, s, n + 1) = Cardinality(IF Head(s).by \in A THEN Q \cup {1} ELSE Q)
      BY <1>6 DEF Count
    <2>4. Cardinality(Q) \in Nat
      BY <1>4
    <2>5. CASE Head(s).by \in A
      BY <2>2, <2>3, <2>5
    <2>6. CASE Head(s).by \notin A
      BY <2>3, <2>4, <2>6
    <2> QED
      BY <2>5, <2>6
  <1> QED
    BY <1>4, <1>5, <1>7

-----------------------------------------------------------------------------
\* Agree with k messages of the authors A before those of s.
AgreeFrom(A, k, s, t) ==
  \A i \in DOMAIN s, j \in DOMAIN t :
    s[i].by \in A /\ t[j].by \in A /\ k + Count(A, s, i) = Count(A, t, j) => s[i] = t[j]

\* Without such messages it is Agree, in both directions.
LEMMA AgreeBoth ==
  ASSUME NEW A, NEW S, NEW s \in Seq(S), NEW t \in Seq(S)
  PROVE  (Agree(A, s, t) <=> AgreeFrom(A, 0, s, t)) /\ (Agree(A, t, s) <=> Agree(A, s, t))
  <1>1. DOMAIN s \subseteq Nat /\ DOMAIN t \subseteq Nat
    OBVIOUS
  <1>2. \A i \in DOMAIN s : Count(A, s, i) \in Nat /\ 0 + Count(A, s, i) = Count(A, s, i)
    BY <1>1, CountStep
  <1> QED
    BY <1>2 DEF Agree, AgreeFrom

\* A message is added to s, which is not behind t.
LEMMA AgreeTake ==
  ASSUME NEW A, NEW k \in Nat, NEW S, NEW s \in Seq(S), NEW t \in Seq(S), NEW m \in S,
         AgreeFrom(A, k, s, t), m.by \in A => Number(A, t) <= k + Number(A, s)
  PROVE  AgreeFrom(A, k, Append(s, m), t)
  <1> SUFFICES ASSUME NEW i \in DOMAIN Append(s, m), NEW j \in DOMAIN t,
                      Append(s, m)[i].by \in A, t[j].by \in A,
                      k + Count(A, Append(s, m), i) = Count(A, t, j)
               PROVE  Append(s, m)[i] = t[j]
    BY DEF AgreeFrom
  <1>1. /\ i \in 1 .. Len(s) + 1 /\ j \in 1 .. Len(t) /\ Len(s) \in Nat /\ Len(t) \in Nat
        /\ Append(s, m)[i] = IF i <= Len(s) THEN s[i] ELSE m
    OBVIOUS
  <1>2. CASE i <= Len(s)
    <2>1. Append(s, m)[i] = s[i] /\ i \in DOMAIN s
      BY <1>1, <1>2
    <2>2. i \in 1 .. Len(s)
      BY <1>1, <1>2
    <2>3. Count(A, Append(s, m), i) = Count(A, s, i)
      BY <2>2, CountAppend
    <2> QED
      BY <2>1, <2>3 DEF AgreeFrom
  <1>3. CASE i = Len(s) + 1
    <2>1. m.by \in A
      BY <1>1, <1>3
    <2>2. Count(A, Append(s, m), i) = Number(A, s) + 1 /\ Number(A, s) \in Nat
      BY <1>3, <2>1, NumberAppend
    <2>3. Count(A, t, j) <= Number(A, t) /\ Count(A, t, j) \in Nat /\ Number(A, t) \in Nat
      BY <1>1, CountMono, CountStep DEF Number
    <2> QED
      BY <2>1, <2>2, <2>3
  <1> QED
    BY <1>1, <1>2, <1>3

\* A message is added to t that is the next one of s, if s has more.
LEMMA AgreeSave ==
  ASSUME NEW A, NEW k \in Nat, NEW S, NEW s \in Seq(S), NEW t \in Seq(S), NEW m \in S,
         AgreeFrom(A, k, s, t),
         m.by \in A => \A i \in DOMAIN s :
           s[i].by \in A /\ k + Count(A, s, i) = Number(A, t) + 1 => s[i] = m
  PROVE  AgreeFrom(A, k, s, Append(t, m))
  <1> SUFFICES ASSUME NEW i \in DOMAIN s, NEW j \in DOMAIN Append(t, m),
                      s[i].by \in A, Append(t, m)[j].by \in A,
                      k + Count(A, s, i) = Count(A, Append(t, m), j)
               PROVE  s[i] = Append(t, m)[j]
    BY DEF AgreeFrom
  <1>1. /\ j \in 1 .. Len(t) + 1 /\ Len(t) \in Nat
        /\ Append(t, m)[j] = IF j <= Len(t) THEN t[j] ELSE m
    OBVIOUS
  <1>2. CASE j <= Len(t)
    <2>1. Append(t, m)[j] = t[j] /\ j \in DOMAIN t
      BY <1>1, <1>2
    <2>2. j \in 1 .. Len(t)
      BY <1>1, <1>2
    <2>3. Count(A, Append(t, m), j) = Count(A, t, j)
      BY <2>2, CountAppend
    <2> QED
      BY <2>1, <2>3 DEF AgreeFrom
  <1>3. CASE j = Len(t) + 1
    <2>1. Append(t, m)[j] = m /\ m.by \in A
      BY <1>1, <1>3
    <2>2. Count(A, Append(t, m), j) = Number(A, t) + 1
      BY <1>3, <2>1, NumberAppend
    <2> QED
      BY <2>1, <2>2
  <1> QED
    BY <1>1, <1>2, <1>3

-----------------------------------------------------------------------------
\* The agent's message has been taken by the flow and is not yet in the session.
Ahead(b) == pc[b] = "persist" \/ (pc[b] = "stream" /\ msg[b].kind = "assistant")

\* A step of an agent only keeps it so, or appends the message.
LEMMA AheadEffect ==
  ASSUME ToolInv, AuthorInv, NEW a \in Agents, Agent(a)
  PROVE  /\ \A b \in Agents \ {a} : Ahead(b)' <=> Ahead(b)
         /\ \/ history' = history /\ (Ahead(a)' <=> Ahead(a)) /\ (Ahead(a) => msg'[a] = msg[a])
            \/ history' = Append(history, User) /\ ~ Ahead(a) /\ ~ Ahead(a)'
            \/ /\ history' = Append(history, msg[a]) /\ Ahead(a) /\ ~ Ahead(a)'
               /\ msg[a].by = a /\ msg[a] \in Messages
  <1>0. /\ pc \in [Agents -> Places] /\ msg \in [Agents -> Messages] /\ Authored(a)
    BY DEF ToolInv, ToolTypes, AuthorInv
  <1>1. \A b \in Agents \ {a} : Ahead(b)' <=> Ahead(b)
    BY AgentEffect DEF Ahead
  <1>2. CASE Prepare(a) \/ Commit(a) \/ AppendUser(a)
    BY <1>0, <1>1, <1>2 DEF Prepare, Commit, AppendUser, Goto, sessionVars, Ahead
  <1>3. CASE Request(a)
    <2>1. \E q \in {"model", "request", "yield"} : pc' = [pc EXCEPT ![a] = q]
      BY <1>3, ErrorPlace DEF Request, Goto
    <2> QED
      BY <1>0, <1>1, <1>3, <2>1 DEF Request, sessionVars, Ahead
  <1>4. CASE Generate(a) \/ Streaming(a)
    <2>1. /\ pc[a] = "model" \/ (pc[a] = "stream" /\ msg[a].kind \in {"none", "partial"})
          /\ history' = history
          /\ \/ \E q \in {"tools", "request", "yield"} : pc' = [pc EXCEPT ![a] = q]
             \/ \E m \in Replies(a) : /\ pc' = [pc EXCEPT ![a] = "stream"] /\ m.kind = "tool"
                                      /\ msg' = [msg EXCEPT ![a] = m]
      BY <1>4, ErrorPlace DEF Generate, Streaming, StartTools, Goto
    <2> QED
      BY <1>0, <1>1, <2>1 DEF Ahead
  <1>5. CASE StreamEnds(a)
    <2>1. /\ msg' = msg /\ history' = history /\ pc[a] = "stream"
          /\ \/ pc' = [pc EXCEPT ![a] = "tools"] /\ msg[a].kind = "tool"
             \/ pc' = [pc EXCEPT ![a] = "persist"] /\ msg[a].kind = "assistant"
      BY <1>5 DEF StreamEnds, StartTools, Goto, sessionVars
    <2> QED
      BY <1>0, <1>1, <2>1 DEF Ahead
  <1>6. ASSUME NEW c \in Calls, ToolHandles(a, c) \/ ToolAborts(a, c) \/ ToolStores(a, c)
        PROVE  history' = history /\ ~ Ahead(a) /\ ~ Ahead(a)'
    <2>1. call[a][c] # "idle" /\ pc' = pc /\ history' = history
      BY <1>6 DEF ToolHandles, ToolAborts, ToolStores, sessionVars
    <2>2. pc[a] = "tools"
      BY <2>1 DEF ToolInv, CallsOK, NoCalls
    <2> QED
      BY <2>1, <2>2 DEF Ahead
  <1>7. CASE ToolsDone(a)
    <2>1. \E q \in {"request", "yield"} : pc' = [pc EXCEPT ![a] = q]
      BY <1>7, ErrorPlace DEF ToolsDone, Goto
    <2> QED
      BY <1>0, <1>1, <1>7, <2>1 DEF ToolsDone, sessionVars, Ahead
  <1>8. CASE Persist(a)
    <2>1. /\ \E q \in {"request", "done"} : pc' = [pc EXCEPT ![a] = q]
          /\ history' = Append(history, msg[a]) /\ pc[a] = "persist"
      BY <1>8 DEF Persist, End, Goto
    <2>2. msg[a].by = a
      BY <1>0, <2>1 DEF Authored
    <2> QED
      BY <1>0, <1>1, <2>1, <2>2 DEF Ahead
  <1> QED
    BY <1>1, <1>2, <1>3, <1>4, <1>5, <1>6, <1>7, <1>8 DEF Agent

\* When the flow goes on after a message, that is the message it is ahead by.
LEMMA AheadAnswer ==
  ASSUME ToolInv, AuthorInv, NEW a \in Agents, NEW more \in BOOLEAN, Answer(a, more)
  PROVE  /\ \A b \in Agents \ {a} : (Ahead(b)' <=> Ahead(b)) /\ msg'[b] = msg[b]
         /\ history' = history /\ ~ Ahead(a)
         /\ IF more /\ a \notin failing
            THEN /\ msg' = msg /\ (Ahead(a)' <=> msg[a].kind \in {"tool", "assistant"})
                 /\ msg[a].kind \in {"tool", "assistant"} => msg[a].by = a
                 /\ msg[a].kind \in {"tool", "assistant", "partial"}
            ELSE ~ Ahead(a)'
  <1>0. /\ pc \in [Agents -> Places] /\ msg \in [Agents -> Messages] /\ Authored(a)
        /\ pc[a] = "yield" /\ history' = history
    BY DEF ToolInv, ToolTypes, AuthorInv, Answer, sessionVars
  <1>1. CASE a \in failing \/ ~ more
    <2>1. msg' = [msg EXCEPT ![a] = NoMsg] /\ pc' = [pc EXCEPT ![a] = "done"]
      BY <1>1 DEF Answer, End, Goto
    <2> QED
      BY <1>0, <1>1, <2>1 DEF Ahead
  <1>2. CASE ~ (a \in failing \/ ~ more)
    <2>1. msg' = msg /\ pc' = [pc EXCEPT ![a] = After(a)]
      BY <1>2 DEF Answer, Goto
    <2>2. msg[a].kind \in {"tool", "assistant", "partial"} /\ (msg[a].kind = "partial" => stream)
      BY <1>0, <1>2 DEF Authored
    <2>3. Ahead(a)' <=> msg[a].kind \in {"tool", "assistant"}
      BY <1>0, <2>1, <2>2 DEF Ahead, After
    <2> QED
      BY <1>0, <1>2, <2>1, <2>2, <2>3 DEF Ahead, Authored
  <1> QED
    BY <1>1, <1>2

\* The places of the final answers, by the agents that gave them.
Finals(s) == {s[i].by : i \in {j \in DOMAIN s : s[j].kind = "assistant"}}

\* The agents with a final answer under way.
Finishing == {b \in Agents : msg[b].kind = "assistant"}

\* What a message at the end of the session adds to the final answers.
LEMMA FinalsAppend ==
  ASSUME NEW s \in Seq(Messages), NEW m \in Messages
  PROVE  Finals(Append(s, m)) = IF m.kind = "assistant" THEN Finals(s) \cup {m.by} ELSE Finals(s)
  <1>1. /\ Len(s) \in Nat /\ DOMAIN s = 1 .. Len(s) /\ DOMAIN Append(s, m) = 1 .. Len(s) + 1
        /\ Append(s, m)[Len(s) + 1] = m
        /\ \A i \in 1 .. Len(s) : Append(s, m)[i] = s[i]
    OBVIOUS
  <1>2. \A x \in Finals(Append(s, m)) : x \in Finals(s) \/ (m.kind = "assistant" /\ x = m.by)
    BY <1>1 DEF Finals
  <1>3. Finals(s) \subseteq Finals(Append(s, m))
    BY <1>1 DEF Finals
  <1>4. m.kind = "assistant" => m.by \in Finals(Append(s, m))
    BY <1>1 DEF Finals
  <1> QED
    BY <1>2, <1>3, <1>4

\* The output keys of the session are set with the final answer, before it is
\* yielded and stored.
LEMMA OutputEffect ==
  ASSUME ToolInv, AuthorInv, NEW a \in Agents, Agent(a), outputs = Finals(history) \cup Finishing
  PROVE  outputs' = (Finals(history) \cup Finishing)'
  <1>0. /\ pc \in [Agents -> Places] /\ msg \in [Agents -> Messages] /\ Authored(a)
        /\ history \in Seq(Messages) /\ User \in Messages /\ User.kind # "assistant"
        /\ NoMsg.kind # "assistant" /\ Partial.kind # "assistant"
    BY MessageTypes, ReplyFacts DEF ToolInv, ToolTypes, AuthorInv, User, Message
  <1>1. ASSUME outputs' = outputs, msg'[a].kind = "assistant" <=> msg[a].kind = "assistant",
               history' = history \/ history' = Append(history, User)
        PROVE  outputs' = (Finals(history) \cup Finishing)'
    <2>1. Finals(history') = Finals(history)
      BY <1>0, <1>1, FinalsAppend
    <2>2. Finishing' = Finishing
      BY <1>1, AgentEffect DEF Finishing
    <2> QED
      BY <1>1, <2>1, <2>2
  <1>2. ASSUME outputs' = outputs \cup {a}, msg'[a].kind = "assistant", history' = history
        PROVE  outputs' = (Finals(history) \cup Finishing)'
    <2>1. Finishing' = Finishing \cup {a}
      BY <1>2, AgentEffect DEF Finishing
    <2> QED
      BY <1>2, <2>1
  <1>3. CASE Prepare(a) \/ Commit(a) \/ AppendUser(a) \/ StreamEnds(a) \/ ToolsDone(a)
    <2>1. outputs' = outputs /\ msg' = msg /\ (history' = history \/ history' = Append(history, User))
      BY <1>3 DEF Prepare, Commit, AppendUser, StreamEnds, ToolsDone, sessionVars
    <2> QED
      BY <1>1, <2>1
  <1>4. CASE Request(a)
    <2>1. /\ outputs' = outputs /\ history' = history /\ msg'[a] = NoMsg /\ msg[a].kind # "assistant"
      BY <1>0, <1>4 DEF Request, sessionVars, Authored
    <2> QED
      BY <1>0, <1>1, <2>1
  <1>5. CASE Generate(a) \/ Streaming(a)
    <2>1. /\ history' = history
          /\ \/ outputs' = outputs /\ msg' = msg
             \/ outputs' = outputs /\ msg' = [msg EXCEPT ![a] = Partial] /\ msg[a].kind = "none"
             \/ \E m \in Replies(a) :
                  /\ msg' = [msg EXCEPT ![a] = m]
                  /\ IF m.kind = "assistant" THEN outputs' = outputs \cup {a} ELSE outputs' = outputs
      BY <1>5 DEF Generate, Streaming
    <2>2. msg[a].kind # "assistant"
      BY <1>0, <1>5 DEF Generate, Streaming, Authored
    <2>3. CASE outputs' = outputs /\ msg' = msg
      BY <1>1, <2>1, <2>3
    <2>4. CASE outputs' = outputs /\ msg' = [msg EXCEPT ![a] = Partial]
      <3>1. msg'[a].kind # "assistant"
        BY <1>0, <2>4
      <3> QED
        BY <1>1, <2>1, <2>2, <2>4, <3>1
    <2>5. ASSUME NEW m \in Replies(a), msg' = [msg EXCEPT ![a] = m],
                 IF m.kind = "assistant" THEN outputs' = outputs \cup {a} ELSE outputs' = outputs
          PROVE  outputs' = (Finals(history) \cup Finishing)'
      <3>1. msg'[a] = m
        BY <1>0, <2>5
      <3> QED
        BY <1>1, <1>2, <2>1, <2>2, <2>5, <3>1
    <2> QED
      BY <2>1, <2>3, <2>4, <2>5
  <1>6. ASSUME NEW c \in Calls, ToolHandles(a, c) \/ ToolAborts(a, c) \/ ToolStores(a, c)
        PROVE  outputs' = (Finals(history) \cup Finishing)'
    <2>1. /\ outputs' = outputs /\ history' = history
          /\ \/ msg' = msg
             \/ msg' = [msg EXCEPT ![a] = Message(msg[a].kind, msg[a].by, msg[a].open \ {c},
                                                  MergeActions(msg[a].exit, actions[a]))]
      BY <1>6 DEF ToolHandles, ToolAborts, ToolStores, sessionVars
    <2>2. msg'[a].kind = msg[a].kind
      BY <1>0, <2>1 DEF Message
    <2> QED
      BY <1>1, <2>1, <2>2
  <1>7. CASE Persist(a)
    <2>1. /\ msg' = [msg EXCEPT ![a] = NoMsg] /\ history' = Append(history, msg[a])
          /\ outputs' = outputs /\ pc[a] = "persist"
      BY <1>7 DEF Persist, End
    <2>2. msg[a].by = a /\ msg[a] \in Messages
      BY <1>0, <2>1 DEF Authored
    <2>3. Finals(history') = IF msg[a].kind = "assistant" THEN Finals(history) \cup {a} ELSE Finals(history)
      BY <1>0, <2>1, <2>2, FinalsAppend
    <2>4. Finishing' = Finishing \ {a}
      BY <1>0, <2>1 DEF Finishing
    <2>5. a \in Finishing <=> msg[a].kind = "assistant"
      BY DEF Finishing
    <2> QED
      BY <2>1, <2>3, <2>4, <2>5
  <1> QED
    BY <1>3, <1>4, <1>5, <1>6, <1>7 DEF Agent

-----------------------------------------------------------------------------
\* The user message is the one that the user wrote.
UserBy(s) == \A i \in DOMAIN s : s[i].kind = "user" <=> s[i].by = "user"

\* What the next request of an agent is built from, and what the request under
\* way shows: the user message, and a tool result for each iteration.
Carried(b) ==
  /\ pc[b] = "append" \/ Past(b) => Number({"user"}, local[b]) = 1
  /\ iter[b] <= IF Loads(b) THEN Number({b}, history) ELSE Number({b}, local[b])
  /\ pc[b] = "model" => Number({"user"}, shown[b]) = 1 /\ Number({b}, shown[b]) >= iter[b]

CarryInv ==
  /\ iter \in [Agents -> Nat] /\ local \in [Agents -> Seq(Messages)]
  /\ shown \in [Agents -> Seq(Messages)]
  /\ UserBy(history) /\ \A b \in Agents : Carried(b)

\* Counts are numbers.
LEMMA NumberNat ==
  ASSUME NEW A, NEW s \in Seq(Messages)
  PROVE  Number(A, s) \in Nat /\ 0 <= Number(A, s)
  <1>1. Len(s) \in Nat
    OBVIOUS
  <1>2. Count(A, s, Len(s)) \in Nat
    BY <1>1, CountStep
  <1> QED
    BY <1>2 DEF Number

\* What handle starts from.
LEMMA ShortNumbers ==
  Number({"user"}, <<User>>) = 1 /\ <<User>> \in Seq(Messages) /\ <<>> \in Seq(Messages)
  <1>1. User \in Messages /\ User.by \in {"user"}
    BY MessageTypes DEF User, Message
  <1>2. {i \in 1 .. 1 : <<User>>[i].by \in {"user"}} = {1}
    BY <1>1
  <1>3. Cardinality({1}) = 1
    BY FS_Singleton
  <1>4. Count({"user"}, <<User>>, 1) = 1
    BY <1>2, <1>3 DEF Count
  <1>5. Len(<<User>>) = 1 /\ <<User>> \in Seq(Messages) /\ <<>> \in Seq(Messages)
    BY <1>1
  <1> QED
    BY <1>4, <1>5 DEF Number

\* A session with one user message counts one.
LEMMA OneUser ==
  ASSUME UserInv, HasUser, UserBy(history), history \in Seq(Messages)
  PROVE  Number({"user"}, history) = 1
  <1>1. PICK i \in DOMAIN history : history[i].kind = "user"
    BY DEF HasUser
  <1>2. {j \in 1 .. Len(history) : history[j].by \in {"user"}} = {i}
    BY <1>1 DEF UserInv, UsersOK, UserBy
  <1>3. Cardinality({i}) = 1
    BY FS_Singleton
  <1> QED
    BY <1>2, <1>3 DEF Number, Count

\* A step of agent a, which may append a message to the session.
LEMMA CarryFrame ==
  ASSUME CarryInv, ToolInv, NEW a \in Agents, NEW q, NEW n \in Nat, NEW L \in Seq(Messages),
         NEW H \in Seq(Messages),
         pc' = [pc EXCEPT ![a] = q], iter' = [iter EXCEPT ![a] = n],
         local' = [local EXCEPT ![a] = L], shown' = [shown EXCEPT ![a] = H],
         resume' = resume, \A b \in Agents \ {a} : b \in failing' <=> b \in failing,
         \/ history' = history
         \/ \E m \in Messages : (m.kind = "user" <=> m.by = "user") /\ history' = Append(history, m),
         q = "append" \/ Past(a)' => Number({"user"}, L) = 1,
         n <= IF Loads(a) THEN Number({a}, history') ELSE Number({a}, L),
         q = "model" => Number({"user"}, H) = 1 /\ Number({a}, H) >= n
  PROVE  CarryInv'
  <1>0. /\ history \in Seq(Messages) /\ pc \in [Agents -> Places]
        /\ iter \in [Agents -> Nat] /\ local \in [Agents -> Seq(Messages)]
        /\ shown \in [Agents -> Seq(Messages)] /\ UserBy(history)
    BY DEF ToolInv, ToolTypes, CarryInv
  <1>1. UserBy(history') /\ history' \in Seq(Messages)
    <2>1. CASE history' = history
      BY <1>0, <2>1
    <2>2. ASSUME NEW m \in Messages, m.kind = "user" <=> m.by = "user", history' = Append(history, m)
          PROVE  UserBy(history') /\ history' \in Seq(Messages)
      <3>1. \A i \in DOMAIN history' : history'[i] = m \/ (i \in DOMAIN history /\ history'[i] = history[i])
        BY <1>0, <2>2
      <3>2. history' \in Seq(Messages)
        BY <1>0, <2>2
      <3>3. ASSUME NEW i \in DOMAIN history'
            PROVE  history'[i].kind = "user" <=> history'[i].by = "user"
        <4>1. CASE history'[i] = m
          BY <2>2, <4>1
        <4>2. CASE i \in DOMAIN history /\ history'[i] = history[i]
          BY <1>0, <4>2 DEF UserBy
        <4> QED
          BY <3>1, <4>1, <4>2
      <3> QED
        BY <3>2, <3>3 DEF UserBy
    <2> QED
      BY <2>1, <2>2
  <1>2. \A A : Number(A, history) <= Number(A, history') /\ Number(A, history) \in Nat
    <2> TAKE A
    <2>1. Number(A, history) \in Nat
      BY <1>0, NumberNat
    <2>2. CASE history' = history
      BY <2>1, <2>2
    <2>3. ASSUME NEW m \in Messages, history' = Append(history, m)
          PROVE  Number(A, history) <= Number(A, history')
      <3>1. Number(A, history') = IF m.by \in A THEN Number(A, history) + 1 ELSE Number(A, history)
        BY <1>0, <2>3, NumberAppend
      <3> QED
        BY <2>1, <3>1
    <2> QED
      BY <2>1, <2>2, <2>3
  <1>3. ASSUME NEW b \in Agents \ {a} PROVE Carried(b)'
    <2>1. /\ pc'[b] = pc[b] /\ iter'[b] = iter[b] /\ local'[b] = local[b] /\ shown'[b] = shown[b]
          /\ b \in failing' <=> b \in failing
          /\ iter[b] \in Nat
      BY <1>0, <1>3
    <2>2. Carried(b) /\ (Past(b)' <=> Past(b)) /\ (Loads(b)' <=> Loads(b))
      BY <1>3, <2>1 DEF CarryInv, Past, Loads
    <2>3. Number({b}, history) <= Number({b}, history') /\ Number({b}, history) \in Nat
          /\ Number({b}, history') \in Nat
      BY <1>1, <1>2, NumberNat
    <2> QED
      BY <2>1, <2>2, <2>3 DEF Carried
  <1>4. Carried(a)'
    <2>1. pc'[a] = q /\ iter'[a] = n /\ local'[a] = L /\ shown'[a] = H /\ (Loads(a)' <=> Loads(a))
      BY <1>0 DEF Loads
    <2> QED
      BY <2>1 DEF Carried
  <1> QED
    BY <1>0, <1>1, <1>3, <1>4 DEF CarryInv

\* The start of an agent, and what happens before handle.
LEMMA CarryHead ==
  ASSUME CarryInv, ToolInv, NEW a \in Agents, Start(a) \/ Prepare(a) \/ Commit(a) \/ AppendUser(a)
  PROVE  CarryInv'
  <1>0. /\ iter[a] \in Nat /\ local[a] \in Seq(Messages) /\ shown[a] \in Seq(Messages)
        /\ iter = [iter EXCEPT ![a] = iter[a]] /\ local = [local EXCEPT ![a] = local[a]]
        /\ shown = [shown EXCEPT ![a] = shown[a]] /\ Carried(a) /\ pc \in [Agents -> Places]
        /\ history \in Seq(Messages)
    BY DEF CarryInv, ToolInv, ToolTypes
  <1>1. CASE Start(a) \/ Prepare(a)
    <2>1. /\ iter' = iter /\ local' = local /\ shown' = shown /\ resume' = resume
          /\ history' = history /\ \A b \in Agents \ {a} : b \in failing' <=> b \in failing
      BY <1>1 DEF Start, Prepare, loopVars, sessionVars, optionVars
    <2>2. \E q \in {"prepare", "commit", "yield"} :
            pc' = [pc EXCEPT ![a] = q] /\ (q = "yield" => a \in failing')
      BY <1>1 DEF Start, Prepare, Goto
    <2>3. PICK q \in {"prepare", "commit", "yield"} :
            pc' = [pc EXCEPT ![a] = q] /\ (q = "yield" => a \in failing')
      BY <2>2
    <2>4. ~ Past(a)' /\ iter[a] <= IF Loads(a) THEN Number({a}, history') ELSE Number({a}, local[a])
      BY <1>0, <2>1, <2>3 DEF Past, Carried
    <2> QED
      BY <1>0, <2>1, <2>3, <2>4, CarryFrame
  <1>2. CASE Commit(a)
    <2>1. /\ iter' = [iter EXCEPT ![a] = 0] /\ local' = [local EXCEPT ![a] = <<User>>]
          /\ shown' = shown /\ resume' = resume /\ history' = history /\ failing' = failing
          /\ \E q \in {"request", "append"} : pc' = [pc EXCEPT ![a] = q]
      BY <1>2 DEF Commit, Handle, Goto, optionVars
    <2>2. 0 <= Number({a}, history) /\ 0 <= Number({a}, <<User>>)
      BY <1>0, ShortNumbers, NumberNat
    <2> QED
      BY <1>0, <2>1, <2>2, ShortNumbers, CarryFrame
  <1>3. CASE AppendUser(a)
    <2>1. /\ iter' = iter /\ local' = local /\ shown' = shown /\ resume' = resume
          /\ history' = Append(history, User) /\ failing' = failing
          /\ pc' = [pc EXCEPT ![a] = "request"] /\ pc[a] = "append"
      BY <1>3 DEF AppendUser, Goto, loopVars, optionVars
    <2>2. User \in Messages /\ User.kind = "user" /\ User.by = "user"
      BY MessageTypes DEF User, Message
    <2>3. Number({a}, history) <= Number({a}, history')
          /\ Number({a}, history) \in Nat /\ Number({a}, history') \in Nat
      <3>1. /\ Number({a}, history) \in Nat
            /\ Number({a}, history') = IF User.by \in {a} THEN Number({a}, history) + 1 ELSE Number({a}, history)
        BY <1>0, <2>1, <2>2, NumberAppend
      <3> QED
        BY <3>1
    <2>4. /\ Number({"user"}, local[a]) = 1
          /\ iter[a] <= IF Loads(a) THEN Number({a}, history') ELSE Number({a}, local[a])
      BY <1>0, <2>1, <2>3 DEF Carried
    <2> QED
      BY <1>0, <2>1, <2>2, <2>4, CarryFrame
  <1> QED
    BY <1>1, <1>2, <1>3

\* After an error handle starts again, or the agent is about to yield the error.
LEMMA CarryError ==
  ASSUME CarryInv, ToolInv, NEW a \in Agents, HandlerError(a), NEW H \in Seq(Messages),
         shown' = [shown EXCEPT ![a] = H], resume' = resume, history' = history
  PROVE  CarryInv'
  <1>0. /\ iter[a] \in Nat /\ local[a] \in Seq(Messages) /\ Carried(a)
        /\ iter = [iter EXCEPT ![a] = iter[a]] /\ local = [local EXCEPT ![a] = local[a]]
        /\ history \in Seq(Messages) /\ pc \in [Agents -> Places]
    BY DEF CarryInv, ToolInv, ToolTypes
  <1>1. CASE /\ iter' = [iter EXCEPT ![a] = 0] /\ local' = [local EXCEPT ![a] = <<User>>]
             /\ pc' = [pc EXCEPT ![a] = "request"] /\ failing' = failing
    <2>1. 0 <= Number({a}, history) /\ 0 <= Number({a}, <<User>>)
      BY <1>0, ShortNumbers, NumberNat
    <2> QED
      BY <1>0, <1>1, <2>1, ShortNumbers, CarryFrame
  <1>2. CASE /\ failing' = failing \cup {a} /\ pc' = [pc EXCEPT ![a] = "yield"]
             /\ iter' = iter /\ local' = local
    <2>1. ~ Past(a)' /\ iter[a] <= IF Loads(a) THEN Number({a}, history') ELSE Number({a}, local[a])
      BY <1>0, <1>2 DEF Past, Carried
    <2>2. \A b \in Agents \ {a} : b \in failing' <=> b \in failing
      BY <1>2
    <2> QED
      BY <1>0, <1>2, <2>1, <2>2, CarryFrame
  <1> QED
    BY <1>1, <1>2 DEF HandlerError, Handle, Goto, loopVars

\* A step between two places of handle that leaves its locals alone.
LEMMA CarryInner ==
  ASSUME CarryInv, ToolInv, NEW a \in Agents, NEW q \in Places \ {"append", "model"},
         Past(a), NEW H \in Seq(Messages),
         pc' = [pc EXCEPT ![a] = q], iter' = iter, local' = local,
         shown' = [shown EXCEPT ![a] = H], resume' = resume, history' = history,
         \A b \in Agents \ {a} : b \in failing' <=> b \in failing
  PROVE  CarryInv'
  <1>0. /\ iter[a] \in Nat /\ local[a] \in Seq(Messages) /\ Carried(a)
        /\ iter = [iter EXCEPT ![a] = iter[a]] /\ local = [local EXCEPT ![a] = local[a]]
    BY DEF CarryInv
  <1>1. /\ Number({"user"}, local[a]) = 1
        /\ iter[a] <= IF Loads(a) THEN Number({a}, history') ELSE Number({a}, local[a])
    BY <1>0 DEF Carried
  <1> QED
    BY <1>0, <1>1, CarryFrame

\* Every step of an agent keeps what its requests are built from; the session has
\* the user message when a request is made.
LEMMA CarryStep ==
  ASSUME CarryInv, ToolInv, UserInv, AuthorInv, NEW a \in Agents, Agent(a),
         pc[a] = "request" => HasUser
  PROVE  CarryInv'
  <1>0. /\ iter[a] \in Nat /\ local[a] \in Seq(Messages) /\ shown[a] \in Seq(Messages)
        /\ iter = [iter EXCEPT ![a] = iter[a]] /\ local = [local EXCEPT ![a] = local[a]]
        /\ shown = [shown EXCEPT ![a] = shown[a]] /\ Carried(a) /\ pc \in [Agents -> Places]
        /\ pc = [pc EXCEPT ![a] = pc[a]] /\ pc[a] \in Places
        /\ history \in Seq(Messages) /\ <<>> \in Seq(Messages) /\ Authored(a)
        /\ msg \in [Agents -> Messages] /\ UserBy(history)
    BY ShortNumbers DEF CarryInv, ToolInv, ToolTypes, AuthorInv
  <1>1. CASE Request(a)
    <2>1. /\ resume' = resume /\ history' = history /\ pc[a] = "request"
      BY <1>1 DEF Request, optionVars, sessionVars
    <2>2. CASE HandlerError(a) /\ shown' = shown
      BY <1>0, <2>1, <2>2, CarryError
    <2>3. CASE /\ shown' = [shown EXCEPT ![a] = IF Loads(a) THEN history ELSE local[a]]
               /\ pc' = [pc EXCEPT ![a] = "model"] /\ failing' = failing /\ iter' = iter /\ local' = local
      <3>1. Number({"user"}, history) = 1 /\ Number({"user"}, local[a]) = 1
        BY <1>0, <2>1, OneUser DEF Carried, Past
      <3>2. iter[a] <= IF Loads(a) THEN Number({a}, history') ELSE Number({a}, local[a])
        BY <1>0, <2>1 DEF Carried
      <3>a. /\ iter' = [iter EXCEPT ![a] = iter[a]] /\ local' = [local EXCEPT ![a] = local[a]]
            /\ \A b \in Agents \ {a} : b \in failing' <=> b \in failing
            /\ iter[a] \in Nat /\ local[a] \in Seq(Messages) /\ history \in Seq(Messages)
        BY <1>0, <2>3
      <3>b. pc' = [pc EXCEPT ![a] = "model"] /\ resume' = resume /\ history' = history
        BY <2>1, <2>3
      <3>3. CASE Loads(a)
        <4>1. Number({a}, history) >= iter[a] /\ shown' = [shown EXCEPT ![a] = history]
          BY <1>0, <2>1, <2>3, <3>2, <3>3, NumberNat
        <4> QED
          BY <3>a, <3>b, <3>1, <3>2, <4>1, CarryFrame
      <3>4. CASE ~ Loads(a)
        <4>1. Number({a}, local[a]) >= iter[a] /\ shown' = [shown EXCEPT ![a] = local[a]]
          BY <1>0, <2>3, <3>2, <3>4, NumberNat
        <4> QED
          BY <3>a, <3>b, <3>1, <3>2, <4>1, CarryFrame
      <3> QED
        BY <3>3, <3>4
    <2> QED
      BY <1>1, <2>2, <2>3 DEF Request, Goto, loopVars
  <1>2. CASE Generate(a) \/ Streaming(a)
    <2>1. /\ resume' = resume /\ history' = history /\ shown' = [shown EXCEPT ![a] = <<>>] /\ Past(a)
      BY <1>2 DEF Generate, Streaming, optionVars, Past
    <2>2. CASE HandlerError(a)
      BY <1>0, <2>1, <2>2, CarryError
    <2>3. CASE ~ HandlerError(a)
      <3>1. /\ iter' = iter /\ local' = local /\ failing' = failing
            /\ \E q \in {"yield", "tools", "stream"} : pc' = [pc EXCEPT ![a] = q]
        BY <1>2, <2>3 DEF Generate, Streaming, StartTools, Goto, loopVars
      <3>2. {"yield", "tools", "stream"} \subseteq Places \ {"append", "model"}
        BY DEF Places
      <3> QED
        BY <1>0, <2>1, <3>1, <3>2, CarryInner
    <2> QED
      BY <2>2, <2>3
  <1>3. CASE StreamEnds(a)
    <2>1. /\ resume' = resume /\ history' = history /\ shown' = shown /\ Past(a)
          /\ iter' = iter /\ local' = local /\ failing' = failing
          /\ \E q \in {"tools", "persist"} : pc' = [pc EXCEPT ![a] = q]
      BY <1>3 DEF StreamEnds, StartTools, Goto, optionVars, sessionVars, loopVars, Past
    <2>2. {"tools", "persist"} \subseteq Places \ {"append", "model"}
      BY DEF Places
    <2> QED
      BY <1>0, <2>1, <2>2, CarryInner
  <1>4. ASSUME NEW c \in Calls, ToolHandles(a, c) \/ ToolAborts(a, c) \/ ToolStores(a, c)
        PROVE  CarryInv'
    <2>1. /\ resume' = resume /\ history' = history /\ shown' = shown /\ call[a][c] # "idle"
          /\ iter' = iter /\ local' = local /\ failing' = failing /\ pc' = pc
      BY <1>4 DEF ToolHandles, ToolAborts, ToolStores, optionVars, sessionVars, loopVars
    <2>2. pc[a] = "tools"
      BY <2>1 DEF ToolInv, CallsOK, NoCalls
    <2>3. Past(a) /\ pc[a] \in Places \ {"append", "model"}
      BY <2>2 DEF Past, Places
    <2> QED
      BY <1>0, <2>1, <2>3, CarryInner
  <1>5. CASE ToolsDone(a)
    <2>1. /\ resume' = resume /\ history' = history /\ shown' = shown /\ Past(a)
      BY <1>5 DEF ToolsDone, optionVars, sessionVars, Past
    <2>2. CASE HandlerError(a)
      BY <1>0, <2>1, <2>2, CarryError
    <2>3. CASE /\ pc' = [pc EXCEPT ![a] = "yield"] /\ failing' = failing
               /\ iter' = iter /\ local' = local
      <3>1. "yield" \in Places \ {"append", "model"}
        BY DEF Places
      <3> QED
        BY <1>0, <2>1, <2>3, <3>1, CarryInner
    <2> QED
      BY <1>5, <2>2, <2>3 DEF ToolsDone, Goto, loopVars
  <1>6. CASE Persist(a)
    <2>1. /\ resume' = resume /\ history' = Append(history, msg[a]) /\ shown' = shown
          /\ pc[a] = "persist" /\ failing' = failing
      BY <1>6 DEF Persist, optionVars
    <2>2. /\ msg[a] \in Messages /\ msg[a].by = a /\ msg[a].kind # "user" /\ a # "user"
      BY <1>0, <2>1, AgentAssumption DEF Authored
    <2>3. /\ Number({a}, history') = Number({a}, history) + 1 /\ Number({a}, history) \in Nat
      BY <1>0, <2>1, <2>2, NumberAppend
    <2>4. /\ Number({"user"}, local[a]) = 1
          /\ iter[a] <= IF Loads(a) THEN Number({a}, history) ELSE Number({a}, local[a])
      BY <1>0, <2>1 DEF Carried, Past
    <2>5. CASE /\ iter' = [iter EXCEPT ![a] = 0] /\ local' = [local EXCEPT ![a] = <<>>]
               /\ pc' = [pc EXCEPT ![a] = "done"]
      <3>1. ~ Past(a)'
        BY <1>0, <2>5 DEF Past
      <3>a. 0 <= Number({a}, <<>>)
        BY ShortNumbers, NumberNat
      <3>b. 0 <= Number({a}, history')
        BY <2>3
      <3>2. 0 <= IF Loads(a) THEN Number({a}, history') ELSE Number({a}, <<>>)
        BY <3>a, <3>b
      <3> QED
        BY <1>0, <2>1, <2>2, <2>5, <3>1, <3>2, CarryFrame
    <2>6. CASE /\ iter' = [iter EXCEPT ![a] = iter[a] + 1]
               /\ local' = [local EXCEPT ![a] = IF Loads(a) THEN local[a] ELSE Append(local[a], msg[a])]
               /\ pc' = [pc EXCEPT ![a] = "request"]
      <3>1. CASE Loads(a)
        <4>1. iter[a] + 1 <= Number({a}, history')
          BY <1>0, <2>3, <2>4, <3>1
        <4>2. local' = [local EXCEPT ![a] = local[a]] /\ iter[a] + 1 \in Nat
          BY <1>0, <2>6, <3>1
        <4> QED
          BY <1>0, <2>1, <2>2, <2>4, <2>6, <3>1, <4>1, <4>2, CarryFrame
      <3>2. CASE ~ Loads(a)
        <4>1. /\ Number({a}, Append(local[a], msg[a])) = Number({a}, local[a]) + 1
              /\ Number({a}, local[a]) \in Nat
              /\ Append(local[a], msg[a]) \in Seq(Messages)
          BY <1>0, <2>2, NumberAppend
        <4>2. Number({"user"}, Append(local[a], msg[a])) = Number({"user"}, local[a])
          BY <1>0, <2>2, NumberAppend
        <4>3. iter[a] + 1 <= Number({a}, Append(local[a], msg[a])) /\ iter[a] + 1 \in Nat
          BY <1>0, <2>4, <3>2, <4>1
        <4>4. local' = [local EXCEPT ![a] = Append(local[a], msg[a])]
          BY <2>6, <3>2
        <4>5. /\ shown' = [shown EXCEPT ![a] = shown[a]] /\ shown[a] \in Seq(Messages)
              /\ resume' = resume /\ \A b \in Agents \ {a} : b \in failing' <=> b \in failing
          BY <1>0, <2>1
        <4>6. \E m \in Messages : (m.kind = "user" <=> m.by = "user") /\ history' = Append(history, m)
          BY <2>1, <2>2
        <4>7. Number({"user"}, Append(local[a], msg[a])) = 1
          BY <2>4, <4>2
        <4>8. iter[a] + 1 <= IF Loads(a) THEN Number({a}, history') ELSE Number({a}, Append(local[a], msg[a]))
          BY <3>2, <4>3
        <4>9. iter' = [iter EXCEPT ![a] = iter[a] + 1] /\ pc' = [pc EXCEPT ![a] = "request"]
          BY <2>6
        <4> QED
          BY <4>1, <4>3, <4>4, <4>5, <4>6, <4>7, <4>8, <4>9, CarryFrame
      <3> QED
        BY <3>1, <3>2
    <2> QED
      BY <1>6, <2>5, <2>6 DEF Persist, End, Goto
  <1> QED
    BY <1>1, <1>2, <1>3, <1>4, <1>5, <1>6, CarryHead DEF Agent

\* So does the answer of whoever ranges over the agent.
LEMMA CarryAnswer ==
  ASSUME CarryInv, ToolInv, NEW a \in Agents, NEW more \in BOOLEAN, Answer(a, more)
  PROVE  CarryInv'
  <1>0. /\ shown[a] \in Seq(Messages) /\ history \in Seq(Messages) /\ <<>> \in Seq(Messages)
        /\ shown = [shown EXCEPT ![a] = shown[a]] /\ pc \in [Agents -> Places]
        /\ pc[a] = "yield" /\ shown' = shown /\ history' = history /\ resume' = resume
        /\ failing' = failing \ {a}
    BY ShortNumbers DEF CarryInv, ToolInv, ToolTypes, Answer, sessionVars, optionVars
  <1>1. \A b \in Agents \ {a} : b \in failing' <=> b \in failing
    BY <1>0
  <1>2. CASE a \in failing \/ ~ more
    <2>1. /\ iter' = [iter EXCEPT ![a] = 0] /\ local' = [local EXCEPT ![a] = <<>>]
          /\ pc' = [pc EXCEPT ![a] = "done"]
      BY <1>2 DEF Answer, End, Goto
    <2>2. ~ Past(a)'
      BY <1>0, <2>1 DEF Past
    <2>3. 0 <= IF Loads(a) THEN Number({a}, history') ELSE Number({a}, <<>>)
      BY <1>0, NumberNat
    <2> QED
      BY <1>0, <1>1, <2>1, <2>2, <2>3, CarryFrame
  <1>3. CASE ~ (a \in failing \/ ~ more)
    <2>1. /\ iter' = iter /\ local' = local /\ pc' = [pc EXCEPT ![a] = After(a)] /\ Past(a)
      BY <1>0, <1>3 DEF Answer, Goto, loopVars, Past
    <2>2. After(a) \in Places \ {"append", "model"}
      BY DEF After, Places
    <2> QED
      BY <1>0, <1>1, <2>1, <2>2, CarryInner
  <1> QED
    BY <1>2, <1>3

-----------------------------------------------------------------------------
\* With k messages of the authors A before s, the n-th one is x, if it is in s.
NextFrom(A, k, s, n, x) ==
  \A i \in DOMAIN s : s[i].by \in A /\ k + Count(A, s, i) = n => s[i] = x

\* That two sequences agree says so of each message of the second.
LEMMA AgreeNext ==
  ASSUME NEW A, NEW k, NEW s, NEW t
  PROVE  AgreeFrom(A, k, s, t) <=>
           \A j \in DOMAIN t : t[j].by \in A => NextFrom(A, k, s, Count(A, t, j), t[j])
  BY DEF AgreeFrom, NextFrom

\* The head of c is dropped, which no author of A wrote, or goes to the end of s.
LEMMA NextMove ==
  ASSUME NEW A, NEW s \in Seq(Messages), NEW c \in Seq(Messages), c # <<>>, NEW n, NEW x,
         NextFrom(A, 0, s, n, x), NextFrom(A, Number(A, s), c, n, x)
  PROVE  /\ Head(c).by \notin A => NextFrom(A, Number(A, s), Tail(c), n, x)
         /\ NextFrom(A, 0, Append(s, Head(c)), n, x)
         /\ NextFrom(A, Number(A, Append(s, Head(c))), Tail(c), n, x)
  <1> DEFINE m == Head(c) k == Number(A, s) t == Append(s, Head(c))
  <1>1. /\ m \in Messages /\ m = c[1] /\ Len(c) \in Nat /\ Len(c) > 0 /\ Tail(c) \in Seq(Messages)
        /\ DOMAIN Tail(c) = 1 .. Len(c) - 1 /\ DOMAIN c = 1 .. Len(c)
        /\ \A i \in 1 .. Len(c) - 1 : Tail(c)[i] = c[i + 1]
    OBVIOUS
  <1>2. /\ k \in Nat /\ Number(A, t) = IF m.by \in A THEN k + 1 ELSE k
        /\ Count(A, t, Len(s) + 1) = Number(A, t)
    BY <1>1, NumberAppend
  <1>3. Count(A, c, 1) = IF m.by \in A THEN 1 ELSE 0
    <2>1. 0 \in Nat /\ 0 + 1 = 1
      OBVIOUS
    <2>2. /\ Count(A, c, 0) = 0
          /\ c[0 + 1].by \in A => Count(A, c, 0 + 1) = Count(A, c, 0) + 1
          /\ c[0 + 1].by \notin A => Count(A, c, 0 + 1) = Count(A, c, 0)
      BY <2>1, CountStep
    <2> QED
      BY <1>1, <2>1, <2>2
  <1>4. ASSUME NEW i \in DOMAIN Tail(c), Tail(c)[i].by \in A
        PROVE  /\ Number(A, t) + Count(A, Tail(c), i) = n => Tail(c)[i] = x
               /\ m.by \notin A /\ k + Count(A, Tail(c), i) = n => Tail(c)[i] = x
    <2>1. i + 1 \in DOMAIN c /\ Tail(c)[i] = c[i + 1] /\ i \in 0 .. Len(c) - 1 /\ i \in Nat
      BY <1>1, <1>4
    <2>2. Count(A, c, i + 1) = IF m.by \in A THEN Count(A, Tail(c), i) + 1 ELSE Count(A, Tail(c), i)
      BY <2>1, CountTail
    <2>3. Count(A, Tail(c), i) \in Nat
      BY <2>1, CountStep
    <2>4. k + Count(A, c, i + 1) = Number(A, t) + Count(A, Tail(c), i)
      BY <1>2, <2>2, <2>3
    <2>5. k + Count(A, c, i + 1) = n => Tail(c)[i] = x
      BY <1>4, <2>1 DEF NextFrom
    <2>6. m.by \notin A => Number(A, t) = k
      BY <1>2
    <2> QED
      BY <2>4, <2>5, <2>6
  <1>5. ASSUME NEW i \in DOMAIN t, t[i].by \in A, 0 + Count(A, t, i) = n
        PROVE  t[i] = x
    <2>1. i \in 1 .. Len(s) + 1 /\ Len(s) \in Nat
      BY <1>1, <1>5
    <2>2. CASE i \in 1 .. Len(s)
      <3>1. Count(A, t, i) = Count(A, s, i) /\ t[i] = s[i] /\ i \in DOMAIN s
        BY <1>1, <2>2, CountAppend
      <3> QED
        BY <1>5, <3>1 DEF NextFrom
    <2>3. CASE i = Len(s) + 1
      <3>1. t[i] = m /\ m.by \in A /\ 0 + Number(A, t) = n
        BY <1>1, <1>2, <1>5, <2>3
      <3>2. k + Count(A, c, 1) = n /\ 1 \in DOMAIN c
        BY <1>1, <1>2, <1>3, <3>1
      <3> QED
        BY <1>1, <3>1, <3>2 DEF NextFrom
    <2> QED
      BY <2>1, <2>2, <2>3
  <1> QED
    BY <1>4, <1>5 DEF NextFrom

\* Messages of no agent do not count, those of agents do.
LEMMA Authors ==
  /\ User.by \notin Agents /\ Failure.by \notin Agents /\ Partial.by \notin Agents
  /\ User \in Messages /\ Failure \in Messages /\ Failure # Partial /\ Failure.kind = "error"
  /\ Partial.kind = "partial"
  BY AgentAssumption, MessageTypes DEF User, Failure, Partial, Message

\* Beyond the messages of s there is no n-th one.
LEMMA NextBeyond ==
  ASSUME NEW A, NEW k \in Nat, NEW s \in Seq(Messages), NEW n \in Nat, NEW x, k + Number(A, s) < n
  PROVE  NextFrom(A, k, s, n, x)
  <1> SUFFICES ASSUME NEW i \in DOMAIN s, k + Count(A, s, i) = n PROVE FALSE
    BY DEF NextFrom
  <1>1. Count(A, s, i) \in Nat /\ Count(A, s, i) <= Number(A, s) /\ i \in 1 .. Len(s)
    BY MessageTypes, CountAppend
  <1>2. Number(A, s) \in Nat
    BY NumberNat
  <1> QED
    BY <1>1, <1>2

\* A message is appended to c: it is not the n-th one, or it is x.
LEMMA NextSend ==
  ASSUME NEW A, NEW k \in Nat, NEW c \in Seq(Messages), NEW m \in Messages, NEW n, NEW x,
         NextFrom(A, k, c, n, x),
         m.by \in A => m = x \/ n # k + Number(A, c) + 1
  PROVE  NextFrom(A, k, Append(c, m), n, x)
  <1> SUFFICES ASSUME NEW i \in DOMAIN Append(c, m), Append(c, m)[i].by \in A,
                      k + Count(A, Append(c, m), i) = n
               PROVE  Append(c, m)[i] = x
    BY DEF NextFrom
  <1>1. i \in 1 .. Len(c) + 1 /\ Len(c) \in Nat
    OBVIOUS
  <1>2. CASE i \in 1 .. Len(c)
    <2>1. Count(A, Append(c, m), i) = Count(A, c, i) /\ Append(c, m)[i] = c[i] /\ i \in DOMAIN c
      BY <1>2, CountAppend
    <2> QED
      BY <2>1 DEF NextFrom
  <1>3. CASE i = Len(c) + 1
    <2>1. Append(c, m)[i] = m
      BY <1>3
    <2>2. Count(A, Append(c, m), i) = Number(A, c) + 1 /\ Number(A, c) \in Nat
      BY <1>3, <2>1, NumberAppend
    <2> QED
      BY <2>1, <2>2
  <1> QED
    BY <1>1, <1>2, <1>3

\* How a step of an agent sets its result.
LEMMA ResultEffect ==
  ASSUME ToolInv, UserInv, NEW a \in Agents, Agent(a)
  PROVE  /\ \A b \in Agents \ {a} : result'[b] = result[b]
         /\ result' = result \/ (result'[a] = "ok" /\ pc'[a] = "done")
         /\ pc'[a] = "done" => result'[a] = "ok"
  <1>0. pc \in [Agents -> Places] /\ result \in [Agents -> {"none", "ok", "error", "stopped"}]
    BY DEF ToolInv, ToolTypes, UserInv
  <1>1. CASE Prepare(a) \/ Commit(a) \/ AppendUser(a)
    BY <1>0, <1>1 DEF Prepare, Commit, AppendUser, Goto
  <1>2. CASE Request(a) \/ ToolsDone(a)
    <2>1. \E q \in {"model", "request", "yield"} : pc' = [pc EXCEPT ![a] = q]
      BY <1>2, ErrorPlace DEF Request, ToolsDone, Goto
    <2> QED
      BY <1>0, <1>2, <2>1 DEF Request, ToolsDone
  <1>3. CASE Generate(a) \/ Streaming(a) \/ StreamEnds(a)
    <2>1. \E q \in {"tools", "stream", "request", "yield", "persist"} : pc' = [pc EXCEPT ![a] = q]
      BY <1>3, ErrorPlace DEF Generate, Streaming, StreamEnds, StartTools, Goto
    <2> QED
      BY <1>0, <1>3, <2>1 DEF Generate, Streaming, StreamEnds
  <1>4. ASSUME NEW c \in Calls, ToolHandles(a, c) \/ ToolAborts(a, c) \/ ToolStores(a, c)
        PROVE  result' = result /\ pc'[a] # "done"
    <2>1. call[a][c] # "idle" /\ pc' = pc /\ result' = result
      BY <1>4 DEF ToolHandles, ToolAborts, ToolStores
    <2>2. pc[a] = "tools"
      BY <2>1 DEF ToolInv, CallsOK, NoCalls
    <2> QED
      BY <2>1, <2>2
  <1>5. CASE Persist(a)
    BY <1>0, <1>5 DEF Persist, End, Goto
  <1> QED
    BY <1>1, <1>2, <1>3, <1>4, <1>5 DEF Agent
=============================================================================
