---------------------------- MODULE FlowLoopProofs ----------------------------
(***************************************************************************)
(* Theorems about the sequential flow and the loop, for any agents, order, *)
(* limits and number of tools.                                             *)
(***************************************************************************)
EXTENDS FlowLoop, AgentProofs

\* Every step of the loop keeps the invariant of messages and tools.
LEMMA LoopToolStep ==
  ASSUME ToolInv, at \in DOMAIN Order, [Next]_vars
  PROVE  ToolInv'
  <1>1. Current \in Agents
    BY LoopAssumption DEF Current
  <1>2. CASE CallAgent
    BY <1>1, <1>2, HeadStep DEF CallAgent
  <1>3. CASE Work
    BY <1>1, <1>3, AgentStep DEF Work
  <1>4. CASE Consume
    <2>1. PICK more \in Wants(Offer(Current)) : Answer(Current, more)
      BY <1>4 DEF Consume
    <2>2. more \in BOOLEAN
      BY DEF Wants
    <2> QED
      BY <1>1, <2>1, <2>2, AnswerStep
  <1>5. CASE NextAgent \/ CheckRound
    BY <1>5, FlowStep DEF NextAgent, CheckRound
  <1>6. CASE Done \/ UNCHANGED vars
    BY <1>6, FlowStep DEF Done, vars
  <1> QED
    BY <1>2, <1>3, <1>4, <1>5, <1>6 DEF Next

\* The index of the current agent is one of the sub-agents.
LEMMA IndexStep ==
  ASSUME at \in DOMAIN Order, [Next]_vars
  PROVE  at' \in DOMAIN Order
  <1>1. Len(Order) \in Nat /\ DOMAIN Order = 1 .. Len(Order) /\ Len(Order) > 0
    BY LoopAssumption
  <1>2. CASE NextAgent
    BY <1>1, <1>2 DEF NextAgent
  <1>3. CASE CheckRound
    <2>1. at' = at \/ at' = 1
      BY <1>3 DEF CheckRound, NextRound
    <2> QED
      BY <1>1, <2>1
  <1>4. CASE CallAgent \/ Work \/ Consume \/ Done \/ UNCHANGED vars
    BY <1>4 DEF CallAgent, Work, Consume, Done, vars, flowVars
  <1> QED
    BY <1>2, <1>3, <1>4 DEF Next

\* In a sequential flow or a loop a tool message is yielded with the last action
\* that one of its tools set, in whatever order the tools return and store.
THEOREM ActionsCurrentHolds == Spec => []ActionsCurrent
  <1> DEFINE Inv == ToolInv /\ at \in DOMAIN Order
  <1>1. Init => Inv
    BY ToolInvInit, LoopAssumption DEF Init
  <1>2. Inv /\ [Next]_vars => Inv'
    BY LoopToolStep, IndexStep
  <1>3. Inv => ActionsCurrent
    BY DEF ToolInv, ExitOK, ActionsCurrent
  <1> HIDE DEF Inv
  <1> QED
    BY <1>1, <1>2, <1>3, PTL DEF Spec

-----------------------------------------------------------------------------
\* The index of a sub-agent is its place in the order.
LEMMA IndexFacts ==
  /\ \A k \in DOMAIN Order : Order[k] \in Agents /\ Index(Order[k]) = k
  /\ \A a \in Agents : Index(a) \in DOMAIN Order
  /\ DOMAIN Order = 1 .. Len(Order) /\ Len(Order) \in Nat /\ 1 \in DOMAIN Order
  <1>1. DOMAIN Order = 1 .. Len(Order) /\ Len(Order) \in Nat /\ 1 \in DOMAIN Order
    BY LoopAssumption
  <1>2. \A k \in DOMAIN Order : Order[k] \in Agents
    BY LoopAssumption
  <1>3. \A a \in Agents : Index(a) \in DOMAIN Order /\ Order[Index(a)] = a
    BY LoopAssumption DEF Index
  <1>4. \A k \in DOMAIN Order : Index(Order[k]) = k
    BY <1>2, <1>3, LoopAssumption
  <1> QED
    BY <1>1, <1>2, <1>3, <1>4

\* At most the current agent runs, and only while the flow ranges over it.
LoopShape ==
  /\ at \in DOMAIN Order /\ phase \in {"call", "range", "check", "returned"}
  /\ phase # "returned" => outcome = "none"
  /\ \A b \in Agents : b # Current \/ phase # "range" => pc[b] \in {"off", "done"}

\* Every step of the loop keeps this.
LEMMA LoopShapeStep ==
  ASSUME LoopShape, ToolInv, AuthorInv, [Next]_vars
  PROVE  LoopShape'
  <1>0. at \in DOMAIN Order /\ at' \in DOMAIN Order /\ Current \in Agents
    BY IndexStep, IndexFacts DEF LoopShape, Current
  <1>1. CASE CallAgent
    <2>1. /\ pc' = [pc EXCEPT ![Current] = "prepare"] /\ phase' = "range" /\ at' = at
          /\ outcome' = outcome /\ phase = "call"
      BY <1>1 DEF CallAgent, Start, Goto
    <2> QED
      BY <1>0, <2>1 DEF LoopShape, Current, ToolInv, ToolTypes
  <1>2. CASE Work
    <2>1. /\ Agent(Current) /\ phase' = phase /\ phase = "range" /\ at' = at /\ outcome' = outcome
      BY <1>2 DEF Work, flowVars
    <2>2. \A b \in Agents \ {Current} : pc'[b] = pc[b]
      BY <1>0, <2>1, AgentEffect
    <2> QED
      BY <1>0, <2>1, <2>2 DEF LoopShape, Current
  <1>3. CASE Consume
    <2>1. PICK more \in Wants(Offer(Current)) :
            /\ Answer(Current, more)
            /\ IF more THEN UNCHANGED <<phase, outcome>> ELSE phase' = "returned"
      BY <1>3 DEF Consume, Finish
    <2>2. phase = "range" /\ at' = at
      BY <1>3 DEF Consume
    <2>3. \E q : pc' = [pc EXCEPT ![Current] = q] /\ (~ more => q = "done")
      BY <2>1 DEF Answer, End, Goto
    <2>4. more \in BOOLEAN
      BY DEF Wants
    <2> QED
      BY <1>0, <2>1, <2>2, <2>3, <2>4 DEF LoopShape, Current, ToolInv, ToolTypes
  <1>4. CASE NextAgent
    <2>1. /\ pc' = pc /\ outcome' = outcome /\ phase = "range" /\ phase' \in {"call", "check"}
          /\ pc[Current] = "done"
      BY <1>4 DEF NextAgent, agentVars
    <2> QED
      BY <1>0, <2>1 DEF LoopShape
  <1>5. CASE CheckRound
    <2>1. /\ pc' = pc /\ phase = "check"
          /\ phase' = "returned" \/ (phase' = "call" /\ outcome' = outcome)
      BY <1>5 DEF CheckRound, NextRound, Finish, agentVars
    <2> QED
      BY <1>0, <2>1 DEF LoopShape
  <1>6. CASE Done \/ UNCHANGED vars
    BY <1>6 DEF Done, vars, flowVars, agentVars, LoopShape, Current
  <1> QED
    BY <1>1, <1>2, <1>3, <1>4, <1>5, <1>6 DEF Next

\* Every step of the loop keeps the invariant of the user message.
LEMMA FlowUserSteps ==
  ASSUME UserInv, ToolInv, at \in DOMAIN Order, [Next]_vars
  PROVE  UserInv'
  <1>1. Current \in Agents
    BY LoopAssumption DEF Current
  <1>2. CASE CallAgent
    BY <1>1, <1>2, EarlyUserStep DEF CallAgent
  <1>3. CASE Work
    BY <1>1, <1>3, AgentUserStep DEF Work
  <1>4. CASE Consume
    <2>1. PICK more \in Wants(Offer(Current)) : Answer(Current, more)
      BY <1>4 DEF Consume
    <2>2. more \in BOOLEAN
      BY DEF Wants
    <2> QED
      BY <1>1, <2>1, <2>2, AnswerUserStep
  <1>5. CASE NextAgent \/ CheckRound
    BY <1>5, FlowUserStep DEF NextAgent, CheckRound
  <1>6. CASE Done \/ UNCHANGED vars
    BY <1>6, FlowUserStep DEF Done, vars
  <1> QED
    BY <1>2, <1>3, <1>4, <1>5, <1>6 DEF Next

\* And the facts about the messages of the agents.
LEMMA FlowAuthorSteps ==
  ASSUME AuthorInv, ToolInv, at \in DOMAIN Order, [Next]_vars
  PROVE  AuthorInv'
  <1>1. Current \in Agents
    BY LoopAssumption DEF Current
  <1>2. CASE CallAgent
    BY <1>1, <1>2, AuthorStep DEF CallAgent
  <1>3. CASE Work
    BY <1>1, <1>3, AuthorStep DEF Work
  <1>4. CASE Consume
    <2>1. PICK more \in Wants(Offer(Current)) : Answer(Current, more)
      BY <1>4 DEF Consume
    <2>2. more \in BOOLEAN
      BY DEF Wants
    <2> QED
      BY <1>1, <2>1, <2>2, AuthorAnswer
  <1>5. CASE NextAgent \/ CheckRound
    BY <1>5, AuthorFlow DEF NextAgent, CheckRound
  <1>6. CASE Done \/ UNCHANGED vars
    BY <1>6, AuthorFlow DEF Done, vars
  <1> QED
    BY <1>2, <1>3, <1>4, <1>5, <1>6 DEF Next

\* What the proofs about the loop start from.
LoopInv == ToolInv /\ UserInv /\ AuthorInv /\ LoopShape

\* LoopInv is an invariant.
LEMMA LoopInvariance == (Init => LoopInv) /\ (LoopInv /\ [Next]_vars => LoopInv')
  <1>1. ASSUME Init PROVE LoopInv
    <2>1. AgentInit /\ at = 1 /\ phase = "call" /\ outcome = "none"
      BY <1>1 DEF Init
    <2>2. \A b \in Agents : pc[b] = "off"
      BY <2>1 DEF AgentInit
    <2>3. LoopShape
      BY <2>1, <2>2, IndexFacts DEF LoopShape
    <2> QED
      BY <2>1, <2>3, ToolInvInit, UserInvInit, AuthorInit DEF LoopInv
  <1>2. ASSUME LoopInv, [Next]_vars PROVE LoopInv'
    <2>1. ToolInv /\ UserInv /\ AuthorInv /\ LoopShape /\ at \in DOMAIN Order
      BY <1>2 DEF LoopInv, LoopShape
    <2> QED
      BY <1>2, <2>1, LoopToolStep, FlowUserSteps, FlowAuthorSteps, LoopShapeStep DEF LoopInv
  <1> QED
    BY <1>1, <1>2

-----------------------------------------------------------------------------
\* The places of the session's messages that ask to leave the loop.
Asked == {i \in DOMAIN history : history[i].exit # "no"}

\* The current agent may still append to the session.
Active == phase = "call" \/ (phase = "range" /\ pc[Current] # "done")

\* The loop has taken a request that is not yet in the session.
Pending == pc[Current] = "persist" /\ msg[Current].exit # "no"

\* The loop remembers the last request.
Latest ==
  IF exit = "no" THEN Asked = {}
  ELSE \E i \in Asked : (\A j \in Asked : j <= i) /\ history[i].exit = exit

\* What follows a request comes from a later agent.
AskedOrder ==
  \A i \in Asked : \A j \in i + 1 .. Len(history) :
    Index(history[j].by) > Index(history[i].by)

\* Requests come from agents of this round that have ended.
AskedBehind ==
  \A i \in Asked : /\ history[i].by \in Agents /\ Index(history[i].by) <= at
                   /\ Active => Index(history[i].by) < at

\* The user message was appended before any request.
AskedLate == (Asked # {} => committed \/ resume) /\ (pc[Current] = "append" => Asked = {})

\* The inductive invariant of the exit requests of a loop without condition.
ExitInv ==
  /\ AskedOrder /\ AskedBehind /\ AskedLate
  /\ IF Pending THEN exit = msg[Current].exit ELSE Latest
  /\ outcome \in {"ok", "escalated"} => (outcome = "escalated" <=> exit = "escalate")

\* A step that leaves the session and the memory of the loop alone.
LEMMA ExitQuiet ==
  ASSUME ExitInv, ~ Pending, ~ Pending', history' = history, exit' = exit,
         at' = at, Active' => Active,
         committed \/ resume => committed' \/ resume',
         pc'[Current'] = "append" => Asked = {},
         outcome' \in {"ok", "escalated"} => (outcome' = "escalated" <=> exit' = "escalate")
  PROVE  ExitInv'
  <1>1. Asked' = Asked
    BY DEF Asked
  <1>2. AskedOrder'
    BY <1>1 DEF ExitInv, AskedOrder
  <1>3. AskedBehind'
    BY <1>1 DEF ExitInv, AskedBehind
  <1>4. AskedLate'
    BY <1>1 DEF ExitInv, AskedLate
  <1>5. Latest'
    BY <1>1 DEF ExitInv, Latest
  <1> QED
    BY <1>2, <1>3, <1>4, <1>5 DEF ExitInv

\* The current agent starts.
LEMMA ExitCall ==
  ASSUME LoopInv, ExitInv, CallAgent
  PROVE  ExitInv'
  <1>1. /\ pc' = [pc EXCEPT ![Current] = "prepare"] /\ msg' = msg /\ at' = at /\ exit' = exit
        /\ history' = history /\ committed' = committed /\ resume' = resume
        /\ outcome' = outcome /\ phase = "call" /\ phase' = "range"
        /\ pc[Current] \in {"off", "done"}
    BY DEF CallAgent, Start, Goto, sessionVars, optionVars
  <1>2. Current' = Current /\ pc'[Current] = "prepare"
    BY <1>1, IndexFacts DEF Current, LoopInv, LoopShape, ToolInv, ToolTypes
  <1>3. ~ Pending /\ ~ Pending' /\ Active
    BY <1>1, <1>2 DEF Pending, Active
  <1> QED
    BY <1>1, <1>2, <1>3, ExitQuiet DEF ExitInv

\* The current agent appends its message.
LEMMA ExitPersist ==
  ASSUME LoopInv, ExitInv, phase = "range", at' = at, exit' = exit, phase' = phase, outcome' = outcome,
         history' = Append(history, msg[Current]), committed' = committed, resume' = resume,
         pc[Current] = "persist", pc'[Current] \in {"request", "done"},
         msg[Current].exit # "no" => pc'[Current] = "done"
  PROVE  ExitInv'
  <1> DEFINE a == Current m == msg[Current] n == Len(history) + 1
  <1>0. /\ a \in Agents /\ Current' = a /\ Index(a) = at /\ at \in DOMAIN Order
        /\ \A b \in Agents : Index(b) \in Nat
    BY IndexFacts DEF Current, LoopInv, LoopShape
  <1>1. /\ history \in Seq(Messages) /\ m \in Messages /\ m.by = a
        /\ committed \/ resume
    BY <1>0 DEF LoopInv, ToolInv, ToolTypes, AuthorInv, Authored, UserInv, OrderOK, Past
  <1>2. /\ DOMAIN history = 1 .. Len(history) /\ DOMAIN history' = 1 .. n
        /\ Len(history) \in Nat /\ Len(history') = n
        /\ history'[n] = m /\ \A i \in DOMAIN history : history'[i] = history[i]
    BY <1>1
  <1>3. Active
    BY DEF Active
  <1>4. \A i \in Asked : i \in 1 .. Len(history) /\ history'[i] = history[i]
    BY <1>2 DEF Asked
  <1>5. Asked' = Asked \cup (IF m.exit # "no" THEN {n} ELSE {})
    BY <1>2 DEF Asked
  <1> HIDE DEF a, m, n
  <1>6. AskedOrder'
    <2> SUFFICES ASSUME NEW i \in Asked', NEW j \in i + 1 .. n
                 PROVE  Index(history'[j].by) > Index(history'[i].by)
      BY <1>2 DEF AskedOrder
    <2>0. i \in 1 .. n
      BY <1>2 DEF Asked
    <2>1. CASE i = n
      BY <1>2, <2>1 DEF n
    <2>2. CASE i # n
      <3>1. i \in Asked /\ history'[i] = history[i]
        BY <1>4, <1>5, <2>2
      <3>2. CASE j = n
        <4>1. Index(history[i].by) < at
          BY <1>3, <3>1 DEF ExitInv, AskedBehind
        <4>2. Index(history'[j].by) = at /\ Index(history[i].by) \in Nat /\ at \in Nat
          BY <1>0, <1>1, <1>2, <3>1, <3>2 DEF ExitInv, AskedBehind
        <4> QED
          BY <3>1, <4>1, <4>2
      <3>3. CASE j # n
        <4>1. j \in i + 1 .. Len(history) /\ history'[j] = history[j]
          BY <1>2, <2>0, <3>3 DEF n
        <4> QED
          BY <3>1, <4>1 DEF ExitInv, AskedOrder
      <3> QED
        BY <3>2, <3>3
    <2> QED
      BY <2>1, <2>2
  <1>7. AskedBehind'
    <2> SUFFICES ASSUME NEW i \in Asked'
                 PROVE  /\ history'[i].by \in Agents /\ Index(history'[i].by) <= at
                        /\ Active' => Index(history'[i].by) < at
      BY DEF AskedBehind
    <2>1. CASE i \in Asked
      BY <1>3, <1>4, <2>1 DEF ExitInv, AskedBehind
    <2>2. CASE i \notin Asked
      <3>1. i = n /\ m.exit # "no"
        BY <1>5, <2>2
      <3>2. history'[i].by = a /\ ~ Active'
        BY <1>0, <1>1, <1>2, <3>1 DEF Active, a, m
      <3> QED
        BY <1>0, <3>2
    <2> QED
      BY <2>1, <2>2
  <1>8. AskedLate' /\ ~ Pending'
    BY <1>0, <1>1 DEF AskedLate, Pending, a
  <1>9. Latest'
    <2>1. CASE m.exit # "no"
      <3>1. exit = m.exit
        BY <2>1 DEF ExitInv, Pending, m
      <3>2. n \in Asked' /\ \A j \in Asked' : j <= n
        BY <1>2, <1>5, <2>1 DEF Asked
      <3> QED
        BY <1>2, <2>1, <3>1, <3>2 DEF Latest
    <2>2. CASE m.exit = "no"
      <3>1. Latest
        BY <2>2 DEF ExitInv, Pending, m
      <3>2. Asked' = Asked
        BY <1>5, <2>2
      <3> QED
        BY <1>4, <3>1, <3>2 DEF Latest
    <2> QED
      BY <2>1, <2>2
  <1> QED
    BY <1>6, <1>7, <1>8, <1>9 DEF ExitInv

\* The current agent works.
LEMMA ExitWork ==
  ASSUME LoopInv, ExitInv, Work
  PROVE  ExitInv'
  <1> DEFINE a == Current
  <1>1. /\ phase = "range" /\ Agent(a) /\ at' = at /\ exit' = exit /\ phase' = phase
        /\ outcome' = outcome
    BY DEF Work, flowVars
  <1>2. a \in Agents /\ Current' = a
    BY <1>1, IndexFacts DEF Current, LoopInv, LoopShape
  <1>3. /\ resume' = resume /\ pc[a] \notin {"off", "done"}
        /\ \/ /\ history' = history /\ pc[a] # "persist" /\ pc'[a] # "done"
              /\ pc'[a] = "persist" => msg'[a].exit = "no"
              /\ pc'[a] = "append" => ~ committed /\ ~ resume
              /\ committed' = committed \/ (committed' = TRUE)
           \/ /\ pc[a] = "append" /\ pc'[a] = "request"
              /\ history' = Append(history, User) /\ committed' = committed
           \/ /\ pc[a] = "persist" /\ history' = Append(history, msg[a]) /\ committed' = committed
              /\ pc'[a] \in {"request", "done"} /\ (msg[a].exit # "no" => pc'[a] = "done")
    BY <1>1, <1>2, AgentEffect DEF LoopInv
  <1> HIDE DEF a
  <1>4. CASE history' = history /\ pc[a] # "persist"
    <2>1. ~ Pending /\ ~ Pending' /\ Active
      BY <1>1, <1>2, <1>3, <1>4 DEF Pending, Active, a
    <2>2. pc'[Current'] = "append" => Asked = {}
      BY <1>2, <1>3, <1>4 DEF ExitInv, AskedLate, a
    <2> QED
      BY <1>1, <1>3, <1>4, <2>1, <2>2, ExitQuiet DEF ExitInv
  <1>5. CASE pc[a] = "append" /\ history' = Append(history, User)
    <2>1. Asked = {} /\ history \in Seq(Messages) /\ User.exit = "no" /\ ~ Pending
      BY <1>5 DEF ExitInv, AskedLate, LoopInv, ToolInv, ToolTypes, User, Message, Pending, a
    <2>2. Asked' = {}
      BY <1>5, <2>1 DEF Asked
    <2>3. pc'[a] = "request"
      BY <1>3, <1>5
    <2>4. AskedOrder' /\ AskedBehind' /\ AskedLate' /\ ~ Pending'
      BY <1>2, <2>2, <2>3 DEF AskedOrder, AskedBehind, AskedLate, Pending
    <2>5. Latest'
      BY <1>1, <2>1, <2>2 DEF ExitInv, Latest
    <2> QED
      BY <1>1, <2>4, <2>5 DEF ExitInv
  <1>6. CASE pc[a] = "persist"
    <2>1. /\ history' = Append(history, msg[a]) /\ committed' = committed
          /\ pc'[a] \in {"request", "done"} /\ (msg[a].exit # "no" => pc'[a] = "done")
      BY <1>3, <1>6
    <2> QED
      BY <1>1, <1>2, <1>3, <1>6, <2>1, ExitPersist DEF a
  <1> QED
    BY <1>3, <1>4, <1>5, <1>6

\* The loop takes a message or an error of the current agent.
LEMMA ExitConsume ==
  ASSUME LoopInv, ExitInv, flow = "loop", Consume
  PROVE  ExitInv'
  <1> DEFINE a == Current
  <1>1. PICK more \in Wants(Offer(a)) :
          /\ Answer(a, more)
          /\ IF more
             THEN /\ exit' = IF flow # "sequential" /\ msg[a].exit # "no" THEN msg[a].exit ELSE exit
                  /\ UNCHANGED <<phase, outcome>>
             ELSE /\ phase' = "returned" /\ outcome' \in {"error", "stopped"} /\ UNCHANGED exit
    BY DEF Consume, Finish
  <1>2. /\ phase = "range" /\ pc[a] = "yield" /\ at' = at /\ more \in BOOLEAN
        /\ history' = history /\ committed' = committed /\ resume' = resume
    BY <1>1 DEF Consume, Wants, Answer, sessionVars, optionVars
  <1>3. a \in Agents /\ Current' = a /\ pc \in [Agents -> Places] /\ Authored(a)
    BY <1>2, IndexFacts DEF Current, LoopInv, LoopShape, ToolInv, ToolTypes, AuthorInv
  <1>4. ~ Pending /\ Active
    BY <1>2 DEF Pending, Active
  <1>5. CASE ~ more
    <2>1. pc'[a] = "done" /\ exit' = exit /\ outcome' \in {"error", "stopped"}
      BY <1>1, <1>3, <1>5 DEF Answer, End, Goto
    <2>2. ~ Pending' /\ pc'[Current'] # "append"
      BY <1>3, <2>1 DEF Pending
    <2> HIDE DEF a
    <2> QED
      BY <1>2, <1>4, <2>1, <2>2, ExitQuiet
  <1>6. CASE more
    <2>1. a \notin failing
      BY <1>1, <1>6 DEF Wants, Offer
    <2>2. msg' = msg /\ pc'[a] = After(a)
      BY <1>1, <1>3, <1>6, <2>1 DEF Answer, Goto
    <2>3. CASE msg[a].exit = "no"
      <3>1. ~ Pending' /\ pc'[Current'] # "append" /\ exit' = exit /\ outcome' = outcome
        BY <1>1, <1>3, <1>6, <2>2, <2>3 DEF Pending, After
      <3> HIDE DEF a
      <3> QED
        BY <1>2, <1>4, <3>1, ExitQuiet DEF ExitInv
    <2>4. CASE msg[a].exit # "no"
      <3>1. msg[a].kind = "tool"
        BY <1>3, <2>4 DEF Authored
      <3>2. pc'[a] = "persist" /\ exit' = msg[a].exit /\ outcome' = outcome /\ phase' = phase
        BY <1>1, <1>6, <2>2, <2>4, <3>1 DEF After
      <3>3. Pending' /\ exit' = msg'[Current'].exit
        BY <1>3, <2>2, <2>4, <3>2 DEF Pending
      <3>4. Asked' = Asked /\ (Active' <=> Active)
        BY <1>2, <1>3, <3>2 DEF Asked, Active
      <3>5. AskedOrder'
        BY <1>2, <3>4 DEF ExitInv, AskedOrder
      <3>6. AskedBehind'
        BY <1>2, <3>4 DEF ExitInv, AskedBehind
      <3>7. AskedLate'
        BY <1>2, <1>3, <3>2, <3>4 DEF ExitInv, AskedLate
      <3>8. outcome' = "none"
        BY <1>2, <3>2 DEF LoopInv, LoopShape
      <3> QED
        BY <3>3, <3>5, <3>6, <3>7, <3>8 DEF ExitInv
    <2> QED
      BY <2>3, <2>4
  <1> QED
    BY <1>2, <1>5, <1>6

\* The next agent, and the end of a round.
LEMMA ExitFlow ==
  ASSUME LoopInv, ExitInv, flow = "loop", NextAgent \/ CheckRound
  PROVE  ExitInv'
  <1>1. /\ pc' = pc /\ msg' = msg /\ history' = history /\ committed' = committed /\ resume' = resume
    BY DEF NextAgent, CheckRound, agentVars, sessionVars, optionVars
  <1>2. at \in DOMAIN Order /\ at' \in DOMAIN Order /\ Current \in Agents /\ Current' \in Agents
    BY IndexStep, IndexFacts DEF LoopInv, LoopShape, Current, Next
  <1>3. pc[Current] \in {"off", "done"} /\ \A b \in Agents : pc[b] \in {"off", "done"}
    BY <1>2 DEF LoopInv, LoopShape, NextAgent, CheckRound
  <1>4. ~ Pending /\ ~ Pending' /\ pc'[Current'] # "append"
    BY <1>1, <1>2, <1>3 DEF Pending
  <1>5. Asked' = Asked
    BY <1>1 DEF Asked
  <1>6. AskedOrder'
    BY <1>1, <1>5 DEF ExitInv, AskedOrder
  <1>7. AskedLate'
    BY <1>1, <1>4, <1>5 DEF ExitInv, AskedLate
  <1>8. CASE NextAgent
    <2>1. /\ exit' = exit /\ outcome' = outcome /\ phase = "range"
          /\ \/ at' = at + 1
             \/ phase' = "check" /\ at' = at
      BY <1>8 DEF NextAgent
    <2>2. AskedBehind'
      <3>1. \A i \in Asked : history[i].by \in Agents /\ Index(history[i].by) <= at
        BY DEF ExitInv, AskedBehind
      <3>2. \A i \in Asked : Index(history[i].by) \in Nat
        BY <3>1, IndexFacts
      <3>3. at \in Nat
        BY <1>2, IndexFacts
      <3>4. at' = at => ~ Active'
        BY <2>1, <3>3 DEF Active
      <3> QED
        BY <1>1, <1>5, <2>1, <3>1, <3>2, <3>3, <3>4 DEF AskedBehind
    <2>3. Latest'
      BY <1>1, <1>4, <1>5, <2>1 DEF ExitInv, Latest
    <2> QED
      BY <1>4, <1>6, <1>7, <2>1, <2>2, <2>3 DEF ExitInv
  <1>9. CASE CheckRound /\ exit = "no"
    <2>1. Asked = {}
      BY <1>4, <1>9 DEF ExitInv, Latest
    <2>2. exit' = "no" /\ outcome' \in {"ok", outcome} /\ outcome = "none"
      BY <1>9 DEF CheckRound, NextRound, Finish, LoopInv, LoopShape
    <2>3. AskedBehind' /\ Latest'
      BY <1>5, <2>1, <2>2 DEF AskedBehind, Latest
    <2> QED
      BY <1>4, <1>6, <1>7, <2>2, <2>3 DEF ExitInv
  <1>10. CASE CheckRound /\ exit # "no"
    <2>1. /\ exit' = exit /\ at' = at /\ phase' = "returned"
          /\ outcome' = IF exit = "escalate" THEN "escalated" ELSE "ok"
      BY <1>10 DEF CheckRound, Finish
    <2>2. AskedBehind'
      BY <1>1, <1>5, <2>1 DEF ExitInv, AskedBehind, Active
    <2>3. Latest'
      BY <1>1, <1>4, <1>5, <2>1 DEF ExitInv, Latest
    <2> QED
      BY <1>4, <1>6, <1>7, <2>1, <2>2, <2>3 DEF ExitInv
  <1> QED
    BY <1>8, <1>9, <1>10

\* The invariant gives the property: the last request is the remembered one.
LEMMA ExitFollows ==
  ASSUME LoopInv, flow = "loop" => ExitInv
  PROVE  ExitObeyed
  <1> DEFINE requests == {i \in DOMAIN history : history[i].exit # "no"}
             last     == CHOOSE i \in requests : \A j \in requests : j <= i
  <1> SUFFICES ASSUME flow = "loop"
               PROVE  /\ \A i \in requests : \A j \in i + 1 .. Len(history) :
                           Index(history[j].by) > Index(history[i].by)
                      /\ outcome \in {"ok", "escalated"} =>
                           (outcome = "escalated") <=>
                             (requests # {} /\ history[last].exit = "escalate")
    BY DEF ExitObeyed
  <1>1. ExitInv
    OBVIOUS
  <1>2. requests = Asked
    BY DEF Asked
  <1>3. \A i \in requests : \A j \in i + 1 .. Len(history) :
          Index(history[j].by) > Index(history[i].by)
    BY <1>1, <1>2 DEF ExitInv, AskedOrder
  <1>4. ASSUME outcome \in {"ok", "escalated"}
        PROVE  (outcome = "escalated") <=> (requests # {} /\ history[last].exit = "escalate")
    <2>1. phase = "returned" /\ Current \in Agents
      BY <1>4, IndexFacts DEF LoopInv, LoopShape, Current
    <2>2. ~ Pending
      BY <2>1 DEF LoopInv, LoopShape, Pending
    <2>3. Latest /\ (outcome = "escalated" <=> exit = "escalate")
      BY <1>1, <1>4, <2>2 DEF ExitInv
    <2>4. CASE exit = "no"
      BY <1>2, <2>3, <2>4 DEF Latest
    <2>5. CASE exit # "no"
      <3>1. PICK i \in Asked : (\A j \in Asked : j <= i) /\ history[i].exit = exit
        BY <2>3, <2>5 DEF Latest
      <3>2. last \in requests /\ \A j \in requests : j <= last
        BY <1>2, <3>1
      <3>3. Asked \subseteq Nat
        BY DEF LoopInv, ToolInv, ToolTypes, Asked
      <3>4. last = i
        <4> HIDE DEF last
        <4>1. last \in Asked /\ last <= i /\ i <= last
          BY <1>2, <3>1, <3>2
        <4> QED
          BY <3>1, <3>3, <4>1
      <3> QED
        BY <1>2, <2>3, <3>1, <3>4
    <2> QED
      BY <2>4, <2>5
  <1> QED
    BY <1>3, <1>4

\* In a loop without a condition an exit request is obeyed: only later agents of
\* its round add to the session after it, and the loop reports an escalation
\* exactly if the last request asked for one, whatever the agents and tools do.
THEOREM ExitObeyedHolds == Spec => []ExitObeyed
  <1> DEFINE Inv == LoopInv /\ (flow = "loop" => ExitInv)
  <1>1. Init => Inv
    <2> SUFFICES ASSUME Init PROVE Inv
      OBVIOUS
    <2>1. LoopInv /\ Current \in Agents
      BY LoopInvariance, IndexFacts DEF LoopInv, LoopShape, Current
    <2>2. /\ \A b \in Agents : pc[b] = "off"
          /\ history = <<>> \/ history = <<User>> \/ history = <<User, Earlier>>
          /\ exit = "no" /\ outcome = "none"
      BY DEF Init, AgentInit
    <2>3. Asked = {}
      BY <2>2 DEF Asked, User, Earlier, Message
    <2>4. ExitInv
      BY <2>1, <2>2, <2>3 DEF ExitInv, AskedOrder, AskedBehind, AskedLate, Latest, Pending
    <2> QED
      BY <2>1, <2>4
  <1>2. Inv /\ [Next]_vars => Inv'
    <2> SUFFICES ASSUME Inv, [Next]_vars PROVE Inv'
      OBVIOUS
    <2>1. LoopInv'
      BY LoopInvariance
    <2>2. flow' = flow
      BY DEF Next, CallAgent, Work, Consume, NextAgent, CheckRound, Done, vars, flowVars
    <2>3. ASSUME flow = "loop" PROVE ExitInv'
      <3>1. CASE Done \/ UNCHANGED vars
        <4>1. UNCHANGED <<history, pc, msg, committed, resume, at, phase, exit, outcome>>
          BY <3>1 DEF Done, vars, flowVars, agentVars, sessionVars, optionVars
        <4> QED
          BY <2>3, <4>1 DEF ExitInv, AskedOrder, AskedBehind, AskedLate, Latest, Pending, Asked, Active, Current
      <3> QED
        BY <2>3, <3>1, ExitCall, ExitWork, ExitConsume, ExitFlow DEF Next
    <2> QED
      BY <2>1, <2>2, <2>3
  <1>3. Inv => ExitObeyed
    BY ExitFollows
  <1> HIDE DEF Inv
  <1> QED
    BY <1>1, <1>2, <1>3, PTL DEF Spec

-----------------------------------------------------------------------------
\* The next message of the consumer that the session lacks is m.
NextIs(m) ==
  \A i \in DOMAIN seen :
    seen[i].by \in Agents /\ 0 + Count(Agents, seen, i) = Number(Agents, history) + 1 => seen[i] = m

\* How far the consumer is ahead of the session.
Distance ==
  IF Ahead(Current)
  THEN Number(Agents, seen) = Number(Agents, history) + 1 /\ NextIs(msg[Current])
  ELSE \/ Number(Agents, seen) = Number(Agents, history)
       \/ Number(Agents, seen) = Number(Agents, history) + 1 /\ outcome = "stopped"

\* The inductive invariant of what the session holds and the consumer has seen.
SavedInv ==
  /\ seen \in Seq(Messages) /\ AgreeFrom(Agents, 0, seen, history) /\ Distance
  /\ outcome \notin {"stopped", "error"} => outputs = Finals(history) \cup Finishing

\* A step that touches neither the session nor what the consumer has seen.
LEMMA SavedQuiet ==
  ASSUME SavedInv, history' = history, seen' = seen, ~ Ahead(Current), ~ Ahead(Current)',
         outcome = "stopped" => outcome' = "stopped",
         outcome' \notin {"stopped", "error"} =>
           outcome \notin {"stopped", "error"} /\ outputs' = outputs /\ Finishing' = Finishing
  PROVE  SavedInv'
  <1>1. Distance'
    BY DEF SavedInv, Distance
  <1> QED
    BY <1>1 DEF SavedInv

\* The current agent works.
LEMMA SavedWork ==
  ASSUME LoopInv, SavedInv, Work
  PROVE  SavedInv'
  <1> DEFINE a == Current
  <1>1. /\ phase = "range" /\ Agent(a) /\ at' = at /\ seen' = seen /\ outcome' = outcome
    BY DEF Work, flowVars
  <1>2. a \in Agents /\ Current' = a /\ outcome = "none"
    BY <1>1, IndexFacts DEF Current, LoopInv, LoopShape
  <1>3. ToolInv /\ AuthorInv /\ history \in Seq(Messages) /\ seen \in Seq(Messages)
    BY DEF LoopInv, ToolInv, ToolTypes, SavedInv
  <1>4. outputs' = (Finals(history) \cup Finishing)'
    BY <1>1, <1>2, <1>3, OutputEffect DEF SavedInv
  <1>5. \/ history' = history /\ (Ahead(a)' <=> Ahead(a)) /\ (Ahead(a) => msg'[a] = msg[a])
        \/ history' = Append(history, User) /\ ~ Ahead(a) /\ ~ Ahead(a)'
        \/ /\ history' = Append(history, msg[a]) /\ Ahead(a) /\ ~ Ahead(a)'
           /\ msg[a].by = a /\ msg[a] \in Messages
    BY <1>1, <1>2, <1>3, AheadEffect
  <1>6. Ahead(Current)' <=> Ahead(a)'
    BY <1>2 DEF Ahead
  <1> HIDE DEF a
  <1>7. CASE history' = history /\ (Ahead(a)' <=> Ahead(a)) /\ (Ahead(a) => msg'[a] = msg[a])
    <2>1. Distance'
      BY <1>1, <1>2, <1>6, <1>7 DEF SavedInv, Distance, NextIs, a
    <2> QED
      BY <1>1, <1>4, <1>7, <2>1 DEF SavedInv
  <1>8. CASE history' = Append(history, User) /\ ~ Ahead(a) /\ ~ Ahead(a)'
    <2>1. Number(Agents, history') = Number(Agents, history)
      BY <1>3, <1>8, Authors, NumberAppend
    <2>2. AgreeFrom(Agents, 0, seen, history')
      BY <1>3, <1>8, Authors, AgreeSave DEF SavedInv
    <2>3. Distance'
      BY <1>1, <1>6, <1>8, <2>1 DEF SavedInv, Distance, a
    <2> QED
      BY <1>1, <1>4, <2>2, <2>3 DEF SavedInv
  <1>9. CASE /\ history' = Append(history, msg[a]) /\ Ahead(a) /\ ~ Ahead(a)'
             /\ msg[a].by = a /\ msg[a] \in Messages
    <2>1. Number(Agents, history') = Number(Agents, history) + 1
      BY <1>2, <1>3, <1>9, NumberAppend
    <2>2. Number(Agents, seen) = Number(Agents, history) + 1 /\ NextIs(msg[a])
      BY <1>9 DEF SavedInv, Distance, a
    <2>3. AgreeFrom(Agents, 0, seen, history')
      BY <1>3, <1>9, <2>2, AgreeSave DEF SavedInv, NextIs
    <2>4. Distance'
      BY <1>1, <1>6, <1>9, <2>1, <2>2 DEF Distance
    <2> QED
      BY <1>1, <1>4, <2>3, <2>4 DEF SavedInv
  <1> QED
    BY <1>5, <1>7, <1>8, <1>9

\* The consumer takes a message of the current agent.
LEMMA SavedTake ==
  ASSUME LoopInv, SavedInv, NEW m \in Messages, m.by \in Agents, history' = history,
         seen' = Append(seen, m), ~ Ahead(Current), outcome = "none",
         IF Ahead(Current)' THEN msg'[Current'] = m ELSE outcome' = "stopped",
         outcome' # "stopped" => outcome' = "none" /\ outputs' = outputs /\ Finishing' = Finishing
  PROVE  SavedInv'
  <1>1. history \in Seq(Messages) /\ seen \in Seq(Messages)
    BY DEF LoopInv, ToolInv, ToolTypes, SavedInv
  <1>2. Number(Agents, seen) = Number(Agents, history) /\ Number(Agents, seen) \in Nat
    BY <1>1, NumberAppend DEF SavedInv, Distance
  <1>3. Number(Agents, seen') = Number(Agents, history) + 1
    BY <1>1, <1>2, NumberAppend
  <1>4. AgreeFrom(Agents, 0, seen', history)
    BY <1>1, <1>2, AgreeTake DEF SavedInv
  <1>5. ASSUME NEW i \in DOMAIN seen', seen'[i].by \in Agents,
               0 + Count(Agents, seen', i) = Number(Agents, history) + 1
        PROVE  seen'[i] = m
    <2>1. i \in 1 .. Len(seen) + 1 /\ Len(seen) \in Nat
      BY <1>1, <1>5
    <2>2. CASE i \in 1 .. Len(seen)
      <3>1. /\ Count(Agents, Append(seen, m), i) = Count(Agents, seen, i)
            /\ Count(Agents, seen, i) \in Nat /\ Count(Agents, seen, i) <= Number(Agents, seen)
        BY <1>1, <2>2, CountAppend
      <3> QED
        BY <1>2, <1>5, <3>1
    <2>3. CASE i = Len(seen) + 1
      BY <1>1, <2>3
    <2> QED
      BY <2>1, <2>2, <2>3
  <1>6. Distance'
    BY <1>3, <1>5 DEF Distance, NextIs
  <1>7. seen' \in Seq(Messages)
    BY <1>1
  <1> QED
    BY <1>4, <1>6, <1>7 DEF SavedInv

\* The flow takes a message or an error.
LEMMA SavedConsume ==
  ASSUME LoopInv, SavedInv, Consume
  PROVE  SavedInv'
  <1> DEFINE a == Current
  <1>1. PICK more \in Wants(Offer(a)) :
          /\ Answer(a, more)
          /\ IF more THEN UNCHANGED <<phase, outcome>>
             ELSE outcome' = IF Offer(a) = Failure THEN "error" ELSE "stopped"
    BY DEF Consume, Finish
  <1>2. /\ phase = "range" /\ pc[a] = "yield" /\ at' = at /\ more \in BOOLEAN
        /\ history' = history /\ outputs' = outputs /\ seen' = Received(seen, Offer(a))
    BY <1>1 DEF Consume, Wants, Answer, sessionVars
  <1>3. /\ a \in Agents /\ Current' = a /\ Authored(a) /\ outcome = "none"
        /\ ToolInv /\ AuthorInv /\ msg[a] \in Messages /\ history \in Seq(Messages)
        /\ seen \in Seq(Messages)
    BY <1>2, IndexFacts
       DEF Current, LoopInv, LoopShape, ToolInv, ToolTypes, AuthorInv, SavedInv
  <1>4. /\ \A b \in Agents \ {a} : msg'[b] = msg[b]
        /\ ~ Ahead(a)
        /\ IF more /\ a \notin failing
           THEN /\ msg' = msg /\ (Ahead(a)' <=> msg[a].kind \in {"tool", "assistant"})
                /\ msg[a].kind \in {"tool", "assistant"} => msg[a].by = a
                /\ msg[a].kind \in {"tool", "assistant", "partial"}
           ELSE ~ Ahead(a)'
    BY <1>1, <1>2, <1>3, AheadAnswer
  <1>5. Ahead(Current)' <=> Ahead(a)'
    BY <1>3 DEF Ahead
  <1>6. more => a \notin failing
    BY <1>1 DEF Wants, Offer
  <1>7. msg[a].kind # "error" /\ (msg[a].kind = "partial" <=> msg[a] = Partial)
    BY <1>3, Authors DEF Authored
  <1>8. a \notin failing => msg[a].kind \in {"tool", "assistant", "partial"}
                            /\ (msg[a] # Partial => msg[a].by = a)
    BY <1>2, <1>3, <1>7 DEF Authored
  <1> HIDE DEF a
  <1>9. CASE a \notin failing /\ msg[a] = Partial
    <2>1. seen' = seen /\ ~ Ahead(a)'
      BY <1>2, <1>4, <1>7, <1>9 DEF Received, Offer
    <2>2. outcome' \in {"stopped", "none"} /\ (outcome' = "none" => more)
      BY <1>1, <1>3, <1>7, <1>9, Authors DEF Offer
    <2>3. outcome' = "none" => Finishing' = Finishing
      BY <1>4, <1>6, <2>2 DEF Finishing
    <2> QED
      BY <1>2, <1>3, <1>4, <1>5, <2>1, <2>2, <2>3, SavedQuiet DEF a
  <1>10. CASE a \notin failing /\ msg[a] # Partial
    <2>1. seen' = Append(seen, msg[a])
      BY <1>2, <1>10 DEF Received, Offer
    <2>2. msg[a].by \in Agents /\ msg[a].kind \in {"tool", "assistant"}
      BY <1>3, <1>7, <1>8, <1>10
    <2>3. outcome' \in {"stopped", "none"} /\ (outcome' = "none" <=> more)
      BY <1>1, <1>3, <1>7, <1>10, Authors DEF Offer
    <2>4. IF Ahead(Current)' THEN msg'[Current'] = msg[a] ELSE outcome' = "stopped"
      BY <1>2, <1>3, <1>4, <1>5, <1>10, <2>2, <2>3
    <2>5. outcome' # "stopped" => outcome' = "none" /\ outputs' = outputs /\ Finishing' = Finishing
      BY <1>2, <1>4, <1>6, <2>3 DEF Finishing
    <2> QED
      BY <1>2, <1>3, <1>4, <2>1, <2>2, <2>4, <2>5, SavedTake DEF a
  <1>11. CASE a \in failing
    <2>1. seen' = Append(seen, Failure) /\ ~ more
      BY <1>2, <1>6, <1>11, Authors DEF Received, Offer
    <2>2. outcome' = "error" /\ ~ Ahead(a)'
      BY <1>1, <1>2, <1>4, <1>11, <2>1 DEF Offer
    <2>3. Number(Agents, seen') = Number(Agents, seen)
      BY <1>3, <2>1, Authors, NumberAppend
    <2>4. AgreeFrom(Agents, 0, seen', history)
      BY <1>3, <2>1, Authors, AgreeTake DEF SavedInv
    <2>5. Distance'
      BY <1>2, <1>3, <1>4, <1>5, <2>2, <2>3 DEF SavedInv, Distance, a
    <2>6. seen' \in Seq(Messages)
      BY <1>3, <2>1, Authors
    <2> QED
      BY <1>2, <2>2, <2>4, <2>5, <2>6 DEF SavedInv
  <1> QED
    BY <1>9, <1>10, <1>11

\* The other steps of the flow.
LEMMA SavedFlow ==
  ASSUME LoopInv, SavedInv, CallAgent \/ NextAgent \/ CheckRound
  PROVE  SavedInv'
  <1>1. at \in DOMAIN Order /\ at' \in DOMAIN Order /\ Current \in Agents /\ Current' \in Agents
    BY IndexStep, IndexFacts DEF LoopInv, LoopShape, Current, Next
  <1>2. history' = history /\ seen' = seen /\ msg' = msg /\ outputs' = outputs /\ outcome = "none"
    BY DEF CallAgent, Start, NextAgent, CheckRound, agentVars, sessionVars, LoopInv, LoopShape
  <1>3. CASE CallAgent
    <2>1. /\ pc' = [pc EXCEPT ![Current] = "prepare"] /\ Current' = Current /\ outcome' = outcome
          /\ phase = "call"
      BY <1>3 DEF CallAgent, Start, Goto, Current
    <2>2. ~ Ahead(Current) /\ ~ Ahead(Current)'
      BY <1>1, <2>1 DEF Ahead, LoopInv, LoopShape, ToolInv, ToolTypes
    <2> QED
      BY <1>2, <2>1, <2>2, SavedQuiet DEF Finishing
  <1>4. CASE NextAgent \/ CheckRound
    <2>1. pc' = pc /\ \A b \in Agents : pc[b] \in {"off", "done"}
      BY <1>1, <1>4 DEF NextAgent, CheckRound, agentVars, LoopInv, LoopShape
    <2>2. ~ Ahead(Current) /\ ~ Ahead(Current)'
      BY <1>1, <2>1 DEF Ahead
    <2> QED
      BY <1>2, <2>2, SavedQuiet DEF Finishing
  <1> QED
    BY <1>3, <1>4

\* What the session holds of the agents is what the consumer has taken, in order,
\* up to the message that was taken last; when the flow has ended well nothing is
\* missing, and the output keys are those of the agents with a final answer.
THEOREM SavedIsSeenHolds == Spec => []SavedIsSeen
  <1> DEFINE Inv == LoopInv /\ SavedInv
  <1>1. Init => Inv
    <2> SUFFICES ASSUME Init PROVE Inv
      OBVIOUS
    <2>1. LoopInv /\ Current \in Agents /\ history \in Seq(Messages)
      BY LoopInvariance, IndexFacts DEF LoopInv, LoopShape, Current, ToolInv, ToolTypes
    <2>2. /\ \A b \in Agents : pc[b] = "off" /\ msg[b] = NoMsg
          /\ history = <<>> \/ history = <<User>> \/ history = <<User, Earlier>>
          /\ seen = <<>> /\ outputs = {} /\ outcome = "none"
      BY DEF Init, AgentInit
    <2>3. \A i \in DOMAIN history : history[i].by \notin Agents /\ history[i].kind # "assistant"
      BY <2>2, AgentAssumption DEF User, Earlier, Message
    <2>4. Number(Agents, history) = 0 /\ Number(Agents, seen) = 0
      <3>1. {i \in 1 .. Len(history) : history[i].by \in Agents} = {}
        BY <2>1, <2>3
      <3>2. {i \in 1 .. Len(seen) : seen[i].by \in Agents} = {}
        BY <2>2
      <3> QED
        BY <3>1, <3>2, FS_EmptySet DEF Number, Count
    <2>5. Distance /\ AgreeFrom(Agents, 0, seen, history) /\ seen \in Seq(Messages)
      BY <2>1, <2>2, <2>4 DEF Distance, Ahead, AgreeFrom
    <2>6. Finals(history) = {} /\ Finishing = {}
      BY <2>2, <2>3 DEF Finals, Finishing, NoMsg, Message
    <2> QED
      BY <2>1, <2>2, <2>5, <2>6 DEF SavedInv
  <1>2. Inv /\ [Next]_vars => Inv'
    <2> SUFFICES ASSUME Inv, [Next]_vars PROVE Inv'
      OBVIOUS
    <2>1. LoopInv'
      BY LoopInvariance
    <2>2. CASE Done \/ UNCHANGED vars
      <3>1. UNCHANGED <<history, pc, msg, seen, at, outputs, outcome>>
        BY <2>2 DEF Done, vars, flowVars, agentVars, sessionVars
      <3>2. Distance' /\ Finishing' = Finishing
        BY <3>1 DEF SavedInv, Distance, NextIs, Ahead, Current, Finishing
      <3> QED
        BY <2>1, <3>1, <3>2 DEF SavedInv
    <2> QED
      BY <2>1, <2>2, SavedWork, SavedConsume, SavedFlow DEF Next
  <1>3. Inv => SavedIsSeen
    <2> SUFFICES ASSUME Inv PROVE SavedIsSeen
      OBVIOUS
    <2>1. history \in Seq(Messages) /\ seen \in Seq(Messages) /\ Current \in Agents
      BY IndexFacts DEF LoopInv, LoopShape, Current, ToolInv, ToolTypes, SavedInv
    <2>2. Number(Agents, history) \in Nat
      BY <2>1, CountStep DEF Number
    <2>3. Agree(Agents, history, seen)
      BY <2>1, AgreeBoth DEF SavedInv
    <2>4. \/ Number(Agents, seen) = Number(Agents, history)
          \/ Number(Agents, seen) = Number(Agents, history) + 1
      BY DEF SavedInv, Distance
    <2>5. ASSUME outcome \in {"ok", "escalated"}
          PROVE  Number(Agents, history) = Number(Agents, seen) /\ outputs = Finals(history)
      <3>1. \A b \in Agents : pc[b] \in {"off", "done"}
        BY <2>5 DEF LoopInv, LoopShape
      <3>2. Finishing = {}
        BY <3>1 DEF Finishing, LoopInv, AuthorInv, Authored
      <3>3. ~ Ahead(Current)
        BY <2>1, <3>1 DEF Ahead
      <3> QED
        BY <2>5, <3>2, <3>3 DEF SavedInv, Distance
    <2> QED
      BY <2>2, <2>3, <2>4, <2>5 DEF SavedIsSeen, Finals
  <1> HIDE DEF Inv
  <1> QED
    BY <1>1, <1>2, <1>3, PTL DEF Spec

-----------------------------------------------------------------------------
\* In a loop the session has the user message when the current agent goes on to
\* its first request: nobody else can be about to append it.
LEMMA LoopHasUser ==
  ASSUME LoopInv, phase = "range", pc[Current] = "request"
  PROVE  HasUser
  <1>1. Current \in Agents
    BY IndexFacts DEF LoopInv, LoopShape, Current
  <1>2. committed \/ resume
    BY <1>1 DEF LoopInv, UserInv, OrderOK, Past
  <1>3. \A b \in Agents : pc[b] # "append"
    BY <1>1 DEF LoopInv, LoopShape
  <1> QED
    BY <1>2, <1>3 DEF LoopInv, UserInv, FlagOK

\* In a sequential flow or a loop every request of an agent shows the user message
\* once and the tool results of all iterations so far, whether the agent loads
\* the session or keeps its own messages, retries included.
THEOREM ContextCompleteHolds == Spec => []ContextComplete
  <1> DEFINE Inv == LoopInv /\ CarryInv
  <1>1. Init => Inv
    <2> SUFFICES ASSUME Init PROVE Inv
      OBVIOUS
    <2>1. LoopInv /\ history \in Seq(Messages)
      BY LoopInvariance DEF LoopInv, ToolInv, ToolTypes
    <2>2. /\ \A b \in Agents : pc[b] = "off"
          /\ history = <<>> \/ history = <<User>> \/ history = <<User, Earlier>>
          /\ iter = [b \in Agents |-> 0] /\ local = [b \in Agents |-> <<>>]
          /\ shown = [b \in Agents |-> <<>>]
      BY DEF Init, AgentInit
    <2>3. UserBy(history)
      BY <2>2 DEF UserBy, User, Earlier, Message
    <2>4. ASSUME NEW b \in Agents PROVE Carried(b)
      <3>1. 0 <= Number({b}, history) /\ 0 <= Number({b}, <<>>)
        BY <2>1, NumberNat, ShortNumbers
      <3>2. iter[b] = 0 /\ local[b] = <<>> /\ pc[b] = "off" /\ ~ Past(b)
        BY <2>2, <2>4 DEF Past
      <3> QED
        BY <3>1, <3>2 DEF Carried
    <2>5. /\ iter \in [Agents -> Nat] /\ local \in [Agents -> Seq(Messages)]
          /\ shown \in [Agents -> Seq(Messages)]
      BY <2>2, ShortNumbers
    <2> QED
      BY <2>1, <2>3, <2>4, <2>5 DEF CarryInv
  <1>2. Inv /\ [Next]_vars => Inv'
    <2> SUFFICES ASSUME Inv, [Next]_vars PROVE Inv'
      OBVIOUS
    <2>1. LoopInv' /\ Current \in Agents /\ ToolInv /\ UserInv /\ AuthorInv
      BY LoopInvariance, IndexFacts DEF LoopInv, LoopShape, Current
    <2>2. CASE CallAgent
      BY <2>1, <2>2, CarryHead DEF CallAgent
    <2>3. CASE Work
      BY <2>1, <2>3, CarryStep, LoopHasUser DEF Work
    <2>4. CASE Consume
      <3>1. PICK more \in Wants(Offer(Current)) : Answer(Current, more)
        BY <2>4 DEF Consume
      <3>2. more \in BOOLEAN
        BY DEF Wants
      <3> QED
        BY <2>1, <3>1, <3>2, CarryAnswer
    <2>5. CASE NextAgent \/ CheckRound \/ Done \/ UNCHANGED vars
      <3>1. UNCHANGED <<pc, iter, local, shown, history, resume, failing>>
        BY <2>5 DEF NextAgent, CheckRound, Done, vars, agentVars, loopVars, sessionVars, optionVars
      <3> QED
        BY <2>1, <3>1 DEF CarryInv, Carried, Past, Loads
    <2> QED
      BY <2>2, <2>3, <2>4, <2>5 DEF Next
  <1>3. Inv => ContextComplete
    BY DEF CarryInv, Carried, ContextComplete
  <1> HIDE DEF Inv
  <1> QED
    BY <1>1, <1>2, <1>3, PTL DEF Spec
=============================================================================
