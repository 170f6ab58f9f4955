-------------------------- MODULE FlowParallelProofs --------------------------
(***************************************************************************)
(* Theorems about the parallel flow, for any agents, limits, capacity of   *)
(* the channel, and number of tools.                                       *)
(***************************************************************************)
EXTENDS FlowParallel, AgentProofs

\* Every step of the parallel flow keeps the invariant of messages and tools.
LEMMA ParallelToolStep == ToolInv /\ [Next]_vars => ToolInv'
  <1> SUFFICES ASSUME ToolInv, [Next]_vars PROVE ToolInv'
    OBVIOUS
  <1>1. ASSUME NEW a \in Agents, Spawn(a) PROVE ToolInv'
    BY <1>1, HeadStep DEF Spawn
  <1>2. ASSUME NEW a \in Agents, Work(a) PROVE ToolInv'
    BY <1>2, AgentStep DEF Work
  <1>3. ASSUME NEW a \in Agents, Send(a) PROVE ToolInv'
    BY <1>3, AnswerStep DEF Send
  <1>4. CASE Close \/ Receive \/ Return
    BY <1>4, FlowStep DEF Close, Receive, Return
  <1>5. CASE Done \/ UNCHANGED vars
    BY <1>5, FlowStep DEF Done, vars
  <1> QED
    BY <1>1, <1>2, <1>3, <1>4, <1>5 DEF Next

\* In a parallel flow no message with an unanswered tool call reaches the
\* session, whichever tools fail and in whatever order they return.
THEOREM ToolsAnsweredHolds == Spec => []ToolsAnswered
  <1>1. Init => ToolInv
    BY ToolInvInit DEF Init
  <1>2. ToolInv => ToolsAnswered
    BY DEF ToolInv
  <1> QED
    BY <1>1, <1>2, ParallelToolStep, PTL DEF Spec

\* Every step of the parallel flow keeps the invariant of the user message.
LEMMA ParallelUserStep == UserInv /\ ToolInv /\ [Next]_vars => UserInv'
  <1> SUFFICES ASSUME UserInv, ToolInv, [Next]_vars PROVE UserInv'
    OBVIOUS
  <1>1. ASSUME NEW a \in Agents, Spawn(a) PROVE UserInv'
    BY <1>1, EarlyUserStep DEF Spawn
  <1>2. ASSUME NEW a \in Agents, Work(a) PROVE UserInv'
    BY <1>2, AgentUserStep DEF Work
  <1>3. ASSUME NEW a \in Agents, Send(a) PROVE UserInv'
    BY <1>3, AnswerUserStep DEF Send
  <1>4. CASE Close \/ Receive \/ Return
    BY <1>4, FlowUserStep DEF Close, Receive, Return
  <1>5. CASE Done \/ UNCHANGED vars
    BY <1>5, FlowUserStep DEF Done, vars
  <1> QED
    BY <1>1, <1>2, <1>3, <1>4, <1>5 DEF Next

\* However many agents race for the flag of their shared invocation, the
\* session gets the user message once, and has it when all have ended well.
THEOREM UserOnceHolds == Spec => []UserOnce
  <1>1. Init => ToolInv /\ UserInv
    BY ToolInvInit, UserInvInit DEF Init
  <1>2. UserInv => UserOnce
    BY UserOnceFollows
  <1> QED
    BY <1>1, <1>2, ParallelToolStep, ParallelUserStep, PTL DEF Spec

-----------------------------------------------------------------------------
\* Every step of the parallel flow keeps the facts about the messages of agents.
LEMMA ParallelAuthorStep ==
  ASSUME AuthorInv, ToolInv, [Next]_vars
  PROVE  AuthorInv'
  <1>1. ASSUME NEW a \in Agents, Spawn(a) PROVE AuthorInv'
    BY <1>1, AuthorStep DEF Spawn
  <1>2. ASSUME NEW a \in Agents, Work(a) PROVE AuthorInv'
    BY <1>2, AuthorStep DEF Work
  <1>3. ASSUME NEW a \in Agents, Send(a) PROVE AuthorInv'
    BY <1>3, AuthorAnswer DEF Send
  <1>4. CASE Close \/ Receive \/ Return
    BY <1>4, AuthorFlow DEF Close, Receive, Return
  <1>5. CASE Done \/ UNCHANGED vars
    BY <1>5, AuthorFlow DEF Done, vars
  <1> QED
    BY <1>1, <1>2, <1>3, <1>4, <1>5 DEF Next

\* The n-th message of agent b is x, whether the consumer has it or the channel.
Carries(b, n, x) ==
  NextFrom({b}, 0, seen, n, x) /\ NextFrom({b}, Number({b}, seen), ch, n, x)

\* What agent b has sent is what the session holds of it, and the message that it
\* is about to append.
Sent(b) ==
  /\ \A j \in DOMAIN history :
       history[j].by \in {b} => Carries(b, Count({b}, history, j), history[j])
  /\ Ahead(b) => Carries(b, Number({b}, history) + 1, msg[b])
  /\ Number({b}, seen) + Number({b}, ch) = Number({b}, history) + (IF Ahead(b) THEN 1 ELSE 0)

\* An error of agent b that Run has not taken is in the channel.
Reported(b) == result[b] = "error" => \E i \in DOMAIN ch : ch[i] = Failure

\* The inductive invariant of the channel.
ChannelInv ==
  /\ ch \in Seq(Messages) /\ seen \in Seq(Messages)
  /\ closed => \A b \in Agents : pc[b] = "done"
  /\ \A b \in Agents : pc[b] = "done" => result[b] \in {"ok", "error"}
  /\ outcome = "ok" => closed /\ ch = <<>>
  /\ outcome \in {"none", "ok"} => \A b \in Agents : Sent(b) /\ Reported(b)

\* What the proofs about the channel start from.
ParallelInv == ToolInv /\ UserInv /\ AuthorInv /\ ChannelInv

\* The session, the channel and the consumer stay as they are for agent b.
LEMMA SentSame ==
  ASSUME NEW b \in Agents, Sent(b), history' = history, ch' = ch, seen' = seen,
         Ahead(b)' <=> Ahead(b), Ahead(b) => msg'[b] = msg[b]
  PROVE  Sent(b)'
  <1>1. \A n, x : Carries(b, n, x) => Carries(b, n, x)'
    BY DEF Carries
  <1> QED
    BY <1>1 DEF Sent

\* A message is appended to the session: another agent's, or the one that agent b
\* has sent.
LEMMA SentSave ==
  ASSUME NEW b \in Agents, Sent(b), history \in Seq(Messages), seen \in Seq(Messages),
         ch \in Seq(Messages), NEW m \in Messages,
         history' = Append(history, m), ch' = ch, seen' = seen,
         IF m.by \in {b} THEN Ahead(b) /\ ~ Ahead(b)' /\ m = msg[b]
         ELSE (Ahead(b)' <=> Ahead(b)) /\ (Ahead(b) => msg'[b] = msg[b])
  PROVE  Sent(b)'
  <1>1. \A n, x : Carries(b, n, x) => Carries(b, n, x)'
    BY DEF Carries
  <1>2. /\ Number({b}, history) \in Nat /\ Number({b}, seen) \in Nat /\ Number({b}, ch) \in Nat
        /\ Number({b}, history') = IF m.by \in {b} THEN Number({b}, history) + 1 ELSE Number({b}, history)
        /\ Count({b}, history', Len(history) + 1) = Number({b}, history')
    BY NumberAppend, NumberNat
  <1>3. ASSUME NEW j \in DOMAIN history', history'[j].by \in {b}
        PROVE  Carries(b, Count({b}, history, j), history[j])'
    <2>1. j \in 1 .. Len(history) + 1 /\ Len(history) \in Nat
      BY <1>3
    <2>2. CASE j \in 1 .. Len(history)
      <3>0. Count({b}, Append(history, m), j) = Count({b}, history, j)
        BY <2>2, CountAppend
      <3>1. Count({b}, history', j) = Count({b}, history, j) /\ history'[j] = history[j] /\ j \in DOMAIN history
        BY <2>2, <3>0
      <3>2. Carries(b, Count({b}, history, j), history[j])
        BY <1>3, <3>1 DEF Sent
      <3> QED
        BY <3>1, <3>2 DEF Carries
    <2>3. CASE j = Len(history) + 1
      <3>1. history'[j] = m
        BY <2>3
      <3>2. Carries(b, Number({b}, history) + 1, m)
        BY <1>3, <3>1 DEF Sent
      <3>3. Count({b}, history', j) = Number({b}, history) + 1
        BY <1>2, <1>3, <2>3, <3>1
      <3> QED
        BY <3>1, <3>2, <3>3 DEF Carries
    <2> QED
      BY <2>1, <2>2, <2>3
  <1>4. Ahead(b)' => Carries(b, Number({b}, history) + 1, msg[b])'
    <2> SUFFICES ASSUME Ahead(b)' PROVE Carries(b, Number({b}, history) + 1, msg[b])'
      OBVIOUS
    <2>1. /\ Number({b}, history') = Number({b}, history) /\ msg'[b] = msg[b]
          /\ Carries(b, Number({b}, history) + 1, msg[b])
      BY <1>2 DEF Sent
    <2> QED
      BY <2>1 DEF Carries
  <1>5. Number({b}, seen') + Number({b}, ch') = Number({b}, history') + (IF Ahead(b)' THEN 1 ELSE 0)
    <2>1. CASE m.by \in {b}
      BY <1>2, <2>1 DEF Sent
    <2>2. CASE m.by \notin {b}
      BY <1>2, <2>2 DEF Sent
    <2> QED
      BY <2>1, <2>2
  <1> QED
    BY <1>3, <1>4, <1>5 DEF Sent

\* A message of agent b, or of nobody who counts, enters the channel.
LEMMA SentSend ==
  ASSUME NEW b \in Agents, Sent(b), history \in Seq(Messages), seen \in Seq(Messages),
         ch \in Seq(Messages), NEW m \in Messages,
         ch' = Append(ch, m), history' = history, seen' = seen,
         IF m.by \in {b} THEN ~ Ahead(b) /\ Ahead(b)' /\ m = msg'[b]
         ELSE (Ahead(b)' <=> Ahead(b)) /\ (Ahead(b) => msg'[b] = msg[b])
  PROVE  Sent(b)'
  <1> DEFINE k == Number({b}, seen) c == Number({b}, ch) h == Number({b}, history)
  <1>1. /\ k \in Nat /\ c \in Nat /\ h \in Nat
        /\ Number({b}, ch') = IF m.by \in {b} THEN c + 1 ELSE c
    BY NumberAppend, NumberNat
  <1>2. m.by \in {b} => k + c = h
    BY <1>1 DEF Sent
  <1>3. ASSUME NEW n, NEW x, Carries(b, n, x), m.by \in {b} => m = x \/ n # h + 1
        PROVE  Carries(b, n, x)'
    <2>1. NextFrom({b}, k, Append(ch, m), n, x)
      BY <1>1, <1>2, <1>3, NextSend DEF Carries
    <2> QED
      BY <1>3, <2>1 DEF Carries
  <1>4. ASSUME NEW j \in DOMAIN history', history'[j].by \in {b}
        PROVE  Carries(b, Count({b}, history, j), history[j])'
    <2>1. j \in 1 .. Len(history)
      BY <1>4
    <2>2. Count({b}, history, j) \in Nat /\ Count({b}, history, j) <= h
      BY <2>1, CountAppend
    <2>3. Carries(b, Count({b}, history, j), history[j])
      BY <1>4 DEF Sent
    <2>4. Count({b}, history, j) # h + 1
      BY <1>1, <2>2
    <2>5. Carries(b, Count({b}, history, j), history[j])
           => NextFrom({b}, 0, seen', Count({b}, history, j), history[j])
              /\ NextFrom({b}, Number({b}, seen'), ch', Count({b}, history, j), history[j])
      BY <1>3, <2>4 DEF Carries
    <2> QED
      BY <2>3, <2>5 DEF Carries
  <1>5. Ahead(b)' => Carries(b, Number({b}, history) + 1, msg[b])'
    <2> SUFFICES ASSUME Ahead(b)' PROVE Carries(b, Number({b}, history) + 1, msg[b])'
      OBVIOUS
    <2>1. Carries(b, h + 1, msg'[b]) /\ (m.by \in {b} => m = msg'[b])
      <3>1. CASE m.by \notin {b}
        BY <3>1 DEF Sent
      <3>2. CASE m.by \in {b}
        <4>1. NextFrom({b}, 0, seen, h + 1, msg'[b])
          BY <1>1, <1>2, <3>2, NextBeyond
        <4>2. NextFrom({b}, k, ch, h + 1, msg'[b])
          BY <1>1, <1>2, <3>2, NextBeyond
        <4> QED
          BY <3>2, <4>1, <4>2 DEF Carries
      <3> QED
        BY <3>1, <3>2
    <2>2. NextFrom({b}, 0, seen', h + 1, msg'[b]) /\ NextFrom({b}, Number({b}, seen'), ch', h + 1, msg'[b])
      BY <1>3, <2>1 DEF Carries
    <2> QED
      BY <2>2 DEF Carries
  <1>6. Number({b}, seen') + Number({b}, ch') = Number({b}, history') + (IF Ahead(b)' THEN 1 ELSE 0)
    <2>1. CASE m.by \in {b}
      BY <1>1, <1>2, <2>1
    <2>2. CASE m.by \notin {b}
      BY <1>1, <2>2 DEF Sent
    <2> QED
      BY <2>1, <2>2
  <1> QED
    BY <1>4, <1>5, <1>6 DEF Sent

\* Run takes the head of the channel; a partial message goes no further.
LEMMA SentReceive ==
  ASSUME NEW b \in Agents, Sent(b), history \in Seq(Messages), seen \in Seq(Messages),
         ch \in Seq(Messages), ch # <<>>, UNCHANGED <<history, pc, msg>>,
         ch' = Tail(ch), seen' = Received(seen, Head(ch))
  PROVE  Sent(b)'
  <1> DEFINE m == Head(ch)
  <1>1. m \in Messages /\ Tail(ch) \in Seq(Messages) /\ Partial.by \notin {b}
    BY Authors
  <1>2. ASSUME NEW n, NEW x, Carries(b, n, x)
        PROVE  NextFrom({b}, 0, seen', n, x) /\ NextFrom({b}, Number({b}, seen'), ch', n, x)
    <2>1. CASE m = Partial
      <3>1. seen' = seen /\ Head(ch).by \notin {b}
        BY <1>1, <2>1 DEF Received
      <3> QED
        BY <1>2, <3>1, NextMove DEF Carries
    <2>2. CASE m # Partial
      <3>1. seen' = Append(seen, Head(ch))
        BY <2>2 DEF Received
      <3> QED
        BY <1>2, <3>1, NextMove DEF Carries
    <2> QED
      BY <2>1, <2>2
  <1>3. /\ Number({b}, ch) = IF m.by \in {b} THEN Number({b}, Tail(ch)) + 1 ELSE Number({b}, Tail(ch))
        /\ Number({b}, Tail(ch)) \in Nat
    <2>1. Len(ch) \in Nat /\ Len(ch) > 0 /\ Len(Tail(ch)) = Len(ch) - 1 /\ Len(ch) - 1 \in 0 .. Len(ch) - 1
      OBVIOUS
    <2>2. (Len(ch) - 1) + 1 = Len(ch)
      BY <2>1
    <2>3. Count({b}, ch, (Len(ch) - 1) + 1) =
            IF Head(ch).by \in {b} THEN Count({b}, Tail(ch), Len(ch) - 1) + 1
            ELSE Count({b}, Tail(ch), Len(ch) - 1)
      BY <2>1, CountTail
    <2>4. Number({b}, Tail(ch)) \in Nat
      BY <1>1, NumberNat
    <2> QED
      BY <2>1, <2>2, <2>3, <2>4 DEF Number
  <1>4. /\ Number({b}, seen) \in Nat
        /\ Number({b}, seen') = IF m.by \in {b} THEN Number({b}, seen) + 1 ELSE Number({b}, seen)
    <2>1. CASE m = Partial
      BY <1>1, <2>1, NumberNat DEF Received
    <2>2. CASE m # Partial
      BY <1>1, <2>2, NumberAppend DEF Received
    <2> QED
      BY <2>1, <2>2
  <1> HIDE DEF m
  <1>5. Number({b}, seen') + Number({b}, ch') = Number({b}, seen) + Number({b}, ch)
    BY <1>3, <1>4
  <1>6. Ahead(b)' <=> Ahead(b)
    BY DEF Ahead
  <1>7. ASSUME NEW j \in DOMAIN history', history'[j].by \in {b}
        PROVE  Carries(b, Count({b}, history, j), history[j])'
    BY <1>2, <1>7 DEF Sent, Carries
  <1>8. Ahead(b)' => Carries(b, Number({b}, history) + 1, msg[b])'
    BY <1>2, <1>6 DEF Sent, Carries
  <1> QED
    BY <1>5, <1>6, <1>7, <1>8 DEF Sent

\* The channel's invariant holds at the start.
LEMMA ChannelInit ==
  ASSUME Init, ToolInv
  PROVE  ChannelInv
  <1>1. /\ \A b \in Agents : pc[b] = "off" /\ result[b] = "none"
        /\ history = <<>> \/ history = <<User>> \/ history = <<User, Earlier>>
        /\ seen = <<>> /\ ch = <<>> /\ closed = FALSE /\ outcome = "none"
    BY DEF Init, AgentInit
  <1>2. \A i \in DOMAIN history : history[i].by \notin Agents
    BY <1>1, AgentAssumption DEF User, Earlier, Message
  <1>3. history \in Seq(Messages)
    BY DEF ToolInv, ToolTypes
  <1>4. ASSUME NEW b \in Agents PROVE Sent(b) /\ Reported(b)
    <2>1. {i \in 1 .. Len(history) : history[i].by \in {b}} = {}
      BY <1>2, <1>3
    <2>2. {i \in 1 .. Len(<<>>) : <<>>[i].by \in {b}} = {}
      OBVIOUS
    <2>3. Number({b}, history) = 0 /\ Number({b}, <<>>) = 0
      BY <2>1, <2>2, FS_EmptySet DEF Number, Count
    <2> QED
      BY <1>1, <1>2, <2>3 DEF Sent, Reported, Ahead
  <1>5. <<>> \in Seq(Messages)
    OBVIOUS
  <1> QED
    BY <1>1, <1>4, <1>5 DEF ChannelInv

\* The goroutine of an agent starts, or works.
LEMMA ChannelWork ==
  ASSUME ToolInv, UserInv, AuthorInv, ChannelInv, NEW a \in Agents, Spawn(a) \/ Work(a)
  PROVE  ChannelInv'
  <1>0. /\ ch' = ch /\ seen' = seen /\ closed' = closed /\ outcome' = outcome
        /\ pc \in [Agents -> Places] /\ history \in Seq(Messages)
        /\ result \in [Agents -> {"none", "ok", "error", "stopped"}]
    BY DEF Spawn, Work, flowVars, ToolInv, ToolTypes, UserInv
  <1>1. /\ pc[a] # "done" /\ ~ closed
        /\ \A b \in Agents \ {a} : pc'[b] = pc[b] /\ result'[b] = result[b]
        /\ pc'[a] = "done" => result'[a] = "ok"
        /\ result'[a] = "error" => result[a] = "error"
    <2>1. CASE Spawn(a)
      BY <1>0, <2>1 DEF Spawn, Start, Goto, ChannelInv
    <2>2. CASE Work(a)
      BY <1>0, <2>2, AgentEffect, ResultEffect DEF Work, ChannelInv
    <2> QED
      BY <2>1, <2>2
  <1>2. ASSUME NEW b \in Agents, outcome \in {"none", "ok"} PROVE Sent(b)' /\ Reported(b)'
    <2>0. Sent(b) /\ Reported(b) /\ ch \in Seq(Messages) /\ seen \in Seq(Messages)
      BY <1>2 DEF ChannelInv
    <2>1. Reported(b)'
      BY <1>0, <1>1, <2>0 DEF Reported
    <2>2. CASE Spawn(a)
      <3>1. /\ history' = history /\ msg' = msg /\ pc' = [pc EXCEPT ![a] = "prepare"] /\ pc[a] = "off"
        BY <2>2 DEF Spawn, Start, Goto, sessionVars
      <3>2. Ahead(b)' <=> Ahead(b)
        BY <1>0, <3>1 DEF Ahead
      <3> QED
        BY <1>0, <2>0, <2>1, <3>1, <3>2, SentSame
    <2>3. CASE Work(a)
      <3>1. /\ \A d \in Agents \ {a} : (Ahead(d)' <=> Ahead(d)) /\ msg'[d] = msg[d]
            /\ \/ history' = history /\ (Ahead(a)' <=> Ahead(a)) /\ (Ahead(a) => msg'[a] = msg[a])
               \/ history' = Append(history, User) /\ ~ Ahead(a) /\ ~ Ahead(a)'
               \/ /\ history' = Append(history, msg[a]) /\ Ahead(a) /\ ~ Ahead(a)'
                  /\ msg[a].by = a /\ msg[a] \in Messages
        BY <2>3, AgentEffect, AheadEffect DEF Work
      <3>2. CASE history' = history /\ (Ahead(a)' <=> Ahead(a)) /\ (Ahead(a) => msg'[a] = msg[a])
        <4>1. (Ahead(b)' <=> Ahead(b)) /\ (Ahead(b) => msg'[b] = msg[b])
          BY <3>1, <3>2
        <4> QED
          BY <1>0, <2>0, <2>1, <3>2, <4>1, SentSame
      <3>3. CASE history' = Append(history, User) /\ ~ Ahead(a) /\ ~ Ahead(a)'
        <4>1. (Ahead(b)' <=> Ahead(b)) /\ (Ahead(b) => msg'[b] = msg[b])
          BY <3>1, <3>3
        <4>2. User \in Messages /\ User.by \notin {b}
          BY Authors
        <4> QED
          BY <1>0, <2>0, <2>1, <3>3, <4>1, <4>2, SentSave
      <3>4. CASE /\ history' = Append(history, msg[a]) /\ Ahead(a) /\ ~ Ahead(a)'
                 /\ msg[a].by = a /\ msg[a] \in Messages
        <4>1. IF msg[a].by \in {b} THEN Ahead(b) /\ ~ Ahead(b)' /\ msg[a] = msg[b]
              ELSE (Ahead(b)' <=> Ahead(b)) /\ (Ahead(b) => msg'[b] = msg[b])
          BY <3>1, <3>4
        <4> QED
          BY <1>0, <2>0, <2>1, <3>4, <4>1, SentSave
      <3> QED
        BY <3>1, <3>2, <3>3, <3>4
    <2> QED
      BY <2>2, <2>3
  <1> QED
    BY <1>0, <1>1, <1>2 DEF ChannelInv

\* The goroutine of an agent sends what the agent yields.
LEMMA ChannelSend ==
  ASSUME ToolInv, UserInv, AuthorInv, ChannelInv, NEW a \in Agents, Send(a)
  PROVE  ChannelInv'
  <1>0. /\ seen' = seen /\ closed' = closed /\ outcome' = outcome /\ ch' = Append(ch, Offer(a))
        /\ Answer(a, TRUE) /\ pc[a] = "yield"
        /\ pc \in [Agents -> Places] /\ history \in Seq(Messages) /\ msg \in [Agents -> Messages]
        /\ result \in [Agents -> {"none", "ok", "error", "stopped"}]
        /\ ch \in Seq(Messages) /\ seen \in Seq(Messages) /\ Authored(a)
    BY DEF Send, ToolInv, ToolTypes, UserInv, ChannelInv, AuthorInv
  <1>1. /\ \A b \in Agents \ {a} : (Ahead(b)' <=> Ahead(b)) /\ msg'[b] = msg[b]
        /\ history' = history /\ ~ Ahead(a)
        /\ IF a \notin failing
           THEN /\ msg' = msg /\ (Ahead(a)' <=> msg[a].kind \in {"tool", "assistant"})
                /\ msg[a].kind \in {"tool", "assistant"} => msg[a].by = a
                /\ msg[a].kind \in {"tool", "assistant", "partial"}
           ELSE ~ Ahead(a)'
    BY <1>0, AheadAnswer
  <1>2. Offer(a) \in Messages
    BY <1>0, MessageTypes DEF Offer
  <1>3. /\ ~ closed /\ \A b \in Agents \ {a} : pc'[b] = pc[b] /\ result'[b] = result[b]
        /\ IF a \in failing THEN pc'[a] = "done" /\ result'[a] = "error"
           ELSE pc'[a] # "done" /\ result'[a] = result[a]
    BY <1>0 DEF Answer, End, Goto, After, ChannelInv
  <1>4. ch' \in Seq(Messages) /\ \A i \in DOMAIN ch : i \in DOMAIN ch' /\ ch'[i] = ch[i]
    BY <1>0, <1>2
  <1>5. Len(ch) + 1 \in DOMAIN ch' /\ ch'[Len(ch) + 1] = Offer(a)
    BY <1>0, <1>2
  <1>6. ASSUME NEW b \in Agents, outcome \in {"none", "ok"} PROVE Sent(b)' /\ Reported(b)'
    <2>0. Sent(b) /\ Reported(b)
      BY <1>6 DEF ChannelInv
    <2>1. Reported(b)'
      <3>1. CASE b = a /\ a \in failing
        <4>1. ch'[Len(ch) + 1] = Failure
          BY <1>5, <3>1 DEF Offer
        <4> QED
          BY <1>5, <4>1 DEF Reported
      <3>2. CASE ~ (b = a /\ a \in failing)
        <4>1. result'[b] = result[b]
          BY <1>3, <3>2
        <4> QED
          BY <1>4, <2>0, <4>1 DEF Reported
      <3> QED
        BY <3>1, <3>2
    <2>2. IF Offer(a).by \in {b} THEN ~ Ahead(b) /\ Ahead(b)' /\ Offer(a) = msg'[b]
          ELSE (Ahead(b)' <=> Ahead(b)) /\ (Ahead(b) => msg'[b] = msg[b])
      <3>1. CASE a \in failing
        <4>1. Offer(a).by \notin {b}
          BY <3>1, Authors DEF Offer
        <4> QED
          BY <1>1, <3>1, <4>1
      <3>2. CASE a \notin failing /\ msg[a].kind = "partial"
        <4>1. Offer(a).by \notin {b}
          BY <1>0, <3>2, Authors DEF Offer, Authored
        <4> QED
          BY <1>1, <3>2, <4>1
      <3>3. CASE a \notin failing /\ msg[a].kind # "partial"
        <4>1. Offer(a) = msg[a] /\ msg[a].by = a /\ msg' = msg /\ Ahead(a)'
          BY <1>1, <3>3 DEF Offer
        <4> QED
          BY <1>1, <4>1
      <3> QED
        BY <3>1, <3>2, <3>3
    <2>3. Sent(b)'
      BY <1>0, <1>1, <1>2, <2>0, <2>2, SentSend
    <2> QED
      BY <2>1, <2>3
  <1>7. \A b \in Agents : pc'[b] = "done" => result'[b] \in {"ok", "error"}
    BY <1>3 DEF ChannelInv
  <1> QED
    BY <1>0, <1>3, <1>4, <1>6, <1>7 DEF ChannelInv

\* Run receives: an error ends the run.
LEMMA ChannelReceive ==
  ASSUME ToolInv, ChannelInv, Receive
  PROVE  ChannelInv'
  <1>1. /\ outcome = "none" /\ ch # <<>> /\ ch' = Tail(ch) /\ seen' = Received(seen, Head(ch))
        /\ UNCHANGED <<pc, msg, result, history, closed>>
    BY DEF Receive, agentVars, sessionVars
  <1>2. PICK more \in Wants(Head(ch)) :
          outcome' = IF more THEN "none" ELSE IF Head(ch) = Failure THEN "error" ELSE "stopped"
    BY DEF Receive
  <1>3. history \in Seq(Messages) /\ ch \in Seq(Messages) /\ seen \in Seq(Messages)
    BY DEF ToolInv, ToolTypes, ChannelInv
  <1>4. ch' \in Seq(Messages) /\ seen' \in Seq(Messages)
    BY <1>1, <1>3 DEF Received
  <1>5. outcome' # "ok"
    BY <1>2
  <1>6. ASSUME NEW b \in Agents, outcome' = "none" PROVE Sent(b)' /\ Reported(b)'
    <2>1. Sent(b) /\ Reported(b)
      BY <1>1 DEF ChannelInv
    <2>2. Head(ch) # Failure
      BY <1>2, <1>6 DEF Wants
    <2>3. ASSUME NEW i \in DOMAIN ch, ch[i] = Failure PROVE \E j \in DOMAIN ch' : ch'[j] = Failure
      <3>1. i \in 1 .. Len(ch) /\ i # 1
        BY <1>3, <2>2, <2>3
      <3>2. i - 1 \in DOMAIN ch' /\ ch'[i - 1] = ch[i]
        BY <1>1, <1>3, <3>1
      <3> QED
        BY <2>3, <3>2
    <2>4. Reported(b)'
      BY <1>1, <2>1, <2>3 DEF Reported
    <2> QED
      BY <1>1, <1>3, <2>1, <2>4, SentReceive
  <1> QED
    BY <1>1, <1>4, <1>5, <1>6 DEF ChannelInv

\* The other steps of the flow.
LEMMA ChannelFlow ==
  ASSUME ChannelInv, Close \/ Return \/ Done \/ UNCHANGED vars
  PROVE  ChannelInv'
  <1>1. UNCHANGED <<pc, msg, result, history, ch, seen>>
    BY DEF Close, Return, Done, vars, flowVars, agentVars, sessionVars
  <1>2. \A b \in Agents : (Sent(b) => Sent(b)') /\ (Reported(b) => Reported(b)')
    BY <1>1 DEF Sent, Carries, Ahead, Reported
  <1>3. \/ outcome' = outcome /\ closed' = closed
        \/ outcome' = outcome /\ closed' = TRUE /\ ~ closed /\ \A b \in Agents : pc[b] = "done"
        \/ /\ closed' = closed /\ closed /\ ch = <<>> /\ outcome = "none"
           /\ outcome' \in {"ok", "error"}
    BY DEF Close, Return, Done, vars, flowVars
  <1> QED
    BY <1>1, <1>2, <1>3 DEF ChannelInv

\* When a parallel run ends well all agents have, none with an error that was lost
\* in the channel, and the consumer has received of each agent exactly what the
\* session holds of it, in order: for any number of agents, any size of the
\* channel, and whatever the goroutines do before Run takes what they sent.
THEOREM PublishedHolds == Spec => []Published
  <1>1. Init => ParallelInv
    BY ToolInvInit, UserInvInit, AuthorInit, ChannelInit DEF Init, ParallelInv
  <1>2. ParallelInv /\ [Next]_vars => ParallelInv'
    <2> SUFFICES ASSUME ParallelInv, [Next]_vars PROVE ParallelInv'
      OBVIOUS
    <2>1. ToolInv /\ UserInv /\ AuthorInv /\ ChannelInv
      BY DEF ParallelInv
    <2>2. ToolInv' /\ UserInv' /\ AuthorInv'
      BY <2>1, ParallelToolStep, ParallelUserStep, ParallelAuthorStep
    <2>3. ChannelInv'
      BY <2>1, ChannelWork, ChannelSend, ChannelReceive, ChannelFlow DEF Next
    <2> QED
      BY <2>2, <2>3 DEF ParallelInv
  <1>3. ParallelInv => Published
    <2> SUFFICES ASSUME ParallelInv, outcome = "ok", NEW a \in Agents
                 PROVE  /\ result[a] = "ok" /\ Agree({a}, seen, history)
                        /\ Number({a}, seen) = Number({a}, history)
      BY DEF Published
    <2>1. /\ pc[a] = "done" /\ result[a] \in {"ok", "error"} /\ ch = <<>>
          /\ Sent(a) /\ Reported(a) /\ seen \in Seq(Messages) /\ history \in Seq(Messages)
      BY DEF ParallelInv, ChannelInv, ToolInv, ToolTypes
    <2>2. result[a] = "ok"
      BY <2>1 DEF Reported
    <2>3. AgreeFrom({a}, 0, seen, history)
      BY <2>1, AgreeNext DEF Sent, Carries
    <2>4. Agree({a}, seen, history)
      BY <2>1, <2>3, AgreeBoth
    <2>5. Number({a}, ch) = 0
      <3>1. {i \in 1 .. Len(ch) : ch[i].by \in {a}} = {}
        BY <2>1
      <3> QED
        BY <3>1, FS_EmptySet DEF Number, Count
    <2>6. Number({a}, seen) \in Nat /\ Number({a}, history) \in Nat /\ ~ Ahead(a)
      BY <2>1, NumberNat DEF Ahead
    <2> QED
      BY <2>1, <2>2, <2>4, <2>5, <2>6 DEF Sent
  <1> QED
    BY <1>1, <1>2, <1>3, PTL DEF Spec
=============================================================================
