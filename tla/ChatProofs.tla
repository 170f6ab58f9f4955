----------------------------- MODULE ChatProofs -----------------------------
(***************************************************************************)
(* Proofs about the chat side of the command: the card of a response       *)
(* (CardWriter) for any number of messages, tools and flushes, and the     *)
(* daemon with its sessions (ChatDaemon) for any number of chats, messages,*)
(* goroutines and restarts.                                                *)
(***************************************************************************)
EXTENDS ChatDaemon, CardWriter, WellFoundedInduction, TLAPS

-----------------------------------------------------------------------------
(***************************************************************************)
(* The card.                                                               *)
(***************************************************************************)
ToolRun == [key : Keys, status : {"running", "done", "error"}]
CardType == [pieces : Seq(Nat), tools : Seq(ToolRun), cursor : BOOLEAN, none : BOOLEAN]
WriterCall == [call : {"text"}, pieces : Seq(Nat)] \cup [call : {"start", "end"}, key : Keys]

CardTypes ==
  /\ collected \in Seq(Nat) /\ messages \in Nat
  /\ todo \in Seq(WriterCall) /\ textBuf \in Seq(Nat) /\ tools \in Seq(ToolRun)
  /\ cards \in Seq(CardType) /\ cardID \in 0 .. Len(cards) /\ target \in 0 .. Len(cards)
  /\ sendTo \in 0 .. Len(cards) /\ hstate \in {"running", "closing", "building", "updating", "closed"}

\* What a card shows was written, and a tool it shows as finished has finished so.
Written(card) ==
  /\ Len(card.pieces) <= Len(textBuf)
  /\ \A i \in 1 .. Len(card.pieces) : card.pieces[i] = textBuf[i]
  /\ Len(card.tools) <= Len(tools)
  /\ \A i \in 1 .. Len(card.tools) : card.tools[i].status # "running" => tools[i] = card.tools[i]

\* The card under way shows everything: mu is held until it is sent, and after
\* the handler has returned nothing is written.
UpToDate ==
  /\ sending # None => sending = Card(TRUE)
  /\ hstate # "running" => todo = <<>>
  /\ hstate \in {"building", "updating", "closed"} => final = Card(FALSE)
  /\ \A i \in 1 .. Len(cards) : Written(cards[i])

CardInv == CardTypes /\ UpToDate /\ FinalShown /\ (closeErr = "shown" => hstate = "closed")

\* A set of numbers that is not empty has a least one.
LEMMA LeastExists ==
  ASSUME NEW S, S \subseteq Nat, S # {}
  PROVE  \E x \in S : \A y \in S : x <= y
  <1>1. \E R : IsWellFoundedOn(R, Nat) /\ \A x, y \in Nat : x < y => <<x, y>> \in R
    <2>1. \A x, y \in Nat : x < y => <<x, y>> \in OpToRel(<, Nat)
      BY DEF OpToRel
    <2> QED
      BY <2>1, NatLessThanWellFounded
  <1>2. PICK R : IsWellFoundedOn(R, Nat) /\ \A x, y \in Nat : x < y => <<x, y>> \in R
    BY <1>1
  <1>3. PICK x \in S : \A y \in S : ~ (<<y, x>> \in R)
    <2>1. IsWellFoundedOn(R, Nat) /\ S \subseteq Nat /\ S # {}
      BY <1>2
    <2>2. \E x \in S : \A y \in S : ~ (<<y, x>> \in R)
      BY ONLY <2>1, WFMin, Zenon
    <2> QED
      BY <2>2
  <1>4. \A y \in S : x <= y
    <2> SUFFICES ASSUME NEW y \in S, ~ (x <= y) PROVE FALSE
      OBVIOUS
    <2>1. y \in Nat /\ x \in Nat /\ y < x
      OBVIOUS
    <2> QED
      BY <1>2, <1>3, <2>1
  <1> QED
    BY <1>4

\* A card with all that was written.
LEMMA CardFacts ==
  ASSUME CardTypes, NEW cursor \in BOOLEAN
  PROVE  /\ Card(cursor) \in CardType /\ Card(cursor) # None
         /\ Card(cursor).pieces = textBuf /\ Card(cursor).tools = tools
  BY DEF CardTypes, CardType, Card, None

\* The chat is empty and nothing is written.
LEMMA InitCard == CInit => CardInv
  <1> SUFFICES ASSUME CInit PROVE CardInv
    OBVIOUS
  <1>1. CardTypes
    <2>1. collected = <<>> /\ todo = <<>> /\ textBuf = <<>> /\ tools = <<>> /\ cards = <<>>
      BY DEF CInit
    <2>2. messages = 0 /\ cardID = 0 /\ target = 0 /\ sendTo = 0 /\ hstate = "running"
      BY DEF CInit
    <2> QED
      BY <2>1, <2>2 DEF CardTypes
  <1>2. UpToDate /\ FinalShown
    BY DEF CInit, UpToDate, FinalShown
  <1>3. closeErr # "shown"
    BY DEF CInit
  <1> QED
    BY <1>1, <1>2, <1>3 DEF CardInv

\* consume makes calls of the writer, and only while the handler runs.
LEMMA ConsumeInv ==
  ASSUME CardInv, consume
  PROVE  CardInv' /\ UNCHANGED cards
  <1>0. /\ collected \in Seq(Nat) /\ messages \in Nat
    BY DEF CardInv, CardTypes
  <1>1. /\ hstate = "running" /\ messages' = messages + 1
        /\ UNCHANGED <<textBuf, tools, cardID, sending, sendTo, hstate, final, target, closeErr, cards>>
    BY DEF consume, writerVars, closeVars
  <1>2. collected' \in Seq(Nat) /\ todo' \in Seq(WriterCall)
    <2>1. ASSUME NEW pieces \in Seq(Nat), NEW completed \in BOOLEAN, ConsumeText(completed, pieces)
          PROVE  collected' \in Seq(Nat) /\ todo' \in Seq(WriterCall)
      <3> DEFINE r == [call |-> "text", pieces |-> pieces]
      <3>1. r \in WriterCall
        BY DEF WriterCall
      <3>2. collected' \in {pieces, collected, collected \o pieces}
        BY <2>1 DEF ConsumeText
      <3>3. todo' = <<>> \/ todo' = <<r>>
        BY <2>1 DEF ConsumeText
      <3> HIDE DEF r
      <3>a. <<>> \in Seq(WriterCall) /\ <<r>> \in Seq(WriterCall)
        BY <3>1
      <3>4. todo' \in Seq(WriterCall)
        BY <3>3, <3>a, Zenon
      <3>b. collected \o pieces \in Seq(Nat)
        BY <1>0
      <3>5. collected' \in Seq(Nat)
        BY <1>0, <3>2, <3>b, Zenon
      <3> QED
        BY <3>4, <3>5
    <2>2. ASSUME NEW key \in Keys, NEW completed \in BOOLEAN, emitToolEvents(key, completed),
                 UNCHANGED collected
          PROVE  collected' \in Seq(Nat) /\ todo' \in Seq(WriterCall)
      <3> DEFINE s == [call |-> "start", key |-> key]
                 e == [call |-> "end", key |-> key]
      <3>1. s \in WriterCall /\ e \in WriterCall
        BY DEF WriterCall
      <3>2. \E a \in {<<>>, <<s>>}, b \in {<<>>, <<e>>} : todo' = a \o b
        BY <2>2 DEF emitToolEvents
      <3> HIDE DEF s, e
      <3>3. <<>> \in Seq(WriterCall) /\ <<s>> \in Seq(WriterCall) /\ <<e>> \in Seq(WriterCall)
        BY <3>1
      <3>4. \A a, b \in Seq(WriterCall) : a \o b \in Seq(WriterCall)
        OBVIOUS
      <3>5. todo' \in Seq(WriterCall)
        BY <3>2, <3>3, <3>4
      <3> QED
        BY <1>0, <2>2, <3>5
    <2>3. <<messages + 1>> \in Seq(Nat)
      BY <1>0
    <2> QED
      BY <1>0, <2>1, <2>2, <2>3 DEF consume
  <1>3. CardTypes'
    BY <1>0, <1>1, <1>2 DEF CardInv, CardTypes
  <1>4. UpToDate' /\ FinalShown' /\ closeErr' # "shown"
    BY <1>1 DEF CardInv, UpToDate, FinalShown, Written, Card
  <1> QED
    BY <1>1, <1>3, <1>4 DEF CardInv

\* WriteText: cards show a part of a longer text.
LEMMA WriteTextInv ==
  ASSUME CardInv, WriteText
  PROVE  CardInv' /\ UNCHANGED cards
  <1>0. /\ todo \in Seq(WriterCall) /\ textBuf \in Seq(Nat) /\ cards \in Seq(CardType)
    BY DEF CardInv, CardTypes
  <1>1. /\ todo # <<>> /\ Head(todo).call = "text" /\ sending = None
        /\ textBuf' = textBuf \o Head(todo).pieces /\ todo' = Tail(todo)
        /\ UNCHANGED <<collected, messages, tools, cardID, sending, sendTo, hstate, final, target, closeErr, cards>>
    BY DEF WriteText, Unlocked, collectorVars, closeVars
  <1>2. Head(todo).pieces \in Seq(Nat) /\ todo' \in Seq(WriterCall)
    <2>1. Head(todo) \in WriterCall /\ Tail(todo) \in Seq(WriterCall)
      BY <1>0, <1>1
    <2> QED
      BY <1>1, <2>1 DEF WriterCall
  <1>3. hstate = "running"
    BY <1>1 DEF CardInv, UpToDate
  <1>4. /\ textBuf' \in Seq(Nat) /\ Len(textBuf') >= Len(textBuf)
        /\ \A i \in 1 .. Len(textBuf) : textBuf'[i] = textBuf[i]
    BY <1>0, <1>1, <1>2
  <1>5. CardTypes'
    BY <1>1, <1>2, <1>4 DEF CardInv, CardTypes
  <1>6. ASSUME NEW i \in 1 .. Len(cards) PROVE Written(cards[i])'
    <2>1. Written(cards[i]) /\ cards[i] \in CardType /\ cards' = cards
      BY <1>0, <1>1 DEF CardInv, UpToDate
    <2>2. cards[i].pieces \in Seq(Nat)
      BY <2>1 DEF CardType
    <2>3. /\ Len(cards[i].pieces) <= Len(textBuf)
          /\ \A k \in 1 .. Len(cards[i].pieces) : cards[i].pieces[k] = textBuf[k]
      BY <2>1 DEF Written
    <2>4. /\ Len(cards[i].pieces) <= Len(textBuf')
          /\ \A k \in 1 .. Len(cards[i].pieces) : cards[i].pieces[k] = textBuf'[k]
      BY <1>0, <1>4, <2>2, <2>3
    <2> QED
      BY <1>1, <2>1, <2>4 DEF Written
  <1>7. UpToDate' /\ FinalShown' /\ closeErr' # "shown"
    BY <1>1, <1>3, <1>6 DEF CardInv, UpToDate, FinalShown
  <1> QED
    BY <1>1, <1>5, <1>7 DEF CardInv

\* WriteEvent: tools are added at the end, and only a running one changes.
LEMMA WriteEventInv ==
  ASSUME CardInv, WriteEvent
  PROVE  CardInv' /\ UNCHANGED cards
  <1>0. /\ todo \in Seq(WriterCall) /\ tools \in Seq(ToolRun) /\ cards \in Seq(CardType)
    BY DEF CardInv, CardTypes
  <1>1. /\ todo # <<>> /\ Head(todo).call # "text" /\ sending = None /\ todo' = Tail(todo)
        /\ UNCHANGED <<collected, messages, textBuf, cardID, sending, sendTo, hstate, final, target, closeErr, cards>>
    BY DEF WriteEvent, Unlocked, collectorVars, closeVars
  <1> DEFINE key == Head(todo).key
             running == {i \in DOMAIN tools : tools[i].key = key /\ tools[i].status = "running"}
             first == CHOOSE i \in running : \A j \in running : i <= j
  <1>2. key \in Keys /\ todo' \in Seq(WriterCall)
    <2>1. Head(todo) \in WriterCall /\ Tail(todo) \in Seq(WriterCall)
      BY <1>0, <1>1
    <2> QED
      BY <1>1, <2>1 DEF WriterCall
  <1>3. hstate = "running"
    BY <1>1 DEF CardInv, UpToDate
  <1>4. \/ tools' = tools
        \/ tools' = Append(tools, [key |-> key, status |-> "running"])
        \/ /\ running # {}
           /\ \E status \in {"done", "error"} : tools' = [tools EXCEPT ![first].status = status]
    BY DEF WriteEvent
  <1>5. running # {} => first \in running
    <2>1. running \subseteq Nat
      BY <1>0
    <2> HIDE DEF running
    <2> QED
      BY <2>1, LeastExists
  <1>6. running \subseteq 1 .. Len(tools) /\ \A i \in running : tools[i].status = "running"
    BY <1>0
  <1> HIDE DEF key, running, first
  <1>7. /\ tools' \in Seq(ToolRun) /\ Len(tools') >= Len(tools)
        /\ \A i \in 1 .. Len(tools) : tools[i].status # "running" => tools'[i] = tools[i]
    <2>1. CASE tools' = tools
      BY <1>0, <2>1
    <2>2. CASE tools' = Append(tools, [key |-> key, status |-> "running"])
      <3> DEFINE r == [key |-> key, status |-> "running"]
      <3>1. r \in ToolRun
        BY <1>2 DEF ToolRun
      <3> HIDE DEF r
      <3>2. tools' = Append(tools, r)
        BY <2>2 DEF r
      <3> QED
        BY <1>0, <3>1, <3>2
    <2>3. ASSUME running # {}, NEW status \in {"done", "error"}, tools' = [tools EXCEPT ![first].status = status]
          PROVE  /\ tools' \in Seq(ToolRun) /\ Len(tools') >= Len(tools)
                 /\ \A i \in 1 .. Len(tools) : tools[i].status # "running" => tools'[i] = tools[i]
      <3>1. first \in 1 .. Len(tools) /\ tools[first].status = "running" /\ tools[first] \in ToolRun
        BY <1>0, <1>5, <1>6, <2>3
      <3> DEFINE r == [tools[first] EXCEPT !.status = status]
      <3>2. r \in ToolRun
        BY <3>1 DEF ToolRun
      <3>3. tools' = [tools EXCEPT ![first] = r]
        BY <2>3
      <3> HIDE DEF r
      <3> QED
        BY <1>0, <3>1, <3>2, <3>3
    <2> QED
      BY <1>4, <2>1, <2>2, <2>3
  <1>8. CardTypes'
    BY <1>1, <1>2, <1>7 DEF CardInv, CardTypes
  <1>9. ASSUME NEW i \in 1 .. Len(cards) PROVE Written(cards[i])'
    <2>1. Written(cards[i]) /\ cards[i] \in CardType /\ cards' = cards
      BY <1>0, <1>1 DEF CardInv, UpToDate
    <2>2. cards[i].tools \in Seq(ToolRun)
      BY <2>1 DEF CardType
    <2>3. /\ Len(cards[i].tools) <= Len(tools)
          /\ \A k \in 1 .. Len(cards[i].tools) :
               cards[i].tools[k].status # "running" => tools[k] = cards[i].tools[k]
      BY <2>1 DEF Written
    <2>4. /\ Len(cards[i].tools) <= Len(tools')
          /\ \A k \in 1 .. Len(cards[i].tools) :
               cards[i].tools[k].status # "running" => tools'[k] = cards[i].tools[k]
      <3>1. /\ Len(cards[i].tools) \in Nat /\ Len(tools) \in Nat /\ Len(tools') \in Nat
        BY <1>0, <1>7, <2>2
      <3>2. \A k \in 1 .. Len(cards[i].tools) : k \in 1 .. Len(tools)
        BY <2>3, <3>1
      <3> QED
        BY <1>7, <2>3, <3>1, <3>2
    <2> QED
      BY <1>1, <2>1, <2>4 DEF Written
  <1>10. UpToDate' /\ FinalShown' /\ closeErr' # "shown"
    BY <1>1, <1>3, <1>9 DEF CardInv, UpToDate, FinalShown
  <1> QED
    BY <1>1, <1>8, <1>10 DEF CardInv

\* A request shows a complete card, in place of another one or as a new one.
LEMMA Sent ==
  ASSUME CardInv, NEW id \in 0 .. Len(cards), NEW card \in CardType,
         card.pieces = textBuf, card.tools = tools, UNCHANGED <<textBuf, tools>>, ApiCall(id, card)
  PROVE  /\ cards' \in Seq(CardType) /\ Len(cards) <= Len(cards')
         /\ id = 0 => Len(cards') = Len(cards) + 1
         /\ \E i \in 1 .. Len(cards') : cards'[i] = card
         /\ \A i \in 1 .. Len(cards) : cards'[i] = card \/ cards'[i] = cards[i]
         /\ \A i \in 1 .. Len(cards') : Written(cards[i])'
  <1>0. /\ cards \in Seq(CardType) /\ textBuf \in Seq(Nat) /\ tools \in Seq(ToolRun)
    BY DEF CardInv, CardTypes
  <1>1. /\ cards' \in Seq(CardType) /\ Len(cards) <= Len(cards')
        /\ id = 0 => Len(cards') = Len(cards) + 1
        /\ \E i \in 1 .. Len(cards') : cards'[i] = card
        /\ \A i \in 1 .. Len(cards') : cards'[i] = card \/ (i \in 1 .. Len(cards) /\ cards'[i] = cards[i])
    <2>1. CASE id = 0
      <3>1. cards' = Append(cards, card)
        BY <2>1 DEF ApiCall
      <3>2. /\ cards' \in Seq(CardType) /\ Len(cards') = Len(cards) + 1
            /\ cards'[Len(cards) + 1] = card /\ Len(cards) \in Nat
            /\ \A i \in 1 .. Len(cards) : cards'[i] = cards[i]
        BY <1>0, <3>1
      <3>3. Len(cards) + 1 \in 1 .. Len(cards')
        BY <3>2
      <3>4. \A i \in 1 .. Len(cards') : i = Len(cards) + 1 \/ i \in 1 .. Len(cards)
        BY <3>2
      <3> QED
        BY <3>2, <3>3, <3>4
    <2>2. CASE id # 0
      <3>1. cards' = [cards EXCEPT ![id] = card] /\ id \in 1 .. Len(cards)
        BY <1>0, <2>2 DEF ApiCall
      <3>2. cards' \in Seq(CardType) /\ Len(cards') = Len(cards) /\ Len(cards) \in Nat
        BY <1>0, <3>1
      <3>3. cards'[id] = card /\ \A i \in 1 .. Len(cards) : i # id => cards'[i] = cards[i]
        BY <1>0, <3>1
      <3>4. \E i \in 1 .. Len(cards') : cards'[i] = card
        BY <3>1, <3>2, <3>3
      <3>5. \A i \in 1 .. Len(cards') : cards'[i] = card \/ (i \in 1 .. Len(cards) /\ cards'[i] = cards[i])
        BY <3>2, <3>3
      <3>6. Len(cards) <= Len(cards')
        BY <3>2
      <3> QED
        BY <2>2, <3>2, <3>4, <3>5, <3>6
    <2> QED
      BY <2>1, <2>2
  <1>2. ASSUME NEW i \in 1 .. Len(cards') PROVE Written(cards[i])'
    <2>1. CASE cards'[i] = card
      BY <1>0, <2>1 DEF Written
    <2>2. CASE i \in 1 .. Len(cards) /\ cards'[i] = cards[i]
      <3>1. Written(cards[i])
        BY <2>2 DEF CardInv, UpToDate
      <3> QED
        BY <2>2, <3>1 DEF Written
    <2> QED
      BY <1>1, <2>1, <2>2
  <1>3. \A i \in 1 .. Len(cards) : i \in 1 .. Len(cards')
    <2>1. Len(cards) \in Nat /\ Len(cards') \in Nat
      BY <1>0, <1>1
    <2> QED
      BY <1>1, <2>1
  <1> QED
    BY <1>1, <1>2, <1>3

\* A card does not go back.
Onward(a, b) ==
  /\ IsPrefix(a.pieces, b.pieces)
  /\ \A j \in DOMAIN a.tools : a.tools[j].status # "running" => b.tools[j] = a.tools[j]

\* A card that is left alone, or replaced by a complete one, does not go back.
LEMMA OnwardFacts ==
  ASSUME CardInv, NEW i \in 1 .. Len(cards), NEW card,
         card = cards[i] \/ (card.pieces = textBuf /\ card.tools = tools)
  PROVE  Onward(cards[i], card)
  <1>0. /\ cards[i] \in CardType /\ textBuf \in Seq(Nat) /\ tools \in Seq(ToolRun) /\ Written(cards[i])
    BY DEF CardInv, CardTypes, UpToDate
  <1>1. cards[i].pieces \in Seq(Nat) /\ cards[i].tools \in Seq(ToolRun)
    BY <1>0 DEF CardType
  <1>2. CASE card = cards[i]
    <2>1. IsPrefix(cards[i].pieces, cards[i].pieces)
      BY <1>1 DEF IsPrefix
    <2> QED
      BY <1>2, <2>1 DEF Onward
  <1>3. CASE card.pieces = textBuf /\ card.tools = tools
    <2> DEFINE p == cards[i].pieces
    <2>1. Len(p) <= Len(textBuf) /\ \A k \in 1 .. Len(p) : p[k] = textBuf[k]
      BY <1>0 DEF Written
    <2>2. p \in Seq(Nat)
      BY <1>1
    <2> HIDE DEF p
    <2>3. Len(p) \in Nat /\ Len(textBuf) \in Nat
      BY <1>0, <2>2
    <2>4. SubSeq(p, 1, Len(p)) = [k \in 1 .. Len(p) |-> p[k]]
      BY <2>2, <2>3
    <2>5. SubSeq(textBuf, 1, Len(p)) = [k \in 1 .. Len(p) |-> textBuf[k]]
      BY <1>0, <2>1, <2>3
    <2>6. IsPrefix(p, textBuf)
      BY <2>1, <2>4, <2>5 DEF IsPrefix
    <2>7. \A j \in DOMAIN cards[i].tools :
            cards[i].tools[j].status # "running" => card.tools[j] = cards[i].tools[j]
      <3>1. \A j \in 1 .. Len(cards[i].tools) :
              cards[i].tools[j].status # "running" => tools[j] = cards[i].tools[j]
        BY <1>0 DEF Written
      <3>2. DOMAIN cards[i].tools = 1 .. Len(cards[i].tools)
        BY <1>1
      <3> QED
        BY <1>3, <3>1, <3>2
    <2> QED
      BY <1>3, <2>6, <2>7 DEF Onward, p
  <1> QED
    BY <1>2, <1>3

\* A flush is sent.
LEMMA FlushedInv ==
  ASSUME CardInv, Flushed
  PROVE  CardInv' /\ \A i \in 1 .. Len(cards) : Onward(cards[i], cards'[i])
  <1>0. /\ cards \in Seq(CardType) /\ cardID \in 0 .. Len(cards) /\ target \in 0 .. Len(cards)
        /\ sending # None /\ sending = Card(TRUE) /\ TRUE \in BOOLEAN /\ sendTo \in 0 .. Len(cards)
    BY DEF Flushed, CardInv, CardTypes, UpToDate
  <1>1. /\ sending \in CardType /\ sending.pieces = textBuf /\ sending.tools = tools
    BY <1>0, CardFacts DEF CardInv
  <1>2. /\ sending' = None /\ sendTo' = 0
        /\ UNCHANGED <<collected, messages, todo, textBuf, tools, hstate, final, target, closeErr>>
    BY DEF Flushed, collectorVars, writerVars, closeVars
  <1>3. CASE UNCHANGED <<cards, cardID>>
    <2>1. CardTypes'
      BY <1>2, <1>3 DEF CardInv, CardTypes
    <2>2. UpToDate' /\ FinalShown'
      BY <1>2, <1>3 DEF CardInv, UpToDate, FinalShown, Written, Card
    <2>3. ASSUME NEW i \in 1 .. Len(cards) PROVE Onward(cards[i], cards'[i])
      BY <1>3, OnwardFacts
    <2> QED
      BY <1>2, <2>1, <2>2, <2>3 DEF CardInv
  <1>4. CASE ApiCall(sendTo, sending) /\ (cardID' = (IF sendTo = 0 THEN Len(cards) + 1 ELSE cardID) \/ cardID' = cardID)
    <2>1. /\ cards' \in Seq(CardType) /\ Len(cards) <= Len(cards')
          /\ sendTo = 0 => Len(cards') = Len(cards) + 1
          /\ \E i \in 1 .. Len(cards') : cards'[i] = sending
          /\ \A i \in 1 .. Len(cards) : cards'[i] = sending \/ cards'[i] = cards[i]
          /\ \A i \in 1 .. Len(cards') : Written(cards[i])'
      BY <1>0, <1>1, <1>2, <1>4, Sent
    <2>2. cardID' \in 0 .. Len(cards') /\ target' \in 0 .. Len(cards') /\ sendTo' \in 0 .. Len(cards')
      <3>1. Len(cards) \in Nat /\ Len(cards') \in Nat
        BY <1>0, <2>1
      <3> QED
        BY <1>0, <1>2, <1>4, <2>1, <3>1
    <2>3. CardTypes'
      BY <1>2, <2>1, <2>2 DEF CardInv, CardTypes
    <2>4. UpToDate'
      BY <1>2, <2>1 DEF CardInv, UpToDate, Card
    <2>5. FinalShown'
      <3>1. PICK i \in 1 .. Len(cards') : cards'[i] = sending
        BY <2>1
      <3>2. i \in DOMAIN cards'
        BY <2>1
      <3> QED
        BY <1>1, <1>2, <3>1, <3>2 DEF FinalShown
    <2>6. ASSUME NEW i \in 1 .. Len(cards) PROVE Onward(cards[i], cards'[i])
      BY <1>1, <2>1, OnwardFacts
    <2> QED
      BY <1>2, <2>3, <2>4, <2>5, <2>6 DEF CardInv
  <1> QED
    BY <1>3, <1>4 DEF Flushed

\* The final card is sent.
LEMMA CloseUpdatesInv ==
  ASSUME CardInv, CloseUpdates
  PROVE  CardInv' /\ \A i \in 1 .. Len(cards) : Onward(cards[i], cards'[i])
  <1>0. /\ cards \in Seq(CardType) /\ cardID \in 0 .. Len(cards) /\ target \in 0 .. Len(cards)
        /\ sendTo \in 0 .. Len(cards) /\ hstate = "updating" /\ final = Card(FALSE)
    BY DEF CloseUpdates, CardInv, CardTypes, UpToDate
  <1>1. /\ final \in CardType /\ final.pieces = textBuf /\ final.tools = tools
    BY <1>0, CardFacts DEF CardInv
  <1>2. /\ hstate' = "closed"
        /\ UNCHANGED <<collected, messages, todo, textBuf, tools, sending, sendTo, final, target>>
    BY DEF CloseUpdates, collectorVars, writerVars
  <1>3. CASE UNCHANGED <<cards, cardID>> /\ closeErr' = "failed"
    <2>1. CardTypes'
      BY <1>2, <1>3 DEF CardInv, CardTypes
    <2>2. UpToDate' /\ FinalShown'
      BY <1>0, <1>2, <1>3 DEF CardInv, UpToDate, FinalShown, Written, Card
    <2>3. ASSUME NEW i \in 1 .. Len(cards) PROVE Onward(cards[i], cards'[i])
      BY <1>3, OnwardFacts
    <2> QED
      BY <1>2, <2>1, <2>2, <2>3 DEF CardInv
  <1>4. CASE /\ ApiCall(target, final)
             /\ cardID' = (IF target = 0 THEN Len(cards) + 1 ELSE cardID) \/ cardID' = cardID
    <2>1. /\ cards' \in Seq(CardType) /\ Len(cards) <= Len(cards')
          /\ target = 0 => Len(cards') = Len(cards) + 1
          /\ \E i \in 1 .. Len(cards') : cards'[i] = final
          /\ \A i \in 1 .. Len(cards) : cards'[i] = final \/ cards'[i] = cards[i]
          /\ \A i \in 1 .. Len(cards') : Written(cards[i])'
      BY <1>0, <1>1, <1>2, <1>4, Sent
    <2>2. cardID' \in 0 .. Len(cards') /\ target' \in 0 .. Len(cards') /\ sendTo' \in 0 .. Len(cards')
      <3>1. Len(cards) \in Nat /\ Len(cards') \in Nat
        BY <1>0, <2>1
      <3> QED
        BY <1>0, <1>2, <1>4, <2>1, <3>1
    <2>3. CardTypes'
      BY <1>2, <2>1, <2>2 DEF CardInv, CardTypes
    <2>4. UpToDate'
      BY <1>0, <1>2, <2>1 DEF CardInv, UpToDate, Card
    <2>5. FinalShown'
      <3>1. PICK i \in 1 .. Len(cards') : cards'[i] = final
        BY <2>1
      <3>2. i \in DOMAIN cards'
        BY <2>1
      <3> QED
        BY <1>1, <1>2, <3>1, <3>2 DEF FinalShown
    <2>6. ASSUME NEW i \in 1 .. Len(cards) PROVE Onward(cards[i], cards'[i])
      BY <1>1, <2>1, OnwardFacts
    <2> QED
      BY <1>2, <2>3, <2>4, <2>5, <2>6 DEF CardInv
  <1> QED
    BY <1>3, <1>4 DEF CloseUpdates

\* The other steps of flushes and of Close leave text, tools and cards alone.
LEMMA QuietCardInv ==
  ASSUME CardInv,
         flush \/ flushSync \/ CloseBegins \/ CloseBuilds \/ CloseReads \/ Cancel \/ UNCHANGED cvars
  PROVE  CardInv' /\ UNCHANGED cards
  <1>1. UNCHANGED <<collected, messages, todo, textBuf, tools, cardID, closeErr, cards>>
    BY DEF flush, flushSync, CloseBegins, CloseBuilds, CloseReads, Cancel, cvars, collectorVars,
           writerVars, closeVars
  <1>2. sending' = sending \/ sending' = None \/ sending' = Card(TRUE)
    BY DEF flush, flushSync, CloseBegins, CloseBuilds, CloseReads, Cancel, cvars
  <1>3. Card(TRUE)' = Card(TRUE) /\ Card(FALSE)' = Card(FALSE)
    BY <1>1 DEF Card
  <1>4. /\ hstate' \in {"running", "closing", "building", "updating", "closed"}
        /\ target' \in {target, cardID} /\ sendTo' \in {sendTo, cardID, 0}
    BY DEF flush, flushSync, CloseBegins, CloseBuilds, CloseReads, Cancel, cvars, closeVars, CardInv,
           CardTypes
  <1>5. /\ hstate' # "running" => todo = <<>>
        /\ hstate' \in {"building", "updating", "closed"} => final' = Card(FALSE)
        /\ closeErr = "shown" => hstate' = "closed"
    <2>1. CASE CloseBegins
      BY <2>1 DEF CloseBegins, CardInv
    <2>2. CASE CloseBuilds
      BY <2>2 DEF CloseBuilds, CardInv, UpToDate
    <2>3. CASE CloseReads
      BY <2>3 DEF CloseReads, CardInv, UpToDate
    <2>4. CASE UNCHANGED closeVars
      BY <2>4 DEF closeVars, CardInv, UpToDate
    <2> QED
      BY <2>1, <2>2, <2>3, <2>4 DEF flush, flushSync, Cancel, cvars
  <1>6. CardTypes'
    BY <1>1, <1>4 DEF CardInv, CardTypes
  <1>7. UpToDate'
    <2>1. \A i \in 1 .. Len(cards) : Written(cards[i])'
      BY <1>1 DEF CardInv, UpToDate, Written
    <2> QED
      BY <1>1, <1>2, <1>3, <1>5, <2>1 DEF CardInv, UpToDate
  <1>8. FinalShown'
    BY <1>1 DEF CardInv, FinalShown
  <1> QED
    BY <1>1, <1>5, <1>6, <1>7, <1>8 DEF CardInv

\* Every step keeps the invariant, and no card goes back.
LEMMA StepCard ==
  ASSUME CardInv, [CNext]_cvars
  PROVE  CardInv' /\ \A i \in 1 .. Len(cards) : Onward(cards[i], cards'[i])
  <1>1. CASE UNCHANGED cards /\ CardInv'
    <2>1. ASSUME NEW i \in 1 .. Len(cards) PROVE Onward(cards[i], cards'[i])
      BY <1>1, OnwardFacts
    <2> QED
      BY <1>1, <2>1
  <1>2. CASE Flushed
    BY <1>2, FlushedInv
  <1>3. CASE CloseUpdates
    BY <1>3, CloseUpdatesInv
  <1> QED
    BY <1>1, <1>2, <1>3, ConsumeInv, WriteTextInv, WriteEventInv, QuietCardInv DEF CNext, Quiet

\* Once Close has shown the final card, some card shows all that was written and how
\* every tool ended, also after flushes that come late.
THEOREM FinalShownHolds == CSpec => []FinalShown
  <1>1. CardInv => FinalShown
    BY DEF CardInv
  <1> QED
    BY <1>1, InitCard, StepCard, PTL DEF CSpec

\* No card ever loses text or shows a finished tool as running again.
THEOREM NeverBackHolds == CSpec => NeverBack
  <1>1. ASSUME CardInv, [CNext]_cvars
        PROVE  [\A i \in DOMAIN cards :
                  /\ IsPrefix(cards[i].pieces, cards'[i].pieces)
                  /\ \A j \in DOMAIN cards[i].tools :
                       cards[i].tools[j].status # "running" => cards'[i].tools[j] = cards[i].tools[j]]_cvars
    <2>1. DOMAIN cards = 1 .. Len(cards)
      BY <1>1 DEF CardInv, CardTypes
    <2> QED
      BY <1>1, <2>1, StepCard DEF Onward
  <1>2. CInit => CardInv
    BY InitCard
  <1>3. CardInv /\ [CNext]_cvars => CardInv'
    BY StepCard
  <1> QED
    BY <1>1, <1>2, <1>3, PTL DEF CSpec, NeverBack

-----------------------------------------------------------------------------
(***************************************************************************)
(* The daemon.                                                             *)
(***************************************************************************)
Entry == {"user", "reply"} \X Int
JobType ==
  [pc : {"none", "over", "mark", "prune", "range", "handle"} \cup Working,
   id : Int, chat : Chats \cup {""}, name : SessionIDs \cup {""}, stamp : Nat, new : BOOLEAN,
   ensured : BOOLEAN, obj : Nat, plan : Seq(Entry), copy : SUBSET Entry, alone : BOOLEAN]
ObjectType == [has : SUBSET Entry, tail : Seq(Entry)]
FileType == [kind : {"absent", "torn", "history"}, has : SUBSET Entry]
TurnType == [name : SessionIDs, id : Int]

\* A goroutine that handles a message knows its chat, and one that works a session.
JobOK(t) ==
  /\ t \in JobType
  /\ t.pc = "mark" => t.id \in Messages
  /\ t.pc \in {"mark", "prune", "range", "handle"} => t.chat \in Chats
  /\ t.pc \in Working => t.name \in SessionIDs
JobsTyped == job \in [Jobs -> JobType] /\ \A j \in Jobs : JobOK(job[j])

DaemonTypes ==
  /\ world \in Worlds /\ now \in Nat /\ crashes \in Nat
  /\ processedMessages \in [Messages -> Nat \cup {-1}] /\ lastPruneAt \in Nat \cup {-1}
  /\ ranged \in [Jobs -> SUBSET Messages] /\ doomed \in [Jobs -> SUBSET Messages] /\ slowPrune \in BOOLEAN
  /\ sessions \in [Chats -> SessionIDs]
  /\ mem \in [SessionIDs -> Nat] /\ history \in Seq(ObjectType) /\ file \in [SessionIDs -> FileType]
  /\ JobsTyped
  /\ accepted \in [Messages -> Seq([arrived : Nat, at : Nat])]
  /\ kept \in SUBSET TurnType

\* The table of the Lark channel and the handlings it let through.  The entry of a
\* message is the arrival of its last handling; where there is none, every
\* handling arrived more than TTL ago, because a prune uses a clock that was read
\* earlier.
Known(m) ==
  /\ \A i \in 1 .. Len(accepted[m]) : accepted[m][i].at <= now
  /\ \A i, k \in 1 .. Len(accepted[m]) : i < k => accepted[m][k].at > accepted[m][i].arrived + TTL
  /\ processedMessages[m] = -1 =>
       \A i \in 1 .. Len(accepted[m]) : accepted[m][i].arrived + TTL < now
  /\ processedMessages[m] # -1 =>
       /\ Len(accepted[m]) > 0
       /\ accepted[m][Len(accepted[m])].arrived = processedMessages[m]
TableRight ==
  world.channel = "lark" =>
    /\ \A j \in Jobs : job[j].stamp <= now
    /\ ~slowPrune => \A m \in Messages : Known(m)

\* The goroutines that prune.  Their clocks are TTL apart, so that of two of them
\* one has taken TTL already; the id that one in time is to delete still has the
\* entry it looked at, or at least one as old.
Apart(j, k) == job[j].stamp + TTL <= job[k].stamp \/ job[k].stamp + TTL <= job[j].stamp
DoomedOld(j) == \A m \in doomed[j] : now < job[j].stamp + TTL => Outdated(m, job[j].stamp)
PrunersRight ==
  world.channel = "lark" =>
    \A j \in Jobs :
      /\ doomed[j] # {} => job[j].pc = "range"
      /\ ~slowPrune => DoomedOld(j)
      /\ job[j].pc = "range" =>
           /\ lastPruneAt # -1 /\ job[j].stamp <= lastPruneAt
           /\ \A k \in Jobs \ {j} : job[k].pc = "range" => Apart(j, k)

-----------------------------------------------------------------------------
\* Turns that hold an object of the Manager, and the entries of a turn.
Holding == {"run", "save", "write"}
Entries(id) == {Asked(id), Reply(id)}

\* Nobody else works on the session of a goroutine that is alone.
AloneOK ==
  \A j, k \in Jobs :
    job[j].alone /\ job[j].pc \in Working /\ job[k].pc \in Working /\ job[k].name = job[j].name
      => k = j

\* Objects belong to one session.
Owner(n, o) == mem[n] = o \/ \E j \in Jobs : job[j].pc \in Holding /\ job[j].name = n /\ job[j].obj = o
ObjectsOK ==
  /\ \A n \in SessionIDs : mem[n] <= Len(history)
  /\ \A j \in Jobs : job[j].pc \in Holding => job[j].obj \in 1 .. Len(history)
  /\ \A n, p \in SessionIDs, o \in 1 .. Len(history) : Owner(n, o) /\ Owner(p, o) => n = p

\* A turn that is alone works on the object in memory, and its entries are there
\* or still to be appended.
TurnOK(j) ==
  /\ job[j].pc = "get" => job[j].plan = <<Asked(job[j].id), Reply(job[j].id)>>
  /\ job[j].alone /\ job[j].pc \in Holding =>
       /\ job[j].obj = mem[job[j].name]
       /\ \A e \in Entries(job[j].id) :
            \/ e \in history[job[j].obj].has
            \/ job[j].pc = "run" /\ \E i \in 1 .. Len(job[j].plan) : job[j].plan[i] = e
       /\ job[j].pc = "write" => Entries(job[j].id) \subseteq job[j].copy
TurnsOK == \A j \in Jobs : TurnOK(j)

\* Where a finished turn is to be kept nobody is clearing the session, and its
\* entries are in the object in memory, which everyone uses, and in every copy
\* that may still be written.
Spares(j, t) ==
  job[j].pc \in Working /\ job[j].name = t.name =>
    /\ job[j].pc \notin {"forget", "remove"}
    /\ job[j].pc \in Holding => job[j].obj = mem[t.name]
    /\ job[j].pc = "write" => Entries(t.id) \subseteq job[j].copy
Remembered(t) == mem[t.name] # 0 => Entries(t.id) \subseteq history[mem[t.name]].has
KeptTurns == \A t \in kept : Remembered(t) /\ \A j \in Jobs : Spares(j, t)

TurnInv == AloneOK /\ ObjectsOK /\ TurnsOK /\ KeptTurns /\ TurnsKept
DaemonInv == DaemonTypes /\ TableRight /\ PrunersRight /\ TurnInv

-----------------------------------------------------------------------------
\* Goroutine j becomes t, and the others stay as they are.
Becomes(j, t) ==
  /\ job' = [job EXCEPT ![j] = t] /\ job'[j] = t
  /\ \A k \in Jobs : k # j => job'[k] = job[k]

\* Replacing one goroutine keeps the types and touches no other.
LEMMA BecomesFacts ==
  ASSUME DaemonTypes, NEW j \in Jobs, NEW t, JobOK(t), job' = [job EXCEPT ![j] = t]
  PROVE  JobsTyped' /\ Becomes(j, t)
  <1>1. job \in [Jobs -> JobType] /\ t \in JobType /\ \A k \in Jobs : JobOK(job[k])
    BY DEF DaemonTypes, JobsTyped, JobOK
  <1>2. job' \in [Jobs -> JobType] /\ Becomes(j, t)
    BY <1>1 DEF Becomes
  <1>3. \A k \in Jobs : JobOK(job'[k])
    BY <1>1, <1>2 DEF Becomes
  <1> QED
    BY <1>2, <1>3 DEF JobsTyped, JobOK

\* A goroutine that has not started, and one that is over.
LEMMA NoJobFacts ==
  /\ JobOK(NoJob) /\ JobOK([NoJob EXCEPT !.pc = "over"])
  /\ [NoJob EXCEPT !.pc = "over"].stamp = 0 /\ [NoJob EXCEPT !.pc = "over"].pc = "over"
  /\ NoJob.stamp = 0 /\ NoJob.pc = "none"
  <1>1. NoJob \in JobType
    <2>1. <<>> \in Seq(Entry)
      OBVIOUS
    <2> QED
      BY <2>1 DEF NoJob, JobType
  <1>2. [NoJob EXCEPT !.pc = "over"] \in JobType
    BY <1>1 DEF JobType
  <1>3. /\ [NoJob EXCEPT !.pc = "over"].stamp = 0 /\ [NoJob EXCEPT !.pc = "over"].pc = "over"
        /\ NoJob.stamp = 0 /\ NoJob.pc = "none"
    BY DEF NoJob
  <1> QED
    BY <1>1, <1>2, <1>3 DEF JobOK, Working

\* A goroutine that ends: the others stay as they are.
LEMMA EndsFacts ==
  ASSUME DaemonTypes, NEW j \in Jobs, Ends(j)
  PROVE  JobsTyped' /\ Becomes(j, [NoJob EXCEPT !.pc = "over"])
  BY NoJobFacts, BecomesFacts DEF Ends

\* A goroutine that starts to work on a session: the others stay as they are, but for
\* alone.
Joins(j, n, pc, plan, id) ==
  /\ job'[j].pc = pc /\ job'[j].name = n /\ job'[j].plan = plan /\ job'[j].stamp = 0
  /\ job'[j].id = id
  /\ job'[j].alone => On(n) = {}
  /\ \A k \in Jobs : k # j =>
       /\ job'[k].pc = job[k].pc /\ job'[k].name = job[k].name /\ job'[k].id = job[k].id
       /\ job'[k].plan = job[k].plan /\ job'[k].obj = job[k].obj /\ job'[k].copy = job[k].copy
       /\ job'[k].stamp = job[k].stamp
       /\ job'[k].alone => job[k].alone /\ k \notin On(n)

\* Starting to work on a session keeps the types and touches the others in alone
\* only.
LEMMA JoinsFacts ==
  ASSUME DaemonTypes, NEW j \in Jobs, NEW n \in SessionIDs, NEW t,
         NEW pc \in Working, NEW plan \in Seq(Entry), NEW id \in Int,
         JobOK(t), t.pc = pc, t.name = n, t.plan = plan, t.stamp = 0, t.id = id, t.alone = (On(n) = {}),
         job' = [k \in Jobs |-> CASE k = j -> t
                                  [] k # j /\ k \in On(n) -> [job[k] EXCEPT !.alone = FALSE]
                                  [] OTHER -> job[k]]
  PROVE  JobsTyped' /\ Joins(j, n, pc, plan, id)
  <1>0. /\ job \in [Jobs -> JobType] /\ \A k \in Jobs : JobOK(job[k]) /\ job[k] \in JobType
    BY DEF DaemonTypes, JobsTyped
  <1>1. job'[j] = t /\ \A k \in Jobs : k # j => job'[k] = IF k \in On(n) THEN [job[k] EXCEPT !.alone = FALSE] ELSE job[k]
    OBVIOUS
  <1>2. ASSUME NEW u, JobOK(u)
        PROVE  JobOK([u EXCEPT !.alone = FALSE])
    BY <1>2 DEF JobOK, JobType
  <1>3. \A k \in Jobs : JobOK(job'[k])
    BY <1>0, <1>1, <1>2, Zenon
  <1>4. job' \in [Jobs -> JobType]
    BY <1>3 DEF JobOK
  <1>5. Joins(j, n, pc, plan, id)
    <2>1. ASSUME NEW k \in Jobs, k # j
          PROVE  /\ job'[k].pc = job[k].pc /\ job'[k].name = job[k].name /\ job'[k].id = job[k].id
                 /\ job'[k].plan = job[k].plan /\ job'[k].obj = job[k].obj /\ job'[k].copy = job[k].copy
                 /\ job'[k].stamp = job[k].stamp
                 /\ job'[k].alone => job[k].alone /\ k \notin On(n)
      <3>1. CASE k \in On(n)
        <4>1. job'[k] = [job[k] EXCEPT !.alone = FALSE] /\ job[k] \in JobType
          BY <1>0, <1>1, <2>1, <3>1
        <4> QED
          BY <4>1 DEF JobType
      <3>2. CASE k \notin On(n)
        BY <1>1, <2>1, <3>2
      <3> QED
        BY <3>1, <3>2
    <2>2. job'[j].alone => On(n) = {}
      BY <1>1
    <2> QED
      BY <1>1, <2>1, <2>2 DEF Joins
  <1> QED
    BY <1>3, <1>4, <1>5 DEF JobsTyped, JobOK

-----------------------------------------------------------------------------
\* What the actions do to the goroutine that takes them.
LEMMA Typed ==
  ASSUME DaemonTypes, NEW j \in Jobs
  PROVE  /\ job \in [Jobs -> JobType] /\ JobOK(job[j]) /\ job[j] \in JobType
         /\ j \in Nat /\ j # 0
         /\ Chats \subseteq SessionIDs /\ TTL \in Nat /\ TTL > 0 /\ Messages \subseteq Nat
         /\ world.channel \in {"lark", "weixin"}
  BY DaemonAssumption DEF DaemonTypes, JobsTyped, JobOK

\* A delivery carries the clock it read.
LEMMA ArrivesFacts ==
  ASSUME DaemonTypes, NEW j \in Jobs, NEW m \in Messages, NEW c \in Chats, Arrives(j, m, c)
  PROVE  /\ JobsTyped'
         /\ \E t : t.pc = "mark" /\ t.stamp = now /\ Becomes(j, t)
  <1> DEFINE t == [NoJob EXCEPT !.id = m, !.chat = c, !.stamp = now, !.pc = "mark"]
  <1>1. job' = [job EXCEPT ![j] = t]
    BY DEF Arrives
  <1>2. NoJob \in JobType /\ now \in Nat /\ m \in Int
    BY NoJobFacts, Typed DEF JobOK, DaemonTypes
  <1>3. t \in JobType /\ t.pc = "mark" /\ t.id = m /\ t.chat = c /\ t.stamp = now
    BY <1>2 DEF JobType
  <1> HIDE DEF t
  <1>4. JobOK(t)
    BY <1>3 DEF JobOK, Working
  <1> QED
    BY <1>1, <1>3, <1>4, BecomesFacts

\* Marking keeps the stamp of the delivery.
LEMMA MarksFacts ==
  ASSUME DaemonTypes, NEW j \in Jobs, Marks(j)
  PROVE  /\ JobsTyped' /\ job[j].id \in Messages
         /\ \E t : t.pc \in {"prune", "handle"} /\ t.stamp = job[j].stamp /\ Becomes(j, t)
  <1> DEFINE new == world.channel = "weixin" \/ processedMessages[job[j].id] = -1
             pc == IF world.channel = "lark" THEN "prune" ELSE "handle"
             t == [job[j] EXCEPT !.pc = pc, !.new = new]
  <1>1. job' = [job EXCEPT ![j] = t]
    BY Typed DEF Marks
  <1>2. /\ job[j] \in JobType /\ job[j].chat \in Chats /\ job[j].id \in Messages
    BY Typed DEF JobOK, Marks
  <1>3. pc \in {"prune", "handle"} /\ new \in BOOLEAN
    OBVIOUS
  <1> HIDE DEF pc, new
  <1>4. t \in JobType /\ t.pc = pc /\ t.chat = job[j].chat /\ t.stamp = job[j].stamp
    BY <1>2, <1>3 DEF JobType
  <1> HIDE DEF t
  <1>5. JobOK(t)
    BY <1>2, <1>3, <1>4 DEF JobOK, Working
  <1> QED
    BY <1>1, <1>2, <1>3, <1>4, <1>5, BecomesFacts

\* An update of pc alone, for a goroutine with a chat or at work.
LEMMA ProceedsFacts ==
  ASSUME DaemonTypes, NEW j \in Jobs, NEW pc, Proceeds(j, pc),
         \/ pc \in {"range", "handle"} /\ job[j].pc \in {"mark", "prune", "range"}
         \/ pc = "remove" /\ job[j].pc = "forget"
  PROVE  JobsTyped' /\ \E t : t.pc = pc /\ t.stamp = job[j].stamp /\ t.name = job[j].name
                              /\ t.alone = job[j].alone /\ Becomes(j, t)
  <1> DEFINE t == [job[j] EXCEPT !.pc = pc]
  <1>1. job' = [job EXCEPT ![j] = t]
    BY Typed DEF Proceeds
  <1>2. job[j] \in JobType /\ JobOK(job[j])
    BY Typed
  <1>3. t \in JobType /\ t.pc = pc /\ t.chat = job[j].chat /\ t.stamp = job[j].stamp /\ t.name = job[j].name
        /\ t.alone = job[j].alone
    BY <1>2 DEF JobType, Working
  <1> HIDE DEF t
  <1>4. JobOK(t)
    BY <1>2, <1>3 DEF JobOK, Working
  <1> QED
    BY <1>1, <1>3, <1>4, BecomesFacts

\* An entry of a turn.
LEMMA EntryFacts ==
  ASSUME NEW id \in Int
  PROVE  /\ Asked(id) \in Entry /\ Reply(id) \in Entry
         /\ <<Asked(id), Reply(id)>> \in Seq(Entry) /\ <<Reply(id)>> \in Seq(Entry)
         /\ <<>> \in Seq(Entry)
  <1>1. Asked(id) \in Entry /\ Reply(id) \in Entry
    BY DEF Asked, Reply, Entry
  <1> QED
    BY <1>1

\* A message that becomes a turn or a /clear.
LEMMA EntersFacts ==
  ASSUME DaemonTypes, NEW j \in Jobs, NEW n \in SessionIDs, NEW pc \in {"get", "forget"},
         NEW plan \in Seq(Entry), Enters(j, n, pc, plan)
  PROVE  JobsTyped' /\ Joins(j, n, pc, plan, job[j].id)
  <1> DEFINE a == On(n) = {}
             t == [job[j] EXCEPT !.pc = pc, !.name = n, !.plan = plan, !.alone = a,
                                 !.stamp = 0, !.new = FALSE]
  <1>1. job' = [k \in Jobs |-> CASE k = j -> t
                                 [] k # j /\ k \in On(n) -> [job[k] EXCEPT !.alone = FALSE]
                                 [] OTHER -> job[k]]
    BY DEF Enters
  <1>2. job[j] \in JobType /\ JobOK(job[j]) /\ a \in BOOLEAN /\ pc \in Working
    BY Typed DEF Working
  <1>a. a = (On(n) = {})
    OBVIOUS
  <1> HIDE DEF a
  <1>3. /\ t \in JobType /\ t.pc = pc /\ t.name = n /\ t.plan = plan /\ t.stamp = 0 /\ t.id = job[j].id
        /\ t.alone = a
    BY <1>2 DEF JobType
  <1>4. job[j].id \in Int
    BY <1>2 DEF JobType
  <1> HIDE DEF t
  <1>5. JobOK(t)
    BY <1>3 DEF JobOK
  <1> QED
    BY <1>1, <1>2, <1>a, <1>3, <1>4, <1>5, JoinsFacts

\* A cron job that becomes a turn.
LEMMA TriggersFacts ==
  ASSUME DaemonTypes, NEW j \in Jobs, NEW n \in Chats, Triggers(j, n)
  PROVE  JobsTyped' /\ n \in SessionIDs /\ Joins(j, n, "get", <<Asked(-j), Reply(-j)>>, -j)
  <1> DEFINE a == On(n) = {}
             plan == <<Asked(-j), Reply(-j)>>
             t == [NoJob EXCEPT !.id = -j, !.pc = "get", !.name = n, !.alone = a, !.plan = plan]
  <1>1. job' = [k \in Jobs |-> CASE k = j -> t
                                 [] k # j /\ k \in On(n) -> [job[k] EXCEPT !.alone = FALSE]
                                 [] OTHER -> job[k]]
    BY DEF Triggers
  <1>2. NoJob \in JobType /\ a \in BOOLEAN /\ "get" \in Working /\ -j \in Int /\ n \in SessionIDs /\ NoJob.stamp = 0
    BY Typed, NoJobFacts DEF Working, JobOK
  <1>3. plan \in Seq(Entry)
    BY <1>2, EntryFacts
  <1>a. a = (On(n) = {}) /\ plan = <<Asked(-j), Reply(-j)>>
    OBVIOUS
  <1> HIDE DEF a, plan
  <1>4. /\ t \in JobType /\ t.pc = "get" /\ t.name = n /\ t.plan = plan /\ t.stamp = 0 /\ t.id = -j
        /\ t.alone = a
    BY <1>2, <1>3 DEF JobType
  <1> HIDE DEF t
  <1>5. JobOK(t)
    BY <1>2, <1>4 DEF JobOK
  <1> QED
    BY <1>1, <1>2, <1>3, <1>a, <1>4, <1>5, JoinsFacts

\* A goroutine at work goes on; the others stay as they are.
Works(j, pc, obj, plan, copy) ==
  /\ job'[j].pc = pc /\ job'[j].obj = obj /\ job'[j].plan = plan /\ job'[j].copy = copy
  /\ job'[j].name = job[j].name /\ job'[j].id = job[j].id /\ job'[j].alone = job[j].alone
  /\ job'[j].stamp = job[j].stamp
  /\ \A k \in Jobs : k # j => job'[k] = job[k]

\* Going on keeps the session, the id and the stamp.
LEMMA WorksFacts ==
  ASSUME DaemonTypes, NEW j \in Jobs, NEW t \in JobType, job' = [job EXCEPT ![j] = t],
         job[j].pc \in Working, t.pc \in Working, t.name = job[j].name, t.id = job[j].id,
         t.alone = job[j].alone, t.stamp = job[j].stamp
  PROVE  JobsTyped' /\ Works(j, t.pc, t.obj, t.plan, t.copy)
  <1>1. JobOK(t)
    BY Typed DEF JobOK, Working
  <1> QED
    BY <1>1, BecomesFacts DEF Becomes, Works

\* Manager.Get: the turn ends at a torn file, or has the object in memory or a new
\* one.
LEMMA GetsFacts ==
  ASSUME DaemonTypes, NEW j \in Jobs, Gets(j)
  PROVE  LET n == job[j].name
             o == IF mem[n] # 0 THEN mem[n] ELSE Len(history) + 1
         IN  /\ JobsTyped' /\ n \in SessionIDs /\ job[j].pc = "get"
             /\ \/ Becomes(j, [NoJob EXCEPT !.pc = "over"]) /\ UNCHANGED <<mem, history>>
                \/ /\ Works(j, "run", o, job[j].plan, job[j].copy)
                   /\ mem' = [mem EXCEPT ![n] = o]
                   /\ IF mem[n] # 0 THEN history' = history
                      ELSE /\ history' = Append(history, [has |-> file[n].has, tail |-> <<>>])
                           /\ file[n] # Torn
  <1> DEFINE n == job[j].name
             o == IF mem[n] # 0 THEN mem[n] ELSE Len(history) + 1
  <1>1. job[j] \in JobType /\ n \in SessionIDs /\ job[j].pc = "get" /\ mem \in [SessionIDs -> Nat]
        /\ history \in Seq(ObjectType)
    BY Typed DEF Gets, JobOK, Working, DaemonTypes
  <1>2. CASE mem[n] = 0 /\ file[n] = Torn
    BY <1>1, <1>2, EndsFacts DEF Gets
  <1>3. CASE ~ (mem[n] = 0 /\ file[n] = Torn)
    <2> DEFINE t == [job[j] EXCEPT !.pc = "run", !.obj = o]
    <2>1. o \in Nat
      BY <1>1
    <2>2. job' = [job EXCEPT ![j] = t] /\ mem' = [mem EXCEPT ![n] = o]
          /\ IF mem[n] # 0 THEN history' = history
             ELSE history' = Append(history, [has |-> file[n].has, tail |-> <<>>]) /\ file[n] # Torn
      BY <1>3, Typed DEF Gets, loadFromDisk, restoreHistory
    <2>3. t \in JobType /\ t.pc = "run" /\ t.obj = o /\ t.plan = job[j].plan /\ t.copy = job[j].copy
          /\ t.name = job[j].name /\ t.id = job[j].id /\ t.alone = job[j].alone /\ t.stamp = job[j].stamp
      <3> HIDE DEF o
      <3> QED
        BY <1>1, <2>1 DEF JobType, Working
    <2> HIDE DEF t
    <2>4. JobsTyped' /\ Works(j, "run", o, job[j].plan, job[j].copy)
      BY <1>1, <2>2, <2>3, WorksFacts DEF Working
    <2> QED
      BY <1>1, <2>2, <2>4
  <1> QED
    BY <1>2, <1>3

\* Appending takes the first entry off the plan.
LEMMA AppendsFacts ==
  ASSUME DaemonTypes, NEW j \in Jobs, Appends(j)
  PROVE  /\ JobsTyped' /\ job[j].pc = "run" /\ job[j].plan # <<>>
         /\ Works(j, "run", job[j].obj, Tail(job[j].plan), job[j].copy)
  <1> DEFINE t == [job[j] EXCEPT !.plan = Tail(@)]
  <1>1. job[j] \in JobType /\ job[j].pc = "run" /\ job[j].plan # <<>> /\ job' = [job EXCEPT ![j] = t]
    BY Typed DEF Appends
  <1>2. job[j].plan \in Seq(Entry)
    BY <1>1 DEF JobType
  <1>3. Tail(job[j].plan) \in Seq(Entry)
    BY <1>1, <1>2
  <1>4. t \in JobType /\ t.pc = "run" /\ t.obj = job[j].obj /\ t.plan = Tail(job[j].plan) /\ t.copy = job[j].copy
        /\ t.name = job[j].name /\ t.id = job[j].id /\ t.alone = job[j].alone /\ t.stamp = job[j].stamp
    BY <1>1, <1>3 DEF JobType
  <1> HIDE DEF t
  <1> QED
    BY <1>1, <1>4, WorksFacts DEF Working

\* ensureTurnHistory starts with nothing left to append.
LEMMA EnsuresFacts ==
  ASSUME DaemonTypes, NEW j \in Jobs, Ensures(j)
  PROVE  /\ JobsTyped' /\ job[j].pc = "run" /\ job[j].plan = <<>>
         /\ \E pc \in {"run", "save"}, plan \in Seq(Entry) : Works(j, pc, job[j].obj, plan, job[j].copy)
  <1> DEFINE missing == IF job[j].ensured THEN <<>> ELSE Missing(history[job[j].obj].tail, job[j].id)
             pc == IF missing = <<>> THEN "save" ELSE "run"
             t == [job[j] EXCEPT !.plan = missing, !.ensured = TRUE, !.pc = pc]
  <1>1. job[j] \in JobType /\ job[j].pc = "run" /\ job[j].plan = <<>> /\ job' = [job EXCEPT ![j] = t]
    BY Typed DEF Ensures
  <1>2. job[j].id \in Int
    BY <1>1 DEF JobType
  <1>3. missing \in Seq(Entry) /\ pc \in {"run", "save"}
    BY <1>2, EntryFacts DEF Missing
  <1> HIDE DEF missing, pc
  <1>4. t \in JobType /\ t.pc = pc /\ t.obj = job[j].obj /\ t.plan = missing /\ t.copy = job[j].copy
        /\ t.name = job[j].name /\ t.id = job[j].id /\ t.alone = job[j].alone /\ t.stamp = job[j].stamp
    BY <1>1, <1>3 DEF JobType, Working
  <1> HIDE DEF t
  <1>5. JobsTyped' /\ Works(j, t.pc, t.obj, t.plan, t.copy)
    BY <1>1, <1>3, <1>4, WorksFacts DEF Working
  <1> QED
    BY <1>1, <1>3, <1>4, <1>5

\* A save that begins has copied its object and truncated the file.
LEMMA SaveBeginsFacts ==
  ASSUME DaemonTypes, NEW j \in Jobs, job[j].obj \in 1 .. Len(history), SaveBegins(j)
  PROVE  /\ JobsTyped' /\ job[j].pc = "save" /\ job[j].name \in SessionIDs
         /\ \/ Becomes(j, [NoJob EXCEPT !.pc = "over"]) /\ file' = file
            \/ /\ Works(j, "write", job[j].obj, job[j].plan, history[job[j].obj].has)
               /\ file' = [file EXCEPT ![job[j].name] = Torn]
  <1>0. job[j] \in JobType /\ job[j].pc = "save" /\ job[j].name \in SessionIDs
    BY Typed DEF SaveBegins, JobOK, Working
  <1>1. CASE Ends(j) /\ UNCHANGED file
    BY <1>0, <1>1, EndsFacts
  <1>2. CASE /\ job' = [job EXCEPT ![j].pc = "write", ![j].copy = history[job[j].obj].has]
             /\ file' = [file EXCEPT ![job[j].name] = Torn]
    <2> DEFINE has == history[job[j].obj].has
               t == [job[j] EXCEPT !.pc = "write", !.copy = has]
    <2>1. has \in SUBSET Entry
      <3>1. history \in Seq(ObjectType)
        BY DEF DaemonTypes
      <3>2. history[job[j].obj] \in ObjectType
        BY <3>1
      <3> QED
        BY <3>2 DEF ObjectType
    <2>2. job' = [job EXCEPT ![j] = t]
      BY <1>2, Typed
    <2> HIDE DEF has
    <2>3. t \in JobType /\ t.pc = "write" /\ t.obj = job[j].obj /\ t.plan = job[j].plan /\ t.copy = has
          /\ t.name = job[j].name /\ t.id = job[j].id /\ t.alone = job[j].alone /\ t.stamp = job[j].stamp
      BY <1>0, <2>1 DEF JobType, Working
    <2> HIDE DEF t
    <2>4. JobsTyped' /\ Works(j, "write", job[j].obj, job[j].plan, has)
      BY <1>0, <2>2, <2>3, WorksFacts DEF Working
    <2> QED
      BY <1>0, <1>2, <2>4 DEF has
  <1> QED
    BY <1>1, <1>2 DEF SaveBegins

-----------------------------------------------------------------------------
\* The types hold initially and are kept.
LEMMA InitTypes == DInit => DaemonTypes
  <1> SUFFICES ASSUME DInit PROVE DaemonTypes
    OBVIOUS
  <1>1. JobsTyped
    BY NoJobFacts DEF DInit, JobsTyped, JobOK
  <1>2. /\ processedMessages \in [Messages -> Nat \cup {-1}] /\ lastPruneAt \in Nat \cup {-1}
        /\ ranged \in [Jobs -> SUBSET Messages] /\ doomed \in [Jobs -> SUBSET Messages] /\ slowPrune \in BOOLEAN
    BY DEF DInit
  <1>3. sessions \in [Chats -> SessionIDs] /\ mem \in [SessionIDs -> Nat]
    BY DaemonAssumption DEF DInit
  <1>4. file \in [SessionIDs -> FileType]
    <2>1. Absent \in FileType
      BY DEF Absent, FileType
    <2> QED
      BY <2>1 DEF DInit
  <1>5. accepted \in [Messages -> Seq([arrived : Nat, at : Nat])]
    <2>1. <<>> \in Seq([arrived : Nat, at : Nat])
      OBVIOUS
    <2> QED
      BY <2>1 DEF DInit
  <1>6. history \in Seq(ObjectType)
    BY DEF DInit
  <1>7. world \in Worlds /\ now \in Nat /\ crashes \in Nat /\ kept \in SUBSET TurnType
    BY DEF DInit
  <1> QED
    BY <1>1, <1>2, <1>3, <1>4, <1>5, <1>6, <1>7 DEF DaemonTypes

\* The table and the handlings.
LEMMA MarksTypes ==
  ASSUME DaemonTypes, NEW j \in Jobs, Marks(j)
  PROVE  DaemonTypes'
  <1> DEFINE m == job[j].id
             r == [arrived |-> job[j].stamp, at |-> now]
  <1>0. JobsTyped' /\ m \in Messages
    BY MarksFacts
  <1>1. job[j].stamp \in Nat /\ now \in Nat
    BY Typed DEF JobType, DaemonTypes
  <1>2. r \in [arrived : Nat, at : Nat]
    BY <1>1
  <1>3. /\ processedMessages' = processedMessages \/ processedMessages' = [processedMessages EXCEPT ![m] = job[j].stamp]
        /\ accepted' = accepted \/ accepted' = [accepted EXCEPT ![m] = Append(@, r)]
        /\ UNCHANGED <<world, now, crashes, lastPruneAt, ranged, doomed, slowPrune, sessions, historyVars, kept>>
    BY DEF Marks
  <1> HIDE DEF m, r
  <1>4. processedMessages' \in [Messages -> Nat \cup {-1}]
    BY <1>0, <1>1, <1>3 DEF DaemonTypes
  <1>5. accepted' \in [Messages -> Seq([arrived : Nat, at : Nat])]
    <2> DEFINE R == [arrived : Nat, at : Nat]
    <2>1. accepted \in [Messages -> Seq(R)] /\ r \in R
      BY <1>2 DEF DaemonTypes
    <2> HIDE DEF R
    <2>2. Append(accepted[m], r) \in Seq(R)
      BY <1>0, <2>1
    <2>3. accepted' \in [Messages -> Seq(R)]
      BY <1>0, <1>3, <2>1, <2>2
    <2> QED
      BY <2>3 DEF R
  <1> QED
    BY <1>0, <1>3, <1>4, <1>5 DEF DaemonTypes, historyVars

\* Where a goroutine goes on after markMessageIfNew.
LEMMA MarkEndsFacts ==
  ASSUME DaemonTypes, NEW j \in Jobs, MarkEnds(j), job[j].pc \in {"prune", "range"}
  PROVE  /\ JobsTyped'
         /\ \E t : t.pc \in {"handle", "over"} /\ t.stamp \in {0, job[j].stamp} /\ Becomes(j, t)
  <1>1. CASE Proceeds(j, "handle")
    BY <1>1, ProceedsFacts
  <1>2. CASE Ends(j)
    BY <1>2, EndsFacts, NoJobFacts
  <1> QED
    BY <1>1, <1>2 DEF MarkEnds

\* A prune under the lock returns, or the Range begins.
PruneReturns(j) ==
  /\ \E t : t.pc \in {"handle", "over"} /\ t.stamp \in {0, job[j].stamp} /\ Becomes(j, t)
  /\ UNCHANGED <<lastPruneAt, ranged>>
PruneBegins(j) ==
  /\ lastPruneAt = -1 \/ job[j].stamp - lastPruneAt >= TTL
  /\ lastPruneAt' = job[j].stamp
  /\ \E t : t.pc = "range" /\ t.stamp = job[j].stamp /\ Becomes(j, t)
LEMMA PrunesTypes ==
  ASSUME DaemonTypes, NEW j \in Jobs, Prunes(j)
  PROVE  /\ DaemonTypes' /\ job[j].pc = "prune" /\ (PruneReturns(j) \/ PruneBegins(j))
         /\ UNCHANGED <<world, now, processedMessages, doomed, slowPrune, accepted, mem, history, file, kept>>
  <1>0. /\ job[j].stamp \in Nat /\ job[j].pc = "prune" /\ TTL \in Nat /\ lastPruneAt \in Nat \cup {-1}
        /\ UNCHANGED <<world, now, crashes, processedMessages, doomed, slowPrune, accepted, sessions,
                       mem, history, file, kept>>
    BY Typed DEF JobType, Prunes, DaemonTypes, historyVars
  <1>1. CASE lastPruneAt # -1 /\ job[j].stamp - lastPruneAt < TTL
    <2>1. MarkEnds(j) /\ UNCHANGED <<lastPruneAt, ranged>>
      BY <1>1 DEF Prunes
    <2>2. JobsTyped' /\ PruneReturns(j)
      BY <1>0, <2>1, MarkEndsFacts DEF PruneReturns
    <2> QED
      BY <1>0, <2>1, <2>2 DEF DaemonTypes
  <1>2. CASE ~ (lastPruneAt # -1 /\ job[j].stamp - lastPruneAt < TTL)
    <2>1. lastPruneAt' = job[j].stamp /\ ranged' = [ranged EXCEPT ![j] = Messages] /\ Proceeds(j, "range")
      BY <1>2 DEF Prunes
    <2>2. JobsTyped' /\ \E t : t.pc = "range" /\ t.stamp = job[j].stamp /\ Becomes(j, t)
      BY <1>0, <2>1, ProceedsFacts
    <2>3. ranged' \in [Jobs -> SUBSET Messages] /\ lastPruneAt' \in Nat \cup {-1}
      BY <1>0, <2>1 DEF DaemonTypes
    <2>4. lastPruneAt = -1 \/ job[j].stamp - lastPruneAt >= TTL
      BY <1>0, <1>2
    <2>5. PruneBegins(j)
      BY <2>1, <2>2, <2>4 DEF PruneBegins
    <2> QED
      BY <1>0, <2>2, <2>3, <2>5 DEF DaemonTypes
  <1> QED
    BY <1>1, <1>2

\* The Range: looks, deletes and ends.
LEMMA RangeTypes ==
  ASSUME DaemonTypes, NEW j \in Jobs, PruneLooks(j) \/ PruneDeletes(j) \/ PruneEnds(j)
  PROVE  /\ DaemonTypes' /\ job[j].pc = "range"
         /\ UNCHANGED <<world, now, lastPruneAt, accepted, mem, history, file, kept>>
         /\ UNCHANGED job \/ (PruneEnds(j) /\ \E t : /\ t.pc \in {"handle", "over"} /\ t.stamp \in {0, job[j].stamp}
                                                     /\ Becomes(j, t))
  <1>0. /\ processedMessages \in [Messages -> Nat \cup {-1}] /\ JobsTyped
        /\ ranged \in [Jobs -> SUBSET Messages] /\ doomed \in [Jobs -> SUBSET Messages] /\ slowPrune \in BOOLEAN
    BY DEF DaemonTypes
  <1>1. CASE PruneLooks(j)
    <2>1. ranged' \in [Jobs -> SUBSET Messages] /\ doomed' \in [Jobs -> SUBSET Messages]
      BY <1>0, <1>1 DEF PruneLooks
    <2>2. JobsTyped'
      BY <1>0, <1>1 DEF PruneLooks, JobsTyped, JobOK
    <2> QED
      BY <1>1, <2>1, <2>2 DEF PruneLooks, DaemonTypes, historyVars
  <1>2. CASE PruneDeletes(j)
    <2>1. /\ processedMessages' \in [Messages -> Nat \cup {-1}] /\ doomed' \in [Jobs -> SUBSET Messages]
      BY <1>0, <1>2 DEF PruneDeletes
    <2>2. slowPrune' \in BOOLEAN
      BY <1>2 DEF PruneDeletes
    <2>3. JobsTyped'
      BY <1>0, <1>2 DEF PruneDeletes, JobsTyped, JobOK
    <2> QED
      BY <1>2, <2>1, <2>2, <2>3 DEF PruneDeletes, DaemonTypes, historyVars
  <1>3. CASE PruneEnds(j)
    <2>1. JobsTyped' /\ \E t : /\ t.pc \in {"handle", "over"} /\ t.stamp \in {0, job[j].stamp} /\ Becomes(j, t)
      BY <1>3, MarkEndsFacts DEF PruneEnds
    <2> QED
      BY <1>3, <2>1 DEF PruneEnds, DaemonTypes, dedupeVars, historyVars
  <1> QED
    BY <1>1, <1>2, <1>3

\* What handling a message does: the goroutine ends, or works on a session, and is
\* a turn or clears.
HandlesAs(j) ==
  \/ Becomes(j, [NoJob EXCEPT !.pc = "over"]) /\ kept' = kept
  \/ \E n \in SessionIDs :
       \/ /\ Joins(j, n, "get", <<Asked(job[j].id), Reply(job[j].id)>>, job[j].id)
          /\ kept' = kept
       \/ Joins(j, n, "forget", <<>>, job[j].id) /\ kept' = {t \in kept : t.name # n}

\* Handling a message keeps the types and is one of the three.
LEMMA HandlesTypes ==
  ASSUME DaemonTypes, NEW j \in Jobs, Handles(j)
  PROVE  /\ DaemonTypes' /\ HandlesAs(j) /\ job[j].pc = "handle"
         /\ UNCHANGED <<world, now, crashes, dedupeVars, historyVars>>
  <1>0. /\ job[j].pc = "handle" /\ job[j].chat \in Chats /\ job[j].id \in Int
        /\ sessions \in [Chats -> SessionIDs]
    BY Typed DEF Handles, JobOK, JobType, DaemonTypes
  <1>1. PICK content \in parseMessageContent :
          \/ content = "none" /\ Ends(j) /\ UNCHANGED <<sessions, kept>>
          \/ /\ content = "text"
             /\ Enters(j, sessions[job[j].chat], "get", <<Asked(job[j].id), Reply(job[j].id)>>)
             /\ UNCHANGED <<sessions, kept>>
          \/ content \notin {"none", "text"} /\ handleCommand(j, sessions[job[j].chat], content)
    BY DEF Handles, getOrCreateSession
  <1>2. sessions[job[j].chat] \in SessionIDs
    BY <1>0
  <1>3. UNCHANGED <<world, now, crashes, dedupeVars, historyVars>>
    BY DEF Handles
  <1>4. /\ JobsTyped' /\ HandlesAs(j) /\ sessions' \in [Chats -> SessionIDs] /\ kept' \subseteq kept
    <2>1. CASE Ends(j) /\ UNCHANGED <<sessions, kept>>
      BY <1>0, <2>1, EndsFacts DEF HandlesAs
    <2>2. CASE /\ Enters(j, sessions[job[j].chat], "get", <<Asked(job[j].id), Reply(job[j].id)>>)
               /\ UNCHANGED <<sessions, kept>>
      <3>1. <<Asked(job[j].id), Reply(job[j].id)>> \in Seq(Entry)
        BY <1>0, EntryFacts
      <3>2. JobsTyped' /\ Joins(j, sessions[job[j].chat], "get", <<Asked(job[j].id), Reply(job[j].id)>>, job[j].id)
        BY <1>2, <2>2, <3>1, EntersFacts
      <3> QED
        BY <1>0, <1>2, <2>2, <3>2 DEF HandlesAs
    <2>3. CASE /\ Enters(j, sessions[job[j].chat], "forget", <<>>) /\ UNCHANGED sessions
               /\ kept' = {t \in kept : t.name # sessions[job[j].chat]}
      <3>1. JobsTyped' /\ Joins(j, sessions[job[j].chat], "forget", <<>>, job[j].id)
        BY <1>0, <1>2, <2>3, EntryFacts, EntersFacts
      <3> QED
        BY <1>0, <1>2, <2>3, <3>1 DEF HandlesAs
    <2>4. CASE (\E name \in SessionIDs : setSession(job[j].chat, name)) /\ Ends(j) /\ UNCHANGED kept
      <3>1. sessions' \in [Chats -> SessionIDs]
        BY <1>0, <2>4 DEF setSession
      <3> QED
        BY <2>4, <3>1, EndsFacts DEF HandlesAs
    <2> QED
      BY <1>1, <2>1, <2>2, <2>3, <2>4 DEF handleCommand
  <1> QED
    BY <1>0, <1>3, <1>4 DEF DaemonTypes, dedupeVars, historyVars

\* The object of a turn that appends an entry.
Grows(o, stored) ==
  /\ Len(history') = Len(history) /\ o \in 1 .. Len(history)
  /\ history'[o].has = history[o].has \cup stored
  /\ \A i \in 1 .. Len(history) : i # o => history'[i] = history[i]

Races(j) ==
  \E k \in Jobs \ {j} : job[k].pc = "run" /\ job[k].obj = job[j].obj /\ job[k].plan # <<>>

\* Appending grows the object of the turn, and misses an entry only in a race.
LEMMA AppendsTypes ==
  ASSUME DaemonTypes, ObjectsOK, NEW j \in Jobs, Appends(j)
  PROVE  /\ DaemonTypes' /\ UNCHANGED <<world, now, crashes, dedupeVars, sessions, mem, file, kept>>
         /\ \E stored : /\ Grows(job[j].obj, stored)
                        /\ Races(j) \/ stored = {Head(job[j].plan)}
  <1> DEFINE o == job[j].obj
             e == Head(job[j].plan)
  <1>0. /\ job[j] \in JobType /\ job[j].pc = "run" /\ job[j].plan # <<>>
        /\ history \in Seq(ObjectType)
    BY Typed DEF Appends, DaemonTypes
  <1>1. o \in 1 .. Len(history) /\ e \in Entry
    <2>1. o \in 1 .. Len(history)
      BY <1>0 DEF ObjectsOK, Holding
    <2>2. job[j].plan \in Seq(Entry)
      BY <1>0 DEF JobType
    <2> QED
      BY <1>0, <2>1, <2>2
  <1>2. history[o] \in ObjectType
    BY <1>0, <1>1
  <1>3. PICK stored, tail :
          stored \in {{e}} \cup (IF Races(j) THEN {{}} ELSE {})
          /\ history' = [history EXCEPT ![o].has = @ \cup stored, ![o].tail = tail]
          /\ tail = LET t == Append(history[o].tail, e) IN IF Len(t) > 2 THEN Tail(t) ELSE t
    BY DEF Appends, Races
  <1>4. tail \in Seq(Entry)
    <2>1. history[o].tail \in Seq(Entry)
      BY <1>2 DEF ObjectType
    <2>2. Append(history[o].tail, e) \in Seq(Entry) /\ Append(history[o].tail, e) # <<>>
      BY <1>1, <2>1
    <2>3. Tail(Append(history[o].tail, e)) \in Seq(Entry)
      BY <2>2
    <2> QED
      BY <1>3, <2>2, <2>3
  <1>5. stored \in SUBSET Entry /\ (Races(j) \/ stored = {e})
    BY <1>1, <1>3
  <1> DEFINE r == [history[o] EXCEPT !.has = history[o].has \cup stored, !.tail = tail]
  <1>6. history' = [history EXCEPT ![o] = r]
    BY <1>0, <1>1, <1>2, <1>3 DEF ObjectType
  <1>7. r \in ObjectType /\ r.has = history[o].has \cup stored
    BY <1>2, <1>4, <1>5 DEF ObjectType
  <1> HIDE DEF r, o
  <1>8. history' \in Seq(ObjectType) /\ Grows(o, stored)
    <2>1. /\ history' \in Seq(ObjectType) /\ Len(history') = Len(history) /\ history'[o] = r
          /\ \A i \in 1 .. Len(history) : i # o => history'[i] = history[i]
      BY <1>0, <1>1, <1>6, <1>7
    <2> QED
      BY <1>1, <1>7, <2>1 DEF Grows
  <1>9. UNCHANGED <<world, now, crashes, dedupeVars, sessions, mem, file, kept>>
    BY DEF Appends
  <1>10. DaemonTypes'
    BY <1>8, <1>9, AppendsFacts DEF DaemonTypes, dedupeVars
  <1> QED
    BY <1>5, <1>8, <1>9, <1>10 DEF o

\* An object read from a file is an object.
LEMMA GetsTypes ==
  ASSUME DaemonTypes, NEW j \in Jobs, Gets(j)
  PROVE  /\ DaemonTypes' /\ UNCHANGED <<world, now, crashes, dedupeVars, sessions, file, kept>>
         /\ mem[job[j].name] = 0 =>
              [has |-> file[job[j].name].has, tail |-> <<>>] \in ObjectType
  <1>0. /\ history \in Seq(ObjectType) /\ mem \in [SessionIDs -> Nat] /\ job[j].name \in SessionIDs
        /\ file[job[j].name] \in FileType
    BY GetsFacts DEF DaemonTypes
  <1>1. [has |-> file[job[j].name].has, tail |-> <<>>] \in ObjectType
    <2>1. <<>> \in Seq(Entry)
      OBVIOUS
    <2>2. file[job[j].name].has \in SUBSET Entry
      BY <1>0 DEF FileType
    <2> QED
      BY <2>1, <2>2 DEF ObjectType
  <1>2. UNCHANGED <<world, now, crashes, dedupeVars, sessions, file, kept>>
    BY DEF Gets
  <1>3. mem' \in [SessionIDs -> Nat] /\ history' \in Seq(ObjectType)
    <2> DEFINE r == [has |-> file[job[j].name].has, tail |-> <<>>]
    <2>1. /\ mem' = mem \/ mem' = [mem EXCEPT ![job[j].name] =
                                     IF mem[job[j].name] # 0 THEN mem[job[j].name] ELSE Len(history) + 1]
          /\ history' = history \/ history' = Append(history, r)
      BY GetsFacts
    <2>2. r \in ObjectType
      BY <1>1
    <2> HIDE DEF r
    <2> QED
      BY <1>0, <2>1, <2>2
  <1> QED
    BY <1>1, <1>2, <1>3, GetsFacts DEF DaemonTypes, dedupeVars

\* Saves and removals keep the types.
LEMMA SavesTypes ==
  ASSUME DaemonTypes, ObjectsOK, NEW j \in Jobs, SaveBegins(j) \/ SaveWrites(j) \/ Removes(j)
  PROVE  /\ DaemonTypes' /\ job[j].name \in SessionIDs
         /\ UNCHANGED <<world, now, crashes, dedupeVars, sessions, mem, history>>
  <1>0. Torn \in FileType /\ Absent \in FileType /\ file \in [SessionIDs -> FileType]
    BY DEF Torn, Absent, FileType, DaemonTypes
  <1>1. job[j] \in JobType /\ job[j].name \in SessionIDs /\ job[j].id \in Int /\ job[j].copy \in SUBSET Entry
    BY Typed DEF JobOK, JobType, SaveBegins, SaveWrites, Removes, Working
  <1>2. UNCHANGED <<world, now, crashes, dedupeVars, sessions, mem, history>>
    BY DEF SaveBegins, SaveWrites, Removes
  <1>3. JobsTyped'
    <2>1. CASE SaveBegins(j)
      <3>1. job[j].obj \in 1 .. Len(history)
        BY <2>1 DEF SaveBegins, ObjectsOK, Holding
      <3> QED
        BY <2>1, <3>1, SaveBeginsFacts
    <2>2. CASE SaveWrites(j) \/ Removes(j)
      BY <2>2, EndsFacts DEF SaveWrites, Removes
    <2> QED
      BY <2>1, <2>2
  <1>4. makePersistedHistory(job[j].copy) \in FileType
    BY <1>1 DEF makePersistedHistory, FileType
  <1>5. \/ file' = file
        \/ \E f \in FileType : file' = [file EXCEPT ![job[j].name] = f]
    BY <1>0, <1>4 DEF SaveBegins, SaveWrites, Removes
  <1>6. file' \in [SessionIDs -> FileType]
    BY <1>0, <1>1, <1>5
  <1>7. kept' \in SUBSET TurnType
    <2>1. [name |-> job[j].name, id |-> job[j].id] \in TurnType
      BY <1>1 DEF TurnType
    <2>2. kept' = kept \/ kept' = kept \cup {[name |-> job[j].name, id |-> job[j].id]}
      BY DEF SaveBegins, SaveWrites, Removes
    <2> QED
      BY <2>1, <2>2 DEF DaemonTypes
  <1> QED
    BY <1>1, <1>2, <1>3, <1>6, <1>7 DEF DaemonTypes, dedupeVars

\* After a crash nobody is at work.
LEMMA CrashesTypes ==
  ASSUME DaemonTypes, Crashes
  PROVE  /\ DaemonTypes' /\ UNCHANGED <<world, now, file, kept>> /\ history' = <<>>
         /\ \A j \in Jobs : job'[j].pc \in {"none", "over"} /\ job'[j].stamp = 0
  <1>1. JobsTyped' /\ \A j \in Jobs : job'[j].pc \in {"none", "over"} /\ job'[j].stamp = 0
    <2>1. ASSUME NEW j \in Jobs
          PROVE  JobOK(job'[j]) /\ job'[j].pc \in {"none", "over"} /\ job'[j].stamp = 0
      <3>1. job'[j] = NoJob \/ job'[j] = [NoJob EXCEPT !.pc = "over"]
        BY DEF Crashes
      <3> QED
        BY <3>1, NoJobFacts
    <2>2. job' = [j \in Jobs |-> job'[j]]
      BY DEF Crashes
    <2>3. job' \in [Jobs -> JobType]
      BY <2>1, <2>2 DEF JobOK
    <2> QED
      BY <2>1, <2>3 DEF JobsTyped, JobOK
  <1>2. UNCHANGED <<world, now, file, kept>> /\ history' = <<>> /\ history' \in Seq(ObjectType)
    BY DEF Crashes
  <1>3. /\ processedMessages' \in [Messages -> Nat \cup {-1}] /\ lastPruneAt' \in Nat \cup {-1}
        /\ ranged' \in [Jobs -> SUBSET Messages] /\ doomed' \in [Jobs -> SUBSET Messages] /\ slowPrune' \in BOOLEAN
    BY DEF Crashes
  <1>4. sessions' \in [Chats -> SessionIDs] /\ mem' \in [SessionIDs -> Nat] /\ crashes' \in Nat
    BY DaemonAssumption DEF Crashes, DaemonTypes
  <1>5. accepted' \in [Messages -> Seq([arrived : Nat, at : Nat])]
    <2>1. <<>> \in Seq([arrived : Nat, at : Nat])
      OBVIOUS
    <2> QED
      BY <2>1 DEF Crashes
  <1> QED
    BY <1>1, <1>2, <1>3, <1>4, <1>5 DEF DaemonTypes

\* The steps that change goroutines only: of a turn that fails or is ensured, of a
\* message that arrives, of a job that triggers; and the clear, which forgets.
LEMMA OtherTypes ==
  ASSUME DaemonTypes,
         \/ Tick \/ Resting \/ UNCHANGED dvars
         \/ \E j \in Jobs : \/ \E m \in Messages, c \in Chats : Arrives(j, m, c)
                            \/ \E n \in Chats : Triggers(j, n)
                            \/ Fails(j) \/ Ensures(j) \/ Forgets(j)
  PROVE  DaemonTypes'
  <1>1. CASE Tick \/ Resting \/ UNCHANGED dvars
    <2>1. UNCHANGED job /\ now' \in Nat
      BY <1>1 DEF Tick, Resting, dvars, DaemonTypes
    <2> QED
      BY <1>1, <2>1 DEF Tick, Resting, dvars, DaemonTypes, dedupeVars, historyVars, JobsTyped, JobOK
  <1>2. ASSUME NEW j \in Jobs,
               \/ \E m \in Messages, c \in Chats : Arrives(j, m, c)
               \/ \E n \in Chats : Triggers(j, n)
               \/ Fails(j) \/ Ensures(j)
        PROVE  DaemonTypes'
    <2>1. JobsTyped'
      BY <1>2, ArrivesFacts, TriggersFacts, EndsFacts, EnsuresFacts DEF Fails
    <2>2. UNCHANGED <<world, now, crashes, dedupeVars, sessions, historyVars, kept>>
      BY <1>2 DEF Arrives, Triggers, Fails, Ensures
    <2> QED
      BY <2>1, <2>2 DEF DaemonTypes, dedupeVars, historyVars
  <1>3. ASSUME NEW j \in Jobs, Forgets(j) PROVE DaemonTypes'
    <2>1. JobsTyped' /\ job[j].name \in SessionIDs
      BY <1>3, ProceedsFacts, Typed DEF Forgets, JobOK, Working
    <2>2. mem' \in [SessionIDs -> Nat]
      BY <1>3, <2>1 DEF Forgets, DaemonTypes
    <2> QED
      BY <1>3, <2>1, <2>2 DEF Forgets, DaemonTypes, dedupeVars
  <1> QED
    BY <1>1, <1>2, <1>3

-----------------------------------------------------------------------------
\* The stamp of every goroutine is a clock that was read before, and only the
\* steps of pruneProcessedMessages and a crash change who is in the Range.
SamePruners ==
  \A k \in Jobs : /\ job'[k].pc = "range" <=> job[k].pc = "range"
                  /\ job[k].pc = "range" => job'[k].stamp = job[k].stamp
StampsOK == \A k \in Jobs : job'[k].stamp <= now'
LEMMA StampsKept ==
  ASSUME DaemonInv, [DNext]_dvars, world.channel = "lark"
  PROVE  /\ StampsOK
         /\ \/ SamePruners \/ Crashes
            \/ \E j \in Jobs : Prunes(j) \/ PruneLooks(j) \/ PruneDeletes(j) \/ PruneEnds(j)
  <1>0. /\ \A k \in Jobs : job[k].stamp <= now /\ job[k].stamp \in Nat
        /\ DaemonTypes /\ now \in Nat
    <2>1. DaemonTypes /\ TableRight
      BY DEF DaemonInv
    <2>2. now \in Nat /\ \A k \in Jobs : job[k] \in JobType
      BY <2>1, Typed DEF DaemonTypes
    <2> QED
      BY <2>1, <2>2 DEF TableRight, JobType
  <1>1. CASE Tick
    BY <1>0, <1>1 DEF Tick, StampsOK, SamePruners
  <1>2. CASE Crashes
    BY <1>0, <1>2, CrashesTypes DEF StampsOK
  <1>3. ASSUME NEW j \in Jobs, now' = now, NEW s, s \in {0, now, job[j].stamp}, job'[j].stamp = s,
               \A k \in Jobs : k # j => job'[k].stamp = job[k].stamp
        PROVE  StampsOK
    BY <1>0, <1>3 DEF StampsOK
  <1>a. ASSUME NEW j \in Jobs, job[j].pc # "range", job'[j].pc # "range",
               \A k \in Jobs : k # j => job'[k].stamp = job[k].stamp /\ job'[k].pc = job[k].pc
        PROVE  SamePruners
    BY <1>a DEF SamePruners
  <1>4. CASE Resting \/ UNCHANGED dvars
    BY <1>0, <1>4 DEF Resting, dvars, StampsOK, SamePruners
  <1>5. ASSUME NEW j \in Jobs,
               \/ \E m \in Messages, c \in Chats : Arrives(j, m, c)
               \/ \E n \in Chats : Triggers(j, n)
               \/ Marks(j) \/ Handles(j)
               \/ Gets(j) \/ Appends(j) \/ Fails(j) \/ Ensures(j)
               \/ SaveBegins(j) \/ SaveWrites(j)
               \/ Forgets(j) \/ Removes(j)
        PROVE  StampsOK /\ SamePruners
    <2>1. CASE \E m \in Messages, c \in Chats : Arrives(j, m, c)
      <3>1. now' = now
        BY <2>1 DEF Arrives
      <3>2. job[j].pc = "none" /\ \E t : t.pc = "mark" /\ t.stamp = now /\ Becomes(j, t)
        BY <1>0, <2>1, ArrivesFacts DEF Arrives, Free
      <3> QED
        BY <1>0, <1>3, <1>a, <3>1, <3>2 DEF Becomes
    <2>2. CASE \E n \in Chats : Triggers(j, n)
      <3>1. now' = now
        BY <2>2 DEF Triggers
      <3>2. /\ job'[j].stamp = 0 /\ job[j].pc = "none" /\ job'[j].pc = "get"
            /\ \A k \in Jobs : k # j => job'[k].stamp = job[k].stamp /\ job'[k].pc = job[k].pc
        <4>1. job[j].pc = "none"
          BY <2>2 DEF Triggers, Free
        <4> QED
          BY <1>0, <2>2, <4>1, TriggersFacts DEF Joins
      <3> QED
        BY <1>0, <1>3, <1>a, <3>1, <3>2
    <2>3. CASE Marks(j)
      <3>1. now' = now
        BY <2>3 DEF Marks
      <3>2. job[j].pc = "mark" /\ \E t : t.pc \in {"prune", "handle"} /\ t.stamp = job[j].stamp /\ Becomes(j, t)
        BY <1>0, <2>3, MarksFacts DEF Marks
      <3> QED
        BY <1>0, <1>3, <1>a, <3>1, <3>2 DEF Becomes
    <2>5. CASE Handles(j)
      BY <1>0, <1>3, <1>a, <2>5, HandlesTypes, NoJobFacts DEF HandlesAs, Becomes, Joins
    <2>6. CASE Gets(j)
      BY <1>0, <1>3, <1>a, <2>6, GetsFacts, GetsTypes, NoJobFacts DEF Works, Becomes
    <2>7. CASE Appends(j)
      BY <1>0, <1>3, <1>a, <2>7, AppendsFacts DEF Appends, Works
    <2>8. CASE Fails(j) \/ SaveWrites(j) \/ Removes(j)
      <3>1. now' = now /\ Ends(j) /\ job[j].pc \in {"run", "write", "remove"}
        BY <2>8 DEF Fails, SaveWrites, Removes
      <3> QED
        BY <1>0, <1>3, <1>a, <3>1, EndsFacts, NoJobFacts DEF Becomes
    <2>9. CASE Ensures(j)
      <3>1. now' = now
        BY <2>9 DEF Ensures
      <3>2. /\ job'[j].stamp = job[j].stamp /\ job[j].pc = "run" /\ job'[j].pc \in {"run", "save"}
            /\ \A k \in Jobs : k # j => job'[k].stamp = job[k].stamp /\ job'[k].pc = job[k].pc
        BY <1>0, <2>9, EnsuresFacts DEF Works
      <3> QED
        BY <1>0, <1>3, <1>a, <3>1, <3>2
    <2>10. CASE SaveBegins(j)
      <3>1. job[j].obj \in 1 .. Len(history)
        BY <2>10 DEF SaveBegins, DaemonInv, TurnInv, ObjectsOK, Holding
      <3>2. now' = now
        BY <2>10 DEF SaveBegins
      <3> QED
        BY <1>0, <1>3, <1>a, <2>10, <3>1, <3>2, SaveBeginsFacts, NoJobFacts DEF Works, Becomes
    <2>11. CASE Forgets(j)
      BY <1>0, <1>3, <1>a, <2>11, ProceedsFacts DEF Forgets, Becomes
    <2> QED
      BY <1>5, <2>1, <2>2, <2>3, <2>5, <2>6, <2>7, <2>8, <2>9, <2>10, <2>11
  <1>6. ASSUME NEW j \in Jobs, Prunes(j) PROVE StampsOK
    BY <1>0, <1>3, <1>6, PrunesTypes DEF PruneReturns, PruneBegins, Becomes
  <1>7. ASSUME NEW j \in Jobs, PruneLooks(j) \/ PruneDeletes(j) \/ PruneEnds(j) PROVE StampsOK
    <2>1. now' = now /\ \/ UNCHANGED job
                        \/ \E t : t.stamp \in {0, job[j].stamp} /\ Becomes(j, t)
      BY <1>0, <1>7, RangeTypes
    <2> QED
      BY <1>0, <1>3, <2>1 DEF Becomes, StampsOK
  <1> QED
    BY <1>1, <1>2, <1>4, <1>5, <1>6, <1>7 DEF DNext

Handling == [arrived : Nat, at : Nat]

\* The types of what TableRight speaks of.
LEMMA HandlingFacts ==
  ASSUME DaemonTypes, NEW m \in Messages
  PROVE  /\ accepted[m] \in Seq(Handling) /\ Len(accepted[m]) \in Nat
         /\ \A i \in 1 .. Len(accepted[m]) :
              accepted[m][i] \in Handling /\ accepted[m][i].at \in Nat /\ accepted[m][i].arrived \in Nat
         /\ processedMessages[m] \in Nat \cup {-1} /\ now \in Nat /\ TTL \in Nat
  <1>1. accepted[m] \in Seq(Handling) /\ processedMessages[m] \in Nat \cup {-1} /\ now \in Nat /\ TTL \in Nat
    BY DaemonAssumption DEF DaemonTypes, Handling
  <1>2. Len(accepted[m]) \in Nat /\ \A i \in 1 .. Len(accepted[m]) : accepted[m][i] \in Handling
    BY <1>1
  <1> QED
    BY <1>1, <1>2 DEF Handling

\* A message that is marked: its stamp joins the handlings if the table had none.
LEMMA MarksKnown ==
  ASSUME DaemonInv, NEW j \in Jobs, Marks(j), world.channel = "lark", NEW m \in Messages, Known(m)
  PROVE  Known(m)'
  <1> DEFINE s == job[j].stamp
             r == [arrived |-> s, at |-> now]
  <1>0. DaemonTypes /\ s \in Nat /\ s <= now /\ now' = now /\ now \in Nat
    <2>1. DaemonTypes /\ TableRight /\ now \in Nat
      BY DEF DaemonInv, DaemonTypes
    <2> QED
      BY <2>1, Typed DEF TableRight, JobType, Marks
  <1>1. CASE m # job[j].id \/ processedMessages[m] # -1
    <2>1. accepted'[m] = accepted[m] /\ processedMessages'[m] = processedMessages[m]
      <3>1. accepted \in [Messages -> Seq(Handling)] /\ processedMessages \in [Messages -> Nat \cup {-1}]
        BY <1>0 DEF DaemonTypes, Handling
      <3> QED
        BY <1>1, <3>1 DEF Marks
    <2> QED
      BY <1>0, <2>1 DEF Known
  <1>2. CASE m = job[j].id /\ processedMessages[m] = -1
    <2>1. processedMessages'[m] = s /\ accepted'[m] = Append(accepted[m], r)
      BY <1>0, <1>2 DEF Marks, DaemonTypes
    <2>2. r \in Handling /\ r.arrived = s /\ r.at = now
      BY <1>0 DEF Handling
    <2> HIDE DEF r
    <2>3. /\ Len(accepted'[m]) = Len(accepted[m]) + 1 /\ accepted'[m][Len(accepted[m]) + 1] = r
          /\ \A i \in 1 .. Len(accepted[m]) : accepted'[m][i] = accepted[m][i]
      BY <1>0, <2>1, <2>2, HandlingFacts
    <2>4. \A i \in 1 .. Len(accepted[m]) : accepted[m][i].at <= now /\ accepted[m][i].arrived + TTL < now
      BY <1>2 DEF Known
    <2>5. \A i \in 1 .. Len(accepted'[m]) : accepted'[m][i].at <= now'
      <3>1. \A i \in 1 .. Len(accepted[m]) : accepted'[m][i].at <= now
        BY <2>3, <2>4
      <3>2. Len(accepted[m]) \in Nat /\ accepted'[m][Len(accepted[m]) + 1].at <= now
        BY <1>0, <2>2, <2>3, HandlingFacts
      <3>3. \A i \in 1 .. Len(accepted'[m]) : i \in 1 .. Len(accepted[m]) \/ i = Len(accepted[m]) + 1
        BY <2>3, <3>2
      <3> QED
        BY <1>0, <3>1, <3>2, <3>3
    <2>6. ASSUME NEW i \in 1 .. Len(accepted'[m]), NEW k \in 1 .. Len(accepted'[m]), i < k
          PROVE  accepted'[m][k].at > accepted'[m][i].arrived + TTL
      <3>1. i \in 1 .. Len(accepted[m]) /\ accepted'[m][i] = accepted[m][i] /\ Len(accepted[m]) \in Nat
        BY <1>0, <2>3, <2>6, HandlingFacts
      <3>2. CASE k \in 1 .. Len(accepted[m])
        BY <2>3, <2>6, <3>1, <3>2 DEF Known
      <3>3. CASE k = Len(accepted[m]) + 1
        BY <1>0, <2>2, <2>3, <2>4, <3>1, <3>3, HandlingFacts
      <3> QED
        BY <2>3, <2>6, <3>1, <3>2, <3>3
    <2>7. processedMessages'[m] # -1 /\ Len(accepted'[m]) > 0
          /\ accepted'[m][Len(accepted'[m])].arrived = processedMessages'[m]
      BY <1>0, <2>1, <2>2, <2>3, HandlingFacts
    <2> QED
      BY <2>5, <2>6, <2>7 DEF Known
  <1> QED
    BY <1>1, <1>2

\* A prune in time forgets a message only when TTL has passed for each of its
\* handlings.
LEMMA DeletesKnown ==
  ASSUME DaemonInv, NEW j \in Jobs, PruneDeletes(j), world.channel = "lark", ~slowPrune',
         NEW m \in Messages, Known(m)
  PROVE  Known(m)'
  <1> DEFINE s == job[j].stamp
  <1>0. DaemonTypes /\ s \in Nat /\ s <= now /\ now' = now /\ accepted' = accepted
    <2>1. DaemonTypes /\ TableRight
      BY DEF DaemonInv
    <2> QED
      BY <2>1, Typed DEF TableRight, JobType, PruneDeletes
  <1>1. CASE processedMessages'[m] = processedMessages[m]
    BY <1>0, <1>1 DEF Known
  <1>2. CASE processedMessages'[m] = -1 /\ processedMessages[m] # -1 /\ processedMessages[m] < s - TTL
    <2> DEFINE l == Len(accepted[m])
    <2>1. l \in Nat /\ l > 0 /\ accepted[m][l].arrived = processedMessages[m]
      BY <1>0, <1>2, HandlingFacts DEF Known
    <2>2. ASSUME NEW i \in 1 .. l PROVE accepted[m][i].arrived + TTL < now
      <3>1. accepted[m][i].arrived \in Nat /\ TTL \in Nat /\ now \in Nat
            /\ accepted[m][l].at \in Nat /\ accepted[m][l].arrived \in Nat
        BY <1>0, <2>1, <2>2, HandlingFacts
      <3>2. CASE i = l
        BY <1>0, <1>2, <2>1, <3>1, <3>2
      <3>3. CASE i < l
        <4>1. accepted[m][l].at > accepted[m][i].arrived + TTL /\ accepted[m][l].at <= now
          BY <2>1, <3>3 DEF Known
        <4> QED
          BY <3>1, <4>1
      <3> QED
        BY <2>1, <2>2, <3>2, <3>3
    <2> QED
      BY <1>0, <1>2, <2>2 DEF Known
  <1>3. \/ processedMessages'[m] = processedMessages[m]
        \/ processedMessages'[m] = -1 /\ processedMessages[m] # -1 /\ processedMessages[m] < s - TTL
    <2>1. ~slowPrune /\ now < s + TTL
      <3>1. ~slowPrune /\ ~ (now >= s + TTL)
        BY DEF PruneDeletes
      <3>2. now \in Nat /\ TTL \in Nat
        BY <1>0, Typed DEF DaemonTypes
      <3> QED
        BY <1>0, <3>1, <3>2
    <2>2. m \in doomed[j] => Outdated(m, s)
      BY <2>1 DEF DaemonInv, PrunersRight, DoomedOld
    <2> QED
      BY <2>2 DEF PruneDeletes, Outdated
  <1> QED
    BY <1>1, <1>2, <1>3

\* The steps that neither mark, delete nor crash leave the table and the handlings
\* alone, and only the steps of a prune change what is to be deleted.
LEMMA DedupeFrames ==
  ASSUME DaemonInv, [DNext]_dvars
  PROVE  /\ world' = world
         /\ \/ Crashes
            \/ \E j \in Jobs : Prunes(j) \/ PruneLooks(j) \/ PruneDeletes(j)
            \/ \E j \in Jobs : Marks(j) /\ UNCHANGED <<lastPruneAt, doomed, slowPrune, now>>
            \/ UNCHANGED <<processedMessages, lastPruneAt, doomed, slowPrune, accepted>> /\ (Tick \/ now' = now)
  <1> DEFINE TableSame == UNCHANGED <<world, now, processedMessages, lastPruneAt, doomed, slowPrune, accepted>>
  <1>1. ASSUME NEW j \in Jobs,
               \/ \E m \in Messages, c \in Chats : Arrives(j, m, c)
               \/ \E n \in Chats : Triggers(j, n)
               \/ PruneEnds(j) \/ Handles(j) \/ Gets(j) \/ Appends(j) \/ Fails(j) \/ Ensures(j)
               \/ SaveBegins(j) \/ SaveWrites(j) \/ Forgets(j) \/ Removes(j)
        PROVE  TableSame
    <2>1. CASE \E m \in Messages, c \in Chats : Arrives(j, m, c)
      BY <2>1 DEF Arrives, dedupeVars
    <2>2. CASE \E n \in Chats : Triggers(j, n)
      BY <2>2 DEF Triggers, dedupeVars
    <2>3. CASE PruneEnds(j)
      BY <2>3 DEF PruneEnds, dedupeVars
    <2>4. CASE Handles(j)
      BY <2>4 DEF Handles, dedupeVars
    <2>5. CASE Gets(j)
      BY <2>5 DEF Gets, dedupeVars
    <2>6. CASE Appends(j)
      BY <2>6 DEF Appends, dedupeVars
    <2>7. CASE Fails(j)
      BY <2>7 DEF Fails, dedupeVars
    <2>8. CASE Ensures(j)
      BY <2>8 DEF Ensures, dedupeVars
    <2>9. CASE SaveBegins(j)
      BY <2>9 DEF SaveBegins, dedupeVars
    <2>10. CASE SaveWrites(j)
      BY <2>10 DEF SaveWrites, dedupeVars
    <2>11. CASE Forgets(j)
      BY <2>11 DEF Forgets, dedupeVars
    <2>12. CASE Removes(j)
      BY <2>12 DEF Removes, dedupeVars
    <2> QED
      BY <1>1, <2>1, <2>2, <2>3, <2>4, <2>5, <2>6, <2>7, <2>8, <2>9, <2>10, <2>11, <2>12
  <1>2. ASSUME Resting \/ UNCHANGED dvars PROVE TableSame
    BY <1>2 DEF Resting, dvars, dedupeVars
  <1>3. ASSUME NEW j \in Jobs, Marks(j)
        PROVE  world' = world /\ UNCHANGED <<lastPruneAt, doomed, slowPrune, now>>
    BY <1>3 DEF Marks
  <1>4. ASSUME NEW j \in Jobs, Prunes(j) \/ PruneLooks(j) \/ PruneDeletes(j)
        PROVE  world' = world
    BY <1>4 DEF Prunes, PruneLooks, PruneDeletes
  <1>5. ASSUME Tick
        PROVE  world' = world /\ UNCHANGED <<processedMessages, lastPruneAt, doomed, slowPrune, accepted>>
    BY <1>5 DEF Tick, dedupeVars
  <1>6. Crashes => world' = world
    BY DEF Crashes
  <1> HIDE DEF TableSame
  <1>7. \/ Tick \/ Crashes \/ TableSame
        \/ \E j \in Jobs : Marks(j)
        \/ \E j \in Jobs : Prunes(j) \/ PruneLooks(j) \/ PruneDeletes(j)
    BY <1>1, <1>2 DEF DNext
  <1> QED
    BY <1>3, <1>4, <1>5, <1>6, <1>7 DEF TableSame

\* Every step keeps the table right.
LEMMA TableKept ==
  ASSUME DaemonInv, [DNext]_dvars
  PROVE  TableRight'
  <1>0. DaemonTypes /\ TableRight
    BY DEF DaemonInv
  <1>1. world' = world
    BY DedupeFrames
  <1> SUFFICES ASSUME world.channel = "lark"
               PROVE  StampsOK /\ (~slowPrune' => \A m \in Messages : Known(m)')
    BY <1>1 DEF TableRight, StampsOK
  <1>2. StampsOK
    BY StampsKept
  <1>3. ASSUME ~slowPrune', NEW m \in Messages PROVE Known(m)'
    <2>0. Crashes \/ Known(m)
      <3>1. Crashes \/ ~slowPrune
        BY <1>3, DedupeFrames DEF Prunes, PruneLooks, PruneDeletes
      <3> QED
        BY <1>0, <3>1 DEF TableRight
    <2>1. CASE ~Crashes /\ \E j \in Jobs : Marks(j)
      BY <2>0, <2>1, MarksKnown
    <2>2. CASE ~Crashes /\ \E j \in Jobs : PruneDeletes(j)
      BY <1>3, <2>0, <2>2, DeletesKnown
    <2>3. CASE Crashes
      BY <2>3 DEF Crashes, Known
    <2>4. CASE ~Crashes /\ Tick
      <3>1. accepted' = accepted /\ processedMessages' = processedMessages /\ now' = now + 1
        BY <2>4 DEF Tick, dedupeVars
      <3>2. Known(m)
        BY <2>0, <2>4
      <3> QED
        BY <1>0, <3>1, <3>2, HandlingFacts DEF Known
    <2>5. CASE ~Crashes /\ accepted' = accepted /\ processedMessages' = processedMessages /\ now' = now
      BY <2>0, <2>5 DEF Known
    <2> QED
      BY <2>1, <2>2, <2>3, <2>4, <2>5, DedupeFrames DEF Prunes, PruneLooks
  <1> QED
    BY <1>2, <1>3

\* What PrunersRight says of one goroutine, under the types.
LEMMA PrunerFacts ==
  ASSUME DaemonInv, world.channel = "lark", NEW j \in Jobs
  PROVE  /\ job[j].stamp \in Nat /\ job[j].stamp <= now /\ now \in Nat /\ TTL \in Nat /\ TTL > 0
         /\ doomed \in [Jobs -> SUBSET Messages] /\ processedMessages \in [Messages -> Nat \cup {-1}]
         /\ lastPruneAt \in Nat \cup {-1}
         /\ doomed[j] # {} => job[j].pc = "range"
         /\ ~slowPrune => DoomedOld(j)
         /\ job[j].pc = "range" =>
              /\ lastPruneAt # -1 /\ job[j].stamp <= lastPruneAt
              /\ \A k \in Jobs \ {j} : job[k].pc = "range" => Apart(j, k)
  <1>1. DaemonTypes
    BY DEF DaemonInv
  <1>2. job[j].stamp \in Nat /\ TTL \in Nat /\ TTL > 0
    BY <1>1, Typed DEF JobType
  <1> QED
    BY <1>1, <1>2 DEF DaemonInv, DaemonTypes, TableRight, PrunersRight

\* A step that starts and ends no Range, and leaves the entries that are to be
\* deleted.
LEMMA PrunersSame ==
  ASSUME DaemonInv, world.channel = "lark", SamePruners,
         UNCHANGED <<lastPruneAt, doomed, slowPrune>>, now' \in Nat, now <= now',
         \A m \in Messages : processedMessages[m] # -1 => processedMessages'[m] = processedMessages[m]
  PROVE  PrunersRight'
  <1>1. ASSUME NEW j \in Jobs
        PROVE  /\ doomed'[j] # {} => job'[j].pc = "range"
               /\ ~slowPrune' => DoomedOld(j)'
               /\ job'[j].pc = "range" =>
                    /\ lastPruneAt' # -1 /\ job'[j].stamp <= lastPruneAt'
                    /\ \A k \in Jobs \ {j} : job'[k].pc = "range" => Apart(j, k)'
    <2>1. doomed'[j] # {} => job'[j].pc = "range"
      BY PrunerFacts DEF SamePruners
    <2>2. ASSUME ~slowPrune', NEW m \in doomed'[j], now' < job'[j].stamp + TTL
          PROVE  Outdated(m, job[j].stamp)' /\ job'[j].stamp = job[j].stamp
      <3>1. job'[j].stamp = job[j].stamp /\ m \in doomed[j] /\ m \in Messages
        BY <2>1, <2>2, PrunerFacts DEF SamePruners
      <3>2. now < job[j].stamp + TTL
        BY <2>2, <3>1, PrunerFacts
      <3>3. Outdated(m, job[j].stamp)
        BY <2>2, <3>1, <3>2, PrunerFacts DEF DoomedOld
      <3> QED
        BY <3>1, <3>3 DEF Outdated
    <2>3. ~slowPrune' => DoomedOld(j)'
      BY <2>2 DEF DoomedOld, Outdated
    <2>4. ASSUME job'[j].pc = "range"
          PROVE  /\ lastPruneAt' # -1 /\ job'[j].stamp <= lastPruneAt'
                 /\ \A k \in Jobs \ {j} : job'[k].pc = "range" => Apart(j, k)'
      <3>1. job[j].pc = "range" /\ job'[j].stamp = job[j].stamp
        BY <2>4 DEF SamePruners
      <3>2. lastPruneAt # -1 /\ job[j].stamp <= lastPruneAt
            /\ \A k \in Jobs \ {j} : job[k].pc = "range" => Apart(j, k)
        BY <3>1, PrunerFacts
      <3>3. ASSUME NEW k \in Jobs \ {j}, job'[k].pc = "range" PROVE Apart(j, k)'
        <4>1. job[k].pc = "range" /\ job'[k].stamp = job[k].stamp
          BY <3>3 DEF SamePruners
        <4> QED
          BY <3>1, <3>2, <4>1 DEF Apart
      <3> QED
        BY <3>1, <3>2, <3>3
    <2> QED
      BY <2>1, <2>3, <2>4
  <1> QED
    BY <1>1 DEF PrunersRight

\* A goroutine that leaves markMessageIfNew, or is not in the Range: the others may
\* be.
LEMMA PrunerLeaves ==
  ASSUME DaemonInv, world.channel = "lark", NEW j \in Jobs, NEW t, t.pc \in {"handle", "over"}, Becomes(j, t),
         doomed[j] = {}, UNCHANGED <<now, processedMessages, lastPruneAt, doomed, slowPrune>>
  PROVE  PrunersRight'
  <1>1. ASSUME NEW i \in Jobs, i # j
        PROVE  /\ doomed'[i] # {} => job'[i].pc = "range"
               /\ ~slowPrune' => DoomedOld(i)'
               /\ job'[i].pc = "range" =>
                    /\ lastPruneAt' # -1 /\ job'[i].stamp <= lastPruneAt'
                    /\ \A k \in Jobs \ {i} : job'[k].pc = "range" => Apart(i, k)'
    <2>1. job'[i] = job[i] /\ \A k \in Jobs : job'[k].pc = "range" => job'[k] = job[k]
      BY <1>1 DEF Becomes
    <2> QED
      BY <2>1, PrunerFacts DEF DoomedOld, Outdated, Apart
  <1>2. job'[j].pc # "range" /\ doomed'[j] = {}
    BY DEF Becomes
  <1> QED
    BY <1>1, <1>2 DEF PrunersRight, DoomedOld

\* A Range that begins: its clock is TTL after those of all others.
LEMMA PrunerStarts ==
  ASSUME DaemonInv, world.channel = "lark", NEW j \in Jobs, PruneBegins(j), job[j].pc = "prune",
         UNCHANGED <<now, processedMessages, doomed, slowPrune>>
  PROVE  PrunersRight'
  <1> DEFINE s == job[j].stamp
  <1>1. /\ job'[j].pc = "range" /\ job'[j].stamp = s /\ lastPruneAt' = s
        /\ \A k \in Jobs : k # j => job'[k] = job[k]
    BY DEF PruneBegins, Becomes
  <1>2. s \in Nat /\ TTL \in Nat /\ doomed[j] = {}
    BY PrunerFacts
  <1>3. ASSUME NEW k \in Jobs, k # j, job[k].pc = "range"
        PROVE  job[k].stamp \in Nat /\ job[k].stamp + TTL <= s
    <2>1. job[k].stamp \in Nat /\ lastPruneAt \in Nat \cup {-1} /\ lastPruneAt # -1 /\ job[k].stamp <= lastPruneAt
      BY <1>3, PrunerFacts
    <2>2. s - lastPruneAt >= TTL
      BY <2>1 DEF PruneBegins
    <2> QED
      BY <1>2, <2>1, <2>2
  <1>4. ASSUME NEW i \in Jobs
        PROVE  /\ doomed'[i] # {} => job'[i].pc = "range"
               /\ ~slowPrune' => DoomedOld(i)'
               /\ job'[i].pc = "range" =>
                    /\ lastPruneAt' # -1 /\ job'[i].stamp <= lastPruneAt'
                    /\ \A k \in Jobs \ {i} : job'[k].pc = "range" => Apart(i, k)'
    <2>1. CASE i = j
      <3>1. \A k \in Jobs \ {j} : job'[k].pc = "range" => Apart(j, k)'
        BY <1>1, <1>3 DEF Apart
      <3> QED
        BY <1>1, <1>2, <2>1, <3>1 DEF DoomedOld
    <2>2. CASE i # j
      <3>1. job'[i] = job[i] /\ doomed'[i] = doomed[i]
        BY <1>1, <2>2
      <3>2. /\ doomed'[i] # {} => job'[i].pc = "range"
            /\ ~slowPrune' => DoomedOld(i)'
        BY <3>1, PrunerFacts DEF DoomedOld, Outdated
      <3>3. ASSUME job'[i].pc = "range"
            PROVE  /\ lastPruneAt' # -1 /\ job'[i].stamp <= lastPruneAt'
                   /\ \A k \in Jobs \ {i} : job'[k].pc = "range" => Apart(i, k)'
        <4>1. job[i].stamp \in Nat /\ job[i].stamp + TTL <= s /\ job[i].pc = "range"
          BY <1>3, <2>2, <3>1, <3>3
        <4>2. lastPruneAt' # -1 /\ job'[i].stamp <= lastPruneAt'
          BY <1>1, <1>2, <3>1, <4>1
        <4>3. ASSUME NEW k \in Jobs \ {i}, job'[k].pc = "range" PROVE Apart(i, k)'
          <5>1. CASE k = j
            BY <1>1, <3>1, <4>1, <5>1 DEF Apart
          <5>2. CASE k # j
            <6>1. job'[k] = job[k]
              BY <1>1, <5>2
            <6>2. Apart(i, k)
              BY <4>1, <4>3, <6>1, PrunerFacts
            <6> QED
              BY <3>1, <6>1, <6>2 DEF Apart
          <5> QED
            BY <5>1, <5>2
        <4> QED
          BY <4>2, <4>3
      <3> QED
        BY <3>2, <3>3
    <2> QED
      BY <2>1, <2>2
  <1> QED
    BY <1>4 DEF PrunersRight

\* Of two goroutines that are to delete at most one is in time.
LEMMA PrunerDeletes ==
  ASSUME DaemonInv, world.channel = "lark", NEW j \in Jobs, PruneLooks(j) \/ PruneDeletes(j)
  PROVE  PrunersRight'
  <1>0. job[j].pc = "range" /\ UNCHANGED <<now, job, lastPruneAt>>
    BY DEF PruneLooks, PruneDeletes
  <1>1. ASSUME NEW i \in Jobs, doomed'[i] # {} PROVE job'[i].pc = "range"
    <2>1. doomed[i] # {} \/ i = j
      BY <1>1, PrunerFacts DEF PruneLooks, PruneDeletes
    <2> QED
      BY <1>0, <2>1, PrunerFacts
  <1>2. ASSUME NEW i \in Jobs, ~slowPrune', NEW m \in doomed'[i], now < job[i].stamp + TTL
        PROVE  Outdated(m, job[i].stamp)'
    <2>0. doomed \in [Jobs -> SUBSET Messages]
      BY PrunerFacts
    <2>1. CASE PruneLooks(j)
      <3>1. processedMessages' = processedMessages /\ ~slowPrune
        BY <1>2, <2>1 DEF PruneLooks
      <3>2. Outdated(m, job[i].stamp)
        <4>1. CASE i = j
          BY <1>2, <2>0, <2>1, <4>1 DEF PruneLooks
        <4>2. CASE i # j
          <5>1. m \in doomed[i]
            BY <1>2, <2>0, <2>1, <4>2 DEF PruneLooks
          <5> QED
            BY <1>2, <3>1, <5>1, PrunerFacts DEF DoomedOld
        <4> QED
          BY <4>1, <4>2
      <3> QED
        BY <1>0, <3>1, <3>2 DEF Outdated
    <2>2. CASE PruneDeletes(j)
      <3>1. i # j /\ m \in doomed[i] /\ m \in Messages
        BY <1>2, <2>0, <2>2 DEF PruneDeletes
      <3>2. ~slowPrune /\ ~ (now >= job[j].stamp + TTL)
        BY <1>2, <2>2 DEF PruneDeletes
      <3>3. Outdated(m, job[i].stamp)
        BY <1>2, <3>1, <3>2, PrunerFacts DEF DoomedOld
      <3>4. m \notin doomed[j]
        <4>1. job[i].pc = "range" /\ Apart(j, i)
          BY <1>0, <3>1, PrunerFacts
        <4>2. job[j].stamp \in Nat /\ job[j].stamp <= now /\ job[i].stamp \in Nat /\ job[i].stamp <= now
              /\ now \in Nat /\ TTL \in Nat
          BY PrunerFacts
        <4>3. now < job[j].stamp + TTL
          BY <3>2, <4>2
        <4> QED
          BY <1>2, <4>1, <4>2, <4>3 DEF Apart
      <3>5. processedMessages'[m] = processedMessages[m]
        BY <2>2, <3>1, <3>4 DEF PruneDeletes
      <3> QED
        BY <1>0, <3>3, <3>5 DEF Outdated
    <2> QED
      BY <2>1, <2>2
  <1>3. ASSUME NEW i \in Jobs
        PROVE  /\ ~slowPrune' => DoomedOld(i)'
               /\ job'[i].pc = "range" =>
                    /\ lastPruneAt' # -1 /\ job'[i].stamp <= lastPruneAt'
                    /\ \A k \in Jobs \ {i} : job'[k].pc = "range" => Apart(i, k)'
    <2>1. ~slowPrune' => DoomedOld(i)'
      BY <1>0, <1>2 DEF DoomedOld, Outdated
    <2>2. job'[i].pc = "range" =>
            /\ lastPruneAt' # -1 /\ job'[i].stamp <= lastPruneAt'
            /\ \A k \in Jobs \ {i} : job'[k].pc = "range" => Apart(i, k)'
      BY <1>0, PrunerFacts DEF Apart
    <2> QED
      BY <2>1, <2>2
  <1> QED
    BY <1>1, <1>3 DEF PrunersRight

\* Every step keeps what is known of the goroutines that prune.
LEMMA PrunersKept ==
  ASSUME DaemonInv, [DNext]_dvars
  PROVE  PrunersRight'
  <1>0. DaemonTypes /\ world' = world
    BY DedupeFrames DEF DaemonInv
  <1>1. CASE world.channel # "lark"
    BY <1>0, <1>1 DEF PrunersRight
  <1>2. CASE Crashes
    <2>1. \A j \in Jobs : doomed'[j] = {} /\ job'[j].pc # "range"
      BY <1>0, <1>2, CrashesTypes DEF Crashes
    <2> QED
      BY <2>1 DEF PrunersRight, DoomedOld
  <1>3. ASSUME world.channel = "lark", NEW j \in Jobs, Prunes(j) PROVE PrunersRight'
    <2>1. job[j].pc = "prune" /\ (PruneReturns(j) \/ PruneBegins(j))
          /\ UNCHANGED <<now, processedMessages, doomed, slowPrune>>
      BY <1>0, <1>3, PrunesTypes
    <2>2. doomed[j] = {}
      BY <1>3, <2>1, PrunerFacts
    <2> QED
      BY <1>3, <2>1, <2>2, PrunerLeaves, PrunerStarts DEF PruneReturns
  <1>4. ASSUME world.channel = "lark", NEW j \in Jobs, PruneEnds(j) PROVE PrunersRight'
    <2>1. doomed[j] = {} /\ UNCHANGED <<now, processedMessages, lastPruneAt, doomed, slowPrune>>
          /\ MarkEnds(j) /\ job[j].pc = "range"
      BY <1>4 DEF PruneEnds, dedupeVars
    <2>2. \E t : t.pc \in {"handle", "over"} /\ Becomes(j, t)
      BY <1>0, <2>1, MarkEndsFacts
    <2> QED
      BY <1>4, <2>1, <2>2, PrunerLeaves
  <1>5. ASSUME world.channel = "lark", NEW j \in Jobs, PruneLooks(j) \/ PruneDeletes(j) PROVE PrunersRight'
    BY <1>5, PrunerDeletes
  <1>6. CASE world.channel = "lark" /\ SamePruners
    <2>1. CASE \E j \in Jobs : Marks(j) /\ UNCHANGED <<lastPruneAt, doomed, slowPrune, now>>
      <3>1. \A m \in Messages : processedMessages[m] # -1 => processedMessages'[m] = processedMessages[m]
        BY <1>0, <2>1 DEF Marks, DaemonTypes
      <3>2. now' \in Nat /\ now <= now'
        BY <1>0, <2>1 DEF DaemonTypes
      <3> QED
        BY <1>6, <2>1, <3>1, <3>2, PrunersSame
    <2>2. CASE UNCHANGED <<processedMessages, lastPruneAt, doomed, slowPrune, accepted>> /\ (Tick \/ now' = now)
      <3>1. now' \in Nat /\ now <= now'
        BY <1>0, <2>2 DEF DaemonTypes, Tick
      <3> QED
        BY <1>6, <2>2, <3>1, PrunersSame
    <2> QED
      BY <1>2, <1>3, <1>5, <1>6, <2>1, <2>2, DedupeFrames
  <1> QED
    BY <1>1, <1>2, <1>3, <1>4, <1>5, <1>6, StampsKept

-----------------------------------------------------------------------------
\* The goroutines other than j stay as they are, but for alone, which may end.
Others(j) ==
  \A k \in Jobs : k # j =>
    /\ job'[k].pc = job[k].pc /\ job'[k].name = job[k].name /\ job'[k].id = job[k].id
    /\ job'[k].plan = job[k].plan /\ job'[k].obj = job[k].obj /\ job'[k].copy = job[k].copy
    /\ job'[k].alone => job[k].alone

\* j does not work, or goes on.
Stops(j) == job'[j].pc \notin Working
Goes(j) ==
  /\ job[j].pc \in Working /\ job'[j].pc \in Working /\ job'[j].name = job[j].name
  /\ job'[j].id = job[j].id /\ job'[j].alone = job[j].alone

\* What the kinds of steps say of the goroutines that do not take them.
LEMMA OthersFacts ==
  /\ \A j \in Jobs : \A t : Becomes(j, t) => Others(j)
  /\ \A j \in Jobs : Becomes(j, [NoJob EXCEPT !.pc = "over"]) => Others(j) /\ Stops(j)
  /\ \A j \in Jobs, pc \in Working : \A o, p, c :
       job[j].pc \in Working /\ Works(j, pc, o, p, c) => Others(j) /\ Goes(j)
  /\ \A j \in Jobs : \A n, pc, plan, id : Joins(j, n, pc, plan, id) => Others(j)
  <1>1. \A j \in Jobs : \A t : Becomes(j, t) => Others(j)
    BY DEF Becomes, Others
  <1>2. \A j \in Jobs : Becomes(j, [NoJob EXCEPT !.pc = "over"]) => Others(j) /\ Stops(j)
    BY <1>1, NoJobFacts DEF Becomes, Stops, Working
  <1>3. \A j \in Jobs, pc \in Working : \A o, p, c :
          job[j].pc \in Working /\ Works(j, pc, o, p, c) => Others(j) /\ Goes(j)
    BY DEF Works, Others, Goes
  <1>4. \A j \in Jobs : \A n, pc, plan, id : Joins(j, n, pc, plan, id) => Others(j)
    BY DEF Joins, Others
  <1> QED
    BY <1>1, <1>2, <1>3, <1>4

\* Whoever was told to be alone still is: starting to work tells everyone on the
\* session.
LEMMA AloneKept ==
  ASSUME AloneOK, NEW j \in Jobs, Others(j),
         \/ Stops(j) \/ Goes(j)
         \/ \E n, pc, plan, id : Joins(j, n, pc, plan, id)
  PROVE  AloneOK'
  <1> SUFFICES ASSUME NEW k \in Jobs, NEW l \in Jobs, job'[k].alone, job'[k].pc \in Working,
                      job'[l].pc \in Working, job'[l].name = job'[k].name, l # k
               PROVE  FALSE
    BY DEF AloneOK
  <1>1. CASE k # j /\ l # j
    BY <1>1 DEF Others, AloneOK
  <1>2. CASE Goes(j)
    BY <1>2 DEF Others, AloneOK, Goes
  <1>3. CASE Stops(j)
    BY <1>1, <1>3 DEF Stops
  <1>4. ASSUME NEW n, NEW pc, NEW plan, NEW id, Joins(j, n, pc, plan, id), k = j \/ l = j
        PROVE  FALSE
    <2>1. job'[j].name = n
      BY <1>4 DEF Joins
    <2>2. CASE k = j
      <3>1. job[l].pc \in Working /\ job[l].name = n /\ On(n) = {}
        BY <1>4, <2>1, <2>2 DEF Joins
      <3> QED
        BY <3>1 DEF On
    <2>3. CASE l = j
      <3>1. job[k].pc \in Working /\ job[k].name = n /\ k \notin On(n)
        BY <1>4, <2>1, <2>3 DEF Joins
      <3> QED
        BY <3>1 DEF On
    <2> QED
      BY <1>4, <2>2, <2>3
  <1> QED
    BY <1>1, <1>2, <1>3, <1>4

\* No object gets a new owner.
LEMMA ObjectsKept ==
  ASSUME DaemonTypes, ObjectsOK, Len(history') = Len(history), NEW j \in Jobs, Others(j),
         \A n \in SessionIDs : mem'[n] \in {mem[n], 0},
         job'[j].pc \in Holding =>
           \/ job[j].pc \in Holding /\ job'[j].name = job[j].name /\ job'[j].obj = job[j].obj
           \/ job'[j].name \in SessionIDs /\ job'[j].obj = mem[job'[j].name] /\ job'[j].obj # 0
  PROVE  ObjectsOK'
  <1>0. mem \in [SessionIDs -> Nat] /\ Len(history) \in Nat
    BY DEF DaemonTypes
  <1>1. \A n \in SessionIDs : mem'[n] <= Len(history')
    BY <1>0 DEF ObjectsOK
  <1>2. ASSUME NEW k \in Jobs, job'[k].pc \in Holding
        PROVE  job'[k].obj \in 1 .. Len(history')
    <2>1. CASE k # j
      BY <1>2, <2>1 DEF ObjectsOK, Others
    <2>2. CASE k = j /\ job'[j].name \in SessionIDs /\ job'[j].obj = mem[job'[j].name] /\ job'[j].obj # 0
      BY <1>0, <2>2 DEF ObjectsOK
    <2>3. CASE k = j /\ job[j].pc \in Holding /\ job'[j].obj = job[j].obj
      BY <2>3 DEF ObjectsOK
    <2> QED
      BY <1>2, <2>1, <2>2, <2>3
  <1>3. ASSUME NEW n \in SessionIDs, NEW o \in 1 .. Len(history), Owner(n, o)'
        PROVE  Owner(n, o)
    <2>1. CASE mem'[n] = o
      BY <1>0, <2>1 DEF Owner
    <2>2. ASSUME NEW k \in Jobs, job'[k].pc \in Holding, job'[k].name = n, job'[k].obj = o
          PROVE  Owner(n, o)
      <3>1. CASE k # j
        BY <2>2, <3>1 DEF Others, Owner
      <3>2. CASE k = j
        BY <2>2, <3>2 DEF Owner
      <3> QED
        BY <3>1, <3>2
    <2> QED
      BY <1>3, <2>1, <2>2 DEF Owner
  <1>4. ASSUME NEW n \in SessionIDs, NEW p \in SessionIDs, NEW o \in 1 .. Len(history'),
               Owner(n, o)', Owner(p, o)'
        PROVE  n = p
    <2>1. o \in 1 .. Len(history)
      BY <1>4
    <2>2. Owner(n, o) /\ Owner(p, o)
      BY <1>3, <1>4, <2>1
    <2> QED
      BY <2>1, <2>2 DEF ObjectsOK
  <1> QED
    BY <1>1, <1>2, <1>4 DEF ObjectsOK

\* Objects only grow.
Growing == /\ Len(history) <= Len(history')
           /\ \A i \in 1 .. Len(history) : history[i].has \subseteq history'[i].has

\* The turns of the others stay right when objects grow and their session keeps its
\* object.
LEMMA OtherTurn ==
  ASSUME TurnInv, Growing, NEW j \in Jobs, Others(j), NEW k \in Jobs, k # j,
         job[k].alone /\ job[k].pc \in Holding => mem'[job[k].name] = mem[job[k].name]
  PROVE  TurnOK(k)'
  <1>1. TurnOK(k) /\ (job[k].pc \in Holding => job[k].obj \in 1 .. Len(history))
    BY DEF TurnInv, TurnsOK, ObjectsOK
  <1>2. /\ job'[k].pc = job[k].pc /\ job'[k].name = job[k].name /\ job'[k].id = job[k].id
        /\ job'[k].plan = job[k].plan /\ job'[k].obj = job[k].obj /\ job'[k].copy = job[k].copy
        /\ job'[k].alone => job[k].alone
    BY DEF Others
  <1>3. job'[k].pc = "get" => job'[k].plan = <<Asked(job'[k].id), Reply(job'[k].id)>>
    BY <1>1, <1>2 DEF TurnOK
  <1>4. ASSUME job'[k].alone, job'[k].pc \in Holding
        PROVE  /\ job'[k].obj = mem'[job'[k].name]
               /\ \A e \in Entries(job'[k].id) :
                    \/ e \in history'[job'[k].obj].has
                    \/ job'[k].pc = "run" /\ \E i \in 1 .. Len(job'[k].plan) : job'[k].plan[i] = e
               /\ job'[k].pc = "write" => Entries(job'[k].id) \subseteq job'[k].copy
    <2>1. job[k].alone /\ job[k].pc \in Holding /\ job[k].obj \in 1 .. Len(history)
      BY <1>1, <1>2, <1>4
    <2>2. history[job[k].obj].has \subseteq history'[job[k].obj].has
      BY <2>1 DEF Growing
    <2> QED
      BY <1>1, <1>2, <2>1, <2>2 DEF TurnOK
  <1> QED
    BY <1>3, <1>4 DEF TurnOK, Entries

\* The others still spare a finished turn when its session keeps its object.
LEMMA OtherSpares ==
  ASSUME TurnInv, NEW j \in Jobs, Others(j), NEW k \in Jobs, k # j, NEW t \in kept,
         job[k].name = t.name /\ job[k].pc \in Holding => mem'[t.name] = mem[t.name]
  PROVE  Spares(k, t)'
  BY DEF TurnInv, KeptTurns, Others, Spares, Entries, Holding, Working

\* A finished turn is still in memory when objects grow.
LEMMA StillRemembered ==
  ASSUME DaemonTypes, TurnInv, Growing, NEW t \in kept, mem'[t.name] \in {mem[t.name], 0}
  PROVE  Remembered(t)'
  <1>0. t.name \in SessionIDs /\ mem[t.name] \in Nat /\ mem[t.name] <= Len(history)
        /\ Len(history) \in Nat
    BY DEF DaemonTypes, TurnType, TurnInv, ObjectsOK
  <1>1. Remembered(t)
    BY DEF TurnInv, KeptTurns
  <1>2. CASE mem[t.name] # 0 /\ mem'[t.name] = mem[t.name]
    <2>1. mem[t.name] \in 1 .. Len(history)
      BY <1>0, <1>2
    <2>2. history[mem[t.name]].has \subseteq history'[mem[t.name]].has
      BY <2>1 DEF Growing
    <2> QED
      BY <1>1, <1>2, <2>2 DEF Remembered, Entries
  <1>3. CASE mem'[t.name] = 0
    BY <1>3 DEF Remembered
  <1> QED
    BY <1>2, <1>3

\* What a step of one goroutine keeps when it leaves the memory of the Manager
\* alone, or grows an object: all of the invariant but the files.
KeptButFiles ==
  /\ AloneOK' /\ ObjectsOK' /\ TurnsOK'
  /\ \A t \in kept : Remembered(t)' /\ \A k \in Jobs : Spares(k, t)'

\* A step that keeps the memory of the Manager keeps all but the files.
LEMMA StepOfOne ==
  ASSUME DaemonTypes, TurnInv, NEW j \in Jobs, Others(j), mem' = mem, Growing,
         Len(history') = Len(history),
         \/ Stops(j)
         \/ /\ Goes(j) /\ job[j].pc \in Holding /\ job'[j].pc \in Holding /\ job'[j].obj = job[j].obj
            /\ TurnOK(j)' /\ \A t \in kept : Spares(j, t)'
  PROVE  KeptButFiles
  <1>1. AloneOK'
    BY AloneKept DEF TurnInv
  <1>2. ObjectsOK'
    BY ObjectsKept DEF TurnInv, Stops, Goes, Working, Holding
  <1>3. TurnOK(j)' /\ \A t \in kept : Spares(j, t)'
    BY DEF Stops, TurnOK, Spares, Working, Holding
  <1>4. TurnsOK'
    <2>1. ASSUME NEW k \in Jobs, k # j PROVE TurnOK(k)'
      BY <2>1, OtherTurn
    <2> QED
      BY <1>3, <2>1 DEF TurnsOK
  <1>5. ASSUME NEW t \in kept PROVE Remembered(t)' /\ \A k \in Jobs : Spares(k, t)'
    <2>1. Remembered(t)'
      BY StillRemembered
    <2>2. ASSUME NEW k \in Jobs, k # j PROVE Spares(k, t)'
      BY <2>2, OtherSpares
    <2> QED
      BY <1>3, <2>1, <2>2
  <1> QED
    BY <1>1, <1>2, <1>4, <1>5 DEF KeptButFiles

\* Objects that stay the same grow.
LEMMA SameHistory ==
  ASSUME DaemonTypes, history' = history
  PROVE  Growing /\ Len(history') = Len(history)
  <1>1. Len(history) \in Nat
    BY DEF DaemonTypes
  <1> QED
    BY <1>1 DEF Growing

\* A goroutine that does not work, or ends: nothing else changes.
LEMMA StopsInv ==
  ASSUME DaemonTypes, TurnInv, NEW j \in Jobs, Others(j), Stops(j), UNCHANGED <<mem, history, file, kept>>
  PROVE  TurnInv'
  <1>1. KeptButFiles
    BY SameHistory, StepOfOne
  <1>2. TurnsKept'
    BY DEF TurnInv, TurnsKept
  <1> QED
    BY <1>1, <1>2 DEF KeptButFiles, TurnInv, KeptTurns

\* A goroutine that starts to work.
LEMMA JoinsInv ==
  ASSUME DaemonTypes, TurnInv, NEW j \in Jobs, NEW n \in SessionIDs, NEW id, UNCHANGED <<mem, history, file>>,
         \/ Joins(j, n, "get", <<Asked(id), Reply(id)>>, id) /\ kept' = kept
         \/ Joins(j, n, "forget", <<>>, id) /\ kept' = {t \in kept : t.name # n}
  PROVE  TurnInv'
  <1>1. Others(j) /\ Growing /\ Len(history') = Len(history)
    BY SameHistory, OthersFacts
  <1>2. AloneOK'
    <2>1. \E p, plan, i : Joins(j, n, p, plan, i)
      OBVIOUS
    <2> QED
      BY <1>1, <2>1, AloneKept DEF TurnInv
  <1>3. job'[j].pc \notin Holding
    BY DEF Joins, Holding
  <1>4. ObjectsOK'
    BY <1>1, <1>3, ObjectsKept DEF TurnInv
  <1>5. TurnOK(j)'
    BY <1>3 DEF TurnOK, Joins, Asked, Reply
  <1>6. TurnsOK'
    <2>1. ASSUME NEW k \in Jobs, k # j PROVE TurnOK(k)'
      BY <1>1, <2>1, OtherTurn
    <2> QED
      BY <1>5, <2>1 DEF TurnsOK
  <1>7. ASSUME NEW t \in kept' PROVE Remembered(t)' /\ \A k \in Jobs : Spares(k, t)'
    <2>0. t \in kept
      BY <1>7
    <2>1. Remembered(t)'
      BY <1>1, <2>0, StillRemembered
    <2>2. ASSUME NEW k \in Jobs, k # j PROVE Spares(k, t)'
      BY <1>1, <2>0, <2>2, OtherSpares
    <2>3. Spares(j, t)'
      <3>1. CASE job'[j].pc = "get"
        BY <3>1 DEF Spares, Holding
      <3>2. CASE job'[j].name = n /\ t.name # n
        BY <3>2 DEF Spares
      <3> QED
        BY <1>7, <3>1, <3>2 DEF Joins
    <2> QED
      BY <2>1, <2>2, <2>3
  <1>8. TurnsKept'
    BY DEF TurnInv, TurnsKept
  <1> QED
    BY <1>2, <1>4, <1>6, <1>7, <1>8 DEF TurnInv, KeptTurns

\* A turn that is alone races with nobody: objects belong to one session.
LEMMA NoRace ==
  ASSUME DaemonTypes, TurnInv, NEW j \in Jobs, job[j].pc = "run", job[j].alone
  PROVE  ~ Races(j)
  <1> SUFFICES ASSUME NEW k \in Jobs, k # j, job[k].pc = "run", job[k].obj = job[j].obj
               PROVE  FALSE
    BY DEF Races
  <1>1. job[j].name \in SessionIDs /\ job[k].name \in SessionIDs
    BY Typed DEF JobOK, Working
  <1>2. job[j].obj \in 1 .. Len(history)
    BY DEF TurnInv, ObjectsOK, Holding
  <1>3. Owner(job[j].name, job[j].obj) /\ Owner(job[k].name, job[j].obj)
    BY DEF Owner, Holding
  <1>4. job[j].name = job[k].name
    BY <1>1, <1>2, <1>3 DEF TurnInv, ObjectsOK
  <1> QED
    BY <1>4 DEF TurnInv, AloneOK, Working

\* Appending: a turn that is alone loses no entry.
LEMMA AppendsInv ==
  ASSUME DaemonTypes, TurnInv, NEW j \in Jobs, Appends(j)
  PROVE  TurnInv'
  <1>0. ObjectsOK /\ TurnOK(j) /\ UNCHANGED <<mem, file, kept>>
    BY DEF TurnInv, TurnsOK, Appends
  <1>1. /\ job[j].pc = "run" /\ job[j].plan # <<>>
        /\ Works(j, "run", job[j].obj, Tail(job[j].plan), job[j].copy)
    BY AppendsFacts
  <1>2. PICK stored : Grows(job[j].obj, stored) /\ (Races(j) \/ stored = {Head(job[j].plan)})
    BY <1>0, AppendsTypes
  <1>3. Others(j) /\ Goes(j)
    BY <1>1, OthersFacts DEF Working
  <1>4. Growing /\ Len(history') = Len(history)
    <2>1. Len(history) \in Nat
      BY DEF DaemonTypes
    <2> QED
      BY <1>2, <2>1 DEF Grows, Growing
  <1>5. job[j].plan \in Seq(Entry)
    BY Typed DEF JobType
  <1>6. TurnOK(j)'
    <2>1. ASSUME job[j].alone, NEW e \in Entries(job[j].id)
          PROVE  \/ e \in history'[job[j].obj].has
                 \/ \E i \in 1 .. Len(Tail(job[j].plan)) : Tail(job[j].plan)[i] = e
      <3>1. stored = {Head(job[j].plan)} /\ history'[job[j].obj].has = history[job[j].obj].has \cup stored
        BY <1>1, <1>2, <2>1, NoRace DEF Grows
      <3>2. CASE e \in history[job[j].obj].has
        BY <3>1, <3>2
      <3>3. ASSUME NEW i \in 1 .. Len(job[j].plan), job[j].plan[i] = e
            PROVE  \/ e \in history'[job[j].obj].has
                   \/ \E l \in 1 .. Len(Tail(job[j].plan)) : Tail(job[j].plan)[l] = e
        <4>1. CASE i = 1
          BY <1>1, <1>5, <3>1, <3>3, <4>1
        <4>2. CASE i # 1
          <5>1. i - 1 \in 1 .. Len(Tail(job[j].plan)) /\ Tail(job[j].plan)[i - 1] = e
            BY <1>1, <1>5, <3>3, <4>2
          <5> QED
            BY <5>1
        <4> QED
          BY <4>1, <4>2
      <3> QED
        BY <1>0, <1>1, <2>1, <3>2, <3>3 DEF TurnOK, Holding
    <2>2. job[j].alone => job[j].obj = mem[job[j].name]
      BY <1>0, <1>1 DEF TurnOK, Holding
    <2> QED
      BY <1>0, <1>1, <2>1, <2>2 DEF TurnOK, Works, Entries, Asked, Reply
  <1>7. ASSUME NEW t \in kept PROVE Spares(j, t)'
    <2>1. Spares(j, t)
      BY DEF TurnInv, KeptTurns
    <2> QED
      BY <1>0, <1>1, <2>1 DEF Spares, Works, Working, Holding
  <1>8. KeptButFiles
    BY <1>0, <1>1, <1>3, <1>4, <1>6, <1>7, StepOfOne DEF Works, Holding
  <1>9. TurnsKept'
    BY <1>0 DEF TurnInv, TurnsKept
  <1> QED
    BY <1>0, <1>8, <1>9 DEF KeptButFiles, TurnInv, KeptTurns

\* ensureTurnHistory: the entries of a turn that is alone are in its object.
LEMMA EnsuresInv ==
  ASSUME DaemonTypes, TurnInv, NEW j \in Jobs, Ensures(j)
  PROVE  TurnInv'
  <1>0. TurnOK(j) /\ UNCHANGED <<mem, history, file, kept>>
    BY DEF TurnInv, TurnsOK, Ensures, historyVars
  <1>1. PICK pc \in {"run", "save"}, plan \in Seq(Entry) :
          job[j].pc = "run" /\ job[j].plan = <<>> /\ Works(j, pc, job[j].obj, plan, job[j].copy)
    BY EnsuresFacts
  <1>2. Others(j) /\ Goes(j)
    BY <1>1, OthersFacts DEF Working
  <1>3. TurnOK(j)'
    <2>1. job[j].alone => /\ job[j].obj = mem[job[j].name]
                          /\ \A e \in Entries(job[j].id) : e \in history[job[j].obj].has
      BY <1>0, <1>1 DEF TurnOK, Holding
    <2> QED
      BY <1>0, <1>1, <2>1 DEF TurnOK, Works, Entries, Asked, Reply
  <1>4. ASSUME NEW t \in kept PROVE Spares(j, t)'
    <2>1. Spares(j, t)
      BY DEF TurnInv, KeptTurns
    <2> QED
      BY <1>0, <1>1, <2>1 DEF Spares, Works, Working, Holding
  <1>5. KeptButFiles
    BY <1>0, <1>1, <1>2, <1>3, <1>4, SameHistory, StepOfOne DEF Works, Holding
  <1>6. TurnsKept'
    BY <1>0 DEF TurnInv, TurnsKept
  <1> QED
    BY <1>0, <1>5, <1>6 DEF KeptButFiles, TurnInv, KeptTurns

\* A save that begins: the copy has what is to be kept, and the file is torn.
LEMMA SaveBeginsInv ==
  ASSUME DaemonTypes, TurnInv, NEW j \in Jobs, SaveBegins(j)
  PROVE  TurnInv'
  <1>0. TurnOK(j) /\ UNCHANGED <<mem, history, kept>> /\ job[j].pc = "save" /\ job[j].obj \in 1 .. Len(history)
    BY DEF TurnInv, TurnsOK, SaveBegins, ObjectsOK, Holding
  <1>1. CASE Becomes(j, [NoJob EXCEPT !.pc = "over"]) /\ file' = file
    BY <1>0, <1>1, OthersFacts, StopsInv
  <1>2. CASE /\ Works(j, "write", job[j].obj, job[j].plan, history[job[j].obj].has)
             /\ file' = [file EXCEPT ![job[j].name] = Torn]
    <2>1. Others(j) /\ Goes(j)
      BY <1>0, <1>2, OthersFacts DEF Working
    <2>2. TurnOK(j)'
      <3>1. job[j].alone => /\ job[j].obj = mem[job[j].name]
                            /\ \A e \in Entries(job[j].id) : e \in history[job[j].obj].has
        BY <1>0 DEF TurnOK, Holding
      <3> QED
        BY <1>0, <1>2, <3>1 DEF TurnOK, Works, Entries, Asked, Reply
    <2>3. ASSUME NEW t \in kept PROVE Spares(j, t)'
      <3>1. Spares(j, t) /\ Remembered(t)
        BY DEF TurnInv, KeptTurns
      <3>2. CASE job[j].name = t.name
        <4>1. job[j].obj = mem[t.name]
          BY <1>0, <3>1, <3>2 DEF Spares, Working, Holding
        <4>2. Entries(t.id) \subseteq history[job[j].obj].has
          BY <1>0, <3>1, <4>1 DEF Remembered
        <4> QED
          BY <1>0, <1>2, <4>1, <4>2 DEF Spares, Works, Working, Holding, Entries
      <3>3. CASE job[j].name # t.name
        BY <1>2, <3>3 DEF Spares, Works
      <3> QED
        BY <3>2, <3>3
    <2>4. KeptButFiles
      BY <1>0, <1>2, <2>1, <2>2, <2>3, SameHistory, StepOfOne DEF Works, Holding
    <2>5. TurnsKept'
      <3>1. \A n \in SessionIDs : file'[n] = Torn \/ file'[n] = file[n]
        BY <1>2 DEF DaemonTypes
      <3>2. \A t \in kept : t.name \in SessionIDs
        BY DEF DaemonTypes, TurnType
      <3> QED
        BY <1>0, <3>1, <3>2 DEF TurnInv, TurnsKept, Torn, Asked, Reply
    <2> QED
      BY <1>0, <2>4, <2>5 DEF KeptButFiles, TurnInv, KeptTurns
  <1> QED
    BY <1>0, <1>1, <1>2, SaveBeginsFacts

\* A save that ends: the file gets the copy, and a turn that was alone is now to be kept.
LEMMA SaveWritesInv ==
  ASSUME DaemonTypes, TurnInv, NEW j \in Jobs, SaveWrites(j)
  PROVE  TurnInv'
  <1> DEFINE n == job[j].name
  <1>0. /\ job[j].pc = "write" /\ UNCHANGED <<mem, history>> /\ Ends(j) /\ TurnOK(j)
        /\ n \in SessionIDs /\ file \in [SessionIDs -> FileType] /\ job[j].obj \in 1 .. Len(history)
    BY Typed DEF SaveWrites, TurnInv, TurnsOK, DaemonTypes, JobOK, Working, ObjectsOK, Holding
  <1>1. Others(j) /\ Stops(j)
    BY <1>0, EndsFacts, OthersFacts
  <1>2. KeptButFiles
    BY <1>0, <1>1, SameHistory, StepOfOne
  <1>3. ASSUME NEW t \in kept, t.name = n PROVE Entries(t.id) \subseteq job[j].copy
    <2>1. Spares(j, t)
      BY DEF TurnInv, KeptTurns
    <2> QED
      BY <1>0, <1>3, <2>1 DEF Spares, Working
  <1>4. job[j].alone => /\ Entries(job[j].id) \subseteq job[j].copy /\ job[j].obj = mem[n]
                        /\ Entries(job[j].id) \subseteq history[job[j].obj].has
    BY <1>0 DEF TurnOK, Holding
  <1>a. PICK new : new = [name |-> n, id |-> job[j].id]
    OBVIOUS
  <1>5. new.name = n /\ new.id = job[j].id
    BY <1>a
  <1>6. kept' = kept \/ (job[j].alone /\ kept' = kept \cup {new})
    BY <1>a DEF SaveWrites
  <1>7. job[j].alone => Remembered(new)' /\ \A k \in Jobs : Spares(k, new)'
    <2> SUFFICES ASSUME job[j].alone PROVE Remembered(new)' /\ \A k \in Jobs : Spares(k, new)'
      OBVIOUS
    <2>1. Remembered(new)'
      BY <1>0, <1>4, <1>5 DEF Remembered, Entries
    <2>3. ASSUME NEW k \in Jobs, job'[k].pc \in Working, job'[k].name = n PROVE FALSE
      <3>1. k # j
        BY <1>1, <2>3 DEF Stops
      <3>2. job[k].pc \in Working /\ job[k].name = n
        BY <1>1, <2>3, <3>1 DEF Others
      <3> QED
        BY <1>0, <3>1, <3>2 DEF TurnInv, AloneOK, Working
    <2> QED
      BY <1>5, <2>1, <2>3 DEF Spares
  <1>8. KeptTurns'
    BY <1>2, <1>6, <1>7 DEF KeptButFiles, KeptTurns
  <1>9. TurnsKept'
    <2> SUFFICES ASSUME NEW t \in kept', file'[t.name] # Torn
                 PROVE  Entries(t.id) \subseteq file'[t.name].has
      BY DEF TurnsKept, Entries, Asked, Reply, Torn
    <2>0. t \in kept \/ (job[j].alone /\ t = new)
      BY <1>6
    <2>1. t.name \in SessionIDs
      BY <1>0, <1>5, <2>0 DEF DaemonTypes, TurnType
    <2>2. CASE t.name = n
      <3>1. file'[n] = makePersistedHistory(job[j].copy)
        BY <1>0, <2>2 DEF SaveWrites
      <3>2. Entries(t.id) \subseteq job[j].copy
        BY <1>3, <1>4, <1>5, <2>0, <2>2
      <3> QED
        BY <2>2, <3>1, <3>2 DEF makePersistedHistory
    <2>3. CASE t.name # n
      <3>1. t \in kept /\ file'[t.name] = file[t.name]
        BY <1>0, <1>5, <2>0, <2>1, <2>3 DEF SaveWrites
      <3> QED
        BY <3>1 DEF TurnInv, TurnsKept, Entries
    <2> QED
      BY <2>2, <2>3
  <1> QED
    BY <1>2, <1>8, <1>9 DEF KeptButFiles, TurnInv

\* /clear removes the file of a session of which no turn is to be kept.
LEMMA RemovesInv ==
  ASSUME DaemonTypes, TurnInv, NEW j \in Jobs, Removes(j)
  PROVE  TurnInv'
  <1>0. /\ job[j].pc = "remove" /\ UNCHANGED <<mem, history, kept>> /\ Ends(j)
        /\ file' \in {file, [file EXCEPT ![job[j].name] = Absent]}
    BY DEF Removes
  <1>1. Others(j) /\ Stops(j)
    BY <1>0, EndsFacts, OthersFacts
  <1>2. KeptButFiles
    BY <1>0, <1>1, SameHistory, StepOfOne
  <1>3. ASSUME NEW t \in kept PROVE file'[t.name] = file[t.name]
    <2>1. t.name # job[j].name
      BY <1>0 DEF TurnInv, KeptTurns, Spares, Working
    <2>2. t.name \in SessionIDs /\ file \in [SessionIDs -> FileType]
      BY DEF DaemonTypes, TurnType
    <2> QED
      BY <1>0, <2>1, <2>2
  <1>4. TurnsKept'
    BY <1>0, <1>3 DEF TurnInv, TurnsKept, Asked, Reply, Torn
  <1> QED
    BY <1>0, <1>2, <1>4 DEF KeptButFiles, TurnInv, KeptTurns

\* /clear forgets an object that no turn to be kept needs.
LEMMA ForgetsInv ==
  ASSUME DaemonTypes, TurnInv, NEW j \in Jobs, Forgets(j)
  PROVE  TurnInv'
  <1> DEFINE n == job[j].name
  <1>0. /\ job[j].pc = "forget" /\ UNCHANGED <<history, file, kept>> /\ Proceeds(j, "remove")
        /\ mem' = [mem EXCEPT ![n] = 0] /\ mem \in [SessionIDs -> Nat]
    BY DEF Forgets, DaemonTypes
  <1>1. PICK t : t.pc = "remove" /\ t.name = n /\ t.alone = job[j].alone /\ Becomes(j, t)
    BY <1>0, ProceedsFacts
  <1>2. Others(j) /\ job'[j].pc = "remove" /\ job'[j].name = n /\ job'[j].alone = job[j].alone
    BY <1>1, OthersFacts DEF Becomes
  <1>3. AloneOK'
    <2> SUFFICES ASSUME NEW k \in Jobs, NEW l \in Jobs, job'[k].alone, job'[k].pc \in Working,
                        job'[l].pc \in Working, job'[l].name = job'[k].name, l # k
                 PROVE  FALSE
      BY DEF AloneOK
    <2>1. ASSUME NEW i \in Jobs
          PROVE  /\ job'[i].pc \in Working => job[i].pc \in Working
                 /\ job'[i].name = job[i].name /\ (job'[i].alone => job[i].alone)
      BY <1>0, <1>2 DEF Others, Working
    <2> QED
      BY <2>1 DEF TurnInv, AloneOK
  <1>4. Growing /\ Len(history') = Len(history)
    BY <1>0, SameHistory
  <1>5. \A p \in SessionIDs : mem'[p] \in {mem[p], 0} /\ (p # n => mem'[p] = mem[p])
    BY <1>0
  <1>6. ObjectsOK'
    BY <1>2, <1>4, <1>5, ObjectsKept DEF TurnInv, Holding
  <1>7. TurnsOK'
    <2>1. TurnOK(j)'
      BY <1>2 DEF TurnOK, Holding
    <2>2. ASSUME NEW k \in Jobs, k # j PROVE TurnOK(k)'
      <3>1. ASSUME job[k].alone, job[k].pc \in Holding PROVE mem'[job[k].name] = mem[job[k].name]
        <4>1. job[k].pc \in Working /\ job[j].pc \in Working
          BY <1>0, <3>1 DEF Working, Holding
        <4>2. job[k].name # n
          BY <2>2, <3>1, <4>1 DEF TurnInv, AloneOK
        <4>3. job[k].name \in SessionIDs
          BY <4>1, Typed DEF JobOK
        <4> QED
          BY <1>5, <4>2, <4>3
      <3> QED
        BY <1>2, <1>4, <2>2, <3>1, OtherTurn
    <2> QED
      BY <2>1, <2>2 DEF TurnsOK
  <1>8. ASSUME NEW u \in kept PROVE Remembered(u)' /\ \A k \in Jobs : Spares(k, u)'
    <2>1. u.name # n
      BY <1>0 DEF TurnInv, KeptTurns, Spares, Working
    <2>2. u.name \in SessionIDs
      BY DEF DaemonTypes, TurnType
    <2>3. mem'[u.name] = mem[u.name]
      BY <1>5, <2>1, <2>2
    <2>4. Remembered(u)'
      BY <1>4, <2>3, StillRemembered
    <2>5. ASSUME NEW k \in Jobs, k # j PROVE Spares(k, u)'
      BY <1>2, <2>3, <2>5, OtherSpares
    <2>6. Spares(j, u)'
      BY <1>2, <2>1 DEF Spares
    <2> QED
      BY <2>4, <2>5, <2>6
  <1>9. TurnsKept'
    BY <1>0 DEF TurnInv, TurnsKept, Asked, Reply, Torn
  <1> QED
    BY <1>0, <1>3, <1>6, <1>7, <1>8, <1>9 DEF TurnInv, KeptTurns

\* A crash leaves the files.
LEMMA CrashesInv ==
  ASSUME DaemonTypes, TurnInv, Crashes
  PROVE  TurnInv'
  <1>1. /\ \A j \in Jobs : job'[j].pc \notin Working /\ job'[j].pc \notin Holding /\ job'[j].pc # "get"
        /\ UNCHANGED <<file, kept>> /\ history' = <<>>
    BY CrashesTypes DEF Working, Holding
  <1>2. mem' = [n \in SessionIDs |-> 0]
    BY DEF Crashes
  <1>3. AloneOK' /\ TurnsOK'
    BY <1>1 DEF AloneOK, TurnsOK, TurnOK
  <1>4. ObjectsOK'
    BY <1>1, <1>2 DEF ObjectsOK
  <1>5. KeptTurns'
    <2>1. \A t \in kept : t.name \in SessionIDs
      BY DEF DaemonTypes, TurnType
    <2> QED
      BY <1>1, <1>2, <2>1 DEF KeptTurns, Remembered, Spares
  <1>6. TurnsKept'
    BY <1>1 DEF TurnInv, TurnsKept, Asked, Reply, Torn
  <1> QED
    BY <1>3, <1>4, <1>5, <1>6 DEF TurnInv

\* Manager.Get.  An object read from the file has what is to be kept.
LEMMA GetsInv ==
  ASSUME DaemonTypes, TurnInv, NEW j \in Jobs, Gets(j)
  PROVE  TurnInv'
  <1> DEFINE n == job[j].name
             o == IF mem[n] # 0 THEN mem[n] ELSE Len(history) + 1
  <1>0. /\ UNCHANGED <<file, kept>> /\ n \in SessionIDs /\ job[j].pc = "get" /\ TurnOK(j)
        /\ mem \in [SessionIDs -> Nat] /\ history \in Seq(ObjectType) /\ Len(history) \in Nat
    <2>1. n \in SessionIDs /\ job[j].pc = "get"
      BY GetsFacts
    <2>2. UNCHANGED <<file, kept>>
      BY DEF Gets
    <2>3. TurnOK(j) /\ mem \in [SessionIDs -> Nat] /\ history \in Seq(ObjectType)
      BY DEF TurnInv, TurnsOK, DaemonTypes
    <2> QED
      BY <2>1, <2>2, <2>3
  <1>1. CASE Becomes(j, [NoJob EXCEPT !.pc = "over"]) /\ UNCHANGED <<mem, history>>
    BY <1>0, <1>1, OthersFacts, StopsInv
  <1>2. CASE /\ Works(j, "run", o, job[j].plan, job[j].copy)
             /\ mem' = [mem EXCEPT ![n] = o]
             /\ IF mem[n] # 0 THEN history' = history
                ELSE /\ history' = Append(history, [has |-> file[n].has, tail |-> <<>>])
                     /\ file[n] # Torn
    <2>1. Others(j) /\ Goes(j) /\ job'[j].pc = "run" /\ job'[j].obj = o /\ job'[j].name = n
      <3> HIDE DEF o
      <3> QED
        BY <1>0, <1>2, OthersFacts DEF Working, Works
    <2>2. AloneOK'
      BY <2>1, AloneKept DEF TurnInv
    <2>3. /\ o \in Nat /\ o # 0 /\ mem'[n] = o
          /\ \A p \in SessionIDs : p # n => mem'[p] = mem[p]
      BY <1>0, <1>2
    <2>4. Growing /\ o \in 1 .. Len(history') /\ Len(history') \in Nat
          /\ (mem[n] = 0 => /\ Len(history') = Len(history) + 1 /\ history'[o].has = file[n].has)
      <3>1. CASE mem[n] # 0
        <4>1. history' = history /\ o = mem[n] /\ mem[n] <= Len(history)
          BY <1>0, <1>2, <3>1 DEF TurnInv, ObjectsOK
        <4> QED
          BY <1>0, <2>3, <3>1, <4>1, SameHistory
      <3>2. CASE mem[n] = 0
        <4> DEFINE r == [has |-> file[n].has, tail |-> <<>>]
        <4>1. r \in ObjectType /\ r.has = file[n].has
          BY <3>2, GetsTypes
        <4>2. history' = Append(history, r) /\ o = Len(history) + 1
          BY <1>2, <3>2
        <4> HIDE DEF r, o
        <4>3. /\ Len(history') = Len(history) + 1 /\ history'[Len(history) + 1] = r
              /\ \A i \in 1 .. Len(history) : history'[i] = history[i]
          BY <1>0, <4>1, <4>2
        <4> QED
          BY <1>0, <4>1, <4>2, <4>3 DEF Growing
      <3> QED
        BY <3>1, <3>2
    <2>5. TurnOK(j)'
      <3>1. job'[j].plan = <<Asked(job[j].id), Reply(job[j].id)>> /\ job'[j].id = job[j].id
        <4> HIDE DEF o
        <4> QED
          BY <1>0, <1>2 DEF TurnOK, Works
      <3>2. \A e \in Entries(job[j].id) : \E i \in 1 .. Len(job'[j].plan) : job'[j].plan[i] = e
        <4>1. 1 \in 1 .. Len(job'[j].plan) /\ 2 \in 1 .. Len(job'[j].plan)
          BY <3>1
        <4>2. job'[j].plan[1] = Asked(job[j].id) /\ job'[j].plan[2] = Reply(job[j].id)
          BY <3>1
        <4> QED
          BY <4>1, <4>2 DEF Entries
      <3> HIDE DEF o
      <3> QED
        BY <2>1, <2>3, <3>1, <3>2 DEF TurnOK, Entries, Asked, Reply
    <2>6. TurnsOK'
      <3>1. ASSUME NEW k \in Jobs, k # j PROVE TurnOK(k)'
        <4>1. ASSUME job[k].alone, job[k].pc \in Holding PROVE mem'[job[k].name] = mem[job[k].name]
          <5>1. job[k].pc \in Working /\ job[j].pc \in Working
            BY <1>0, <4>1 DEF Working, Holding
          <5>2. job[k].name # n
            BY <3>1, <4>1, <5>1 DEF TurnInv, AloneOK
          <5>3. job[k].name \in SessionIDs
            BY <5>1, Typed DEF JobOK
          <5> QED
            BY <2>3, <5>2, <5>3
        <4> QED
          BY <2>1, <2>4, <3>1, <4>1, OtherTurn
      <3> QED
        BY <2>5, <3>1 DEF TurnsOK
    <2>7. ObjectsOK'
      <3>1. CASE mem[n] # 0
        <4>1. history' = history /\ o = mem[n] /\ \A p \in SessionIDs : mem'[p] = mem[p]
          BY <1>0, <1>2, <2>3, <3>1
        <4> HIDE DEF o
        <4> QED
          BY <1>0, <2>1, <2>3, <4>1, ObjectsKept DEF TurnInv
      <3>2. CASE mem[n] = 0
        <4>0. o = Len(history) + 1 /\ Len(history') = Len(history) + 1
          BY <2>4, <3>2
        <4>1. \A p \in SessionIDs : mem'[p] <= Len(history')
          BY <1>0, <2>3, <4>0 DEF TurnInv, ObjectsOK
        <4>2. ASSUME NEW k \in Jobs, job'[k].pc \in Holding
              PROVE  /\ job'[k].obj \in 1 .. Len(history')
                     /\ k # j => job[k].pc \in Holding /\ job'[k].obj \in 1 .. Len(history)
                                 /\ job'[k].obj = job[k].obj /\ job'[k].name = job[k].name
          BY <1>0, <2>1, <4>0, <4>2 DEF TurnInv, ObjectsOK, Others
        <4>3. ASSUME NEW p \in SessionIDs, NEW q \in 1 .. Len(history), Owner(p, q)'
              PROVE  Owner(p, q)
          <5>1. CASE mem'[p] = q
            BY <1>0, <2>3, <4>0, <5>1 DEF Owner
          <5>2. ASSUME NEW k \in Jobs, job'[k].pc \in Holding, job'[k].name = p, job'[k].obj = q
                PROVE  Owner(p, q)
            <6>1. k # j
              BY <1>0, <2>1, <4>0, <5>2
            <6> QED
              BY <4>2, <5>2, <6>1 DEF Owner
          <5> QED
            BY <4>3, <5>1, <5>2 DEF Owner
        <4>4. ASSUME NEW p \in SessionIDs, NEW q, q = Len(history) + 1, Owner(p, q)'
              PROVE  p = n
          <5>2. CASE mem'[p] = q
            BY <1>0, <2>3, <4>4, <5>2 DEF TurnInv, ObjectsOK
          <5>3. ASSUME NEW k \in Jobs, job'[k].pc \in Holding, job'[k].name = p, job'[k].obj = q
                PROVE  p = n
            <6>1. k = j
              BY <1>0, <4>2, <4>4, <5>3
            <6> QED
              BY <2>1, <5>3, <6>1
          <5> QED
            BY <4>4, <5>2, <5>3 DEF Owner
        <4>5. ASSUME NEW p \in SessionIDs, NEW r \in SessionIDs, NEW q \in 1 .. Len(history'),
                     Owner(p, q)', Owner(r, q)'
              PROVE  p = r
          <5>1. CASE q \in 1 .. Len(history)
            BY <4>3, <4>5, <5>1 DEF TurnInv, ObjectsOK
          <5>2. CASE q = Len(history) + 1
            BY <4>4, <4>5, <5>2
          <5> QED
            BY <1>0, <4>0, <4>5, <5>1, <5>2
        <4> QED
          BY <4>1, <4>2, <4>5 DEF ObjectsOK
      <3> QED
        BY <3>1, <3>2
    <2>8. ASSUME NEW t \in kept PROVE Remembered(t)' /\ \A k \in Jobs : Spares(k, t)'
      <3>0. t.name \in SessionIDs /\ Remembered(t) /\ \A k \in Jobs : Spares(k, t)
        BY DEF DaemonTypes, TurnType, TurnInv, KeptTurns
      <3>1. Spares(j, t)'
        <4> HIDE DEF o
        <4> QED
          BY <2>1, <2>3 DEF Spares, Working, Holding
      <3>2. ASSUME NEW k \in Jobs, k # j PROVE Spares(k, t)'
        <4>1. ASSUME job[k].name = t.name, job[k].pc \in Holding PROVE mem'[t.name] = mem[t.name]
          <5>1. job[k].obj = mem[t.name] /\ job[k].obj \in 1 .. Len(history)
            BY <3>0, <4>1 DEF Spares, Working, Holding, TurnInv, ObjectsOK
          <5>2. mem[t.name] # 0
            BY <1>0, <5>1
          <5> QED
            BY <2>3, <3>0, <5>2
        <4> QED
          BY <2>1, <3>2, <4>1, OtherSpares
      <3>3. Remembered(t)'
        <4>1. CASE mem'[t.name] = mem[t.name]
          BY <2>4, <4>1, StillRemembered
        <4>2. CASE t.name = n /\ mem[n] = 0
          <5>1. file[n] # Torn /\ history'[mem'[n]].has = file[n].has
            BY <1>2, <2>3, <2>4, <4>2
          <5>2. Entries(t.id) \subseteq file[n].has
            BY <4>2, <5>1 DEF TurnInv, TurnsKept, Entries
          <5> QED
            BY <4>2, <5>1, <5>2 DEF Remembered, Entries
        <4> QED
          BY <2>3, <3>0, <4>1, <4>2
      <3> QED
        BY <3>1, <3>2, <3>3
    <2>9. TurnsKept'
      BY <1>0 DEF TurnInv, TurnsKept, Asked, Reply, Torn
    <2> QED
      BY <1>0, <2>2, <2>6, <2>7, <2>8, <2>9 DEF TurnInv, KeptTurns
  <1> QED
    BY <1>1, <1>2, GetsFacts

-----------------------------------------------------------------------------
\* The daemon starts with nothing, and every step keeps the invariant.
LEMMA InitDaemon == DInit => DaemonInv
  <1> SUFFICES ASSUME DInit PROVE DaemonInv
    OBVIOUS
  <1>1. \A j \in Jobs : job[j].pc = "none" /\ job[j].stamp = 0
    BY NoJobFacts DEF DInit
  <1>2. TurnInv
    BY <1>1 DEF DInit, TurnInv, AloneOK, ObjectsOK, TurnsOK, TurnOK, KeptTurns, TurnsKept, Working, Holding
  <1>3. TableRight /\ PrunersRight
    BY <1>1 DEF DInit, TableRight, PrunersRight, Known, DoomedOld
  <1> QED
    BY <1>2, <1>3, InitTypes DEF DaemonInv

\* Every step of the daemon keeps the invariant.
LEMMA StepDaemon ==
  ASSUME DaemonInv, [DNext]_dvars
  PROVE  DaemonInv'
  <1>0. DaemonTypes /\ TurnInv /\ ObjectsOK
    BY DEF DaemonInv, TurnInv
  <1>1. TableRight' /\ PrunersRight'
    BY TableKept, PrunersKept
  <1>2. CASE Tick \/ Resting \/ UNCHANGED dvars
    <2>1. UNCHANGED <<job, mem, history, file, kept>>
      BY <1>2 DEF Tick, Resting, dvars, historyVars
    <2>2. TurnInv'
      <3>1. AloneOK' /\ ObjectsOK'
        BY <1>0, <2>1 DEF TurnInv, AloneOK, ObjectsOK, Owner
      <3>2. TurnsOK'
        BY <1>0, <2>1 DEF TurnInv, TurnsOK, TurnOK
      <3>3. KeptTurns'
        BY <1>0, <2>1 DEF TurnInv, KeptTurns, Remembered, Spares
      <3>4. TurnsKept'
        BY <1>0, <2>1 DEF TurnInv, TurnsKept
      <3> QED
        BY <3>1, <3>2, <3>3, <3>4 DEF TurnInv
    <2> QED
      BY <1>0, <1>1, <1>2, <2>2, OtherTypes DEF DaemonInv
  <1>3. CASE Crashes
    BY <1>0, <1>1, <1>3, CrashesTypes, CrashesInv DEF DaemonInv
  <1>4. ASSUME NEW j \in Jobs,
               \/ \E m \in Messages, c \in Chats : Arrives(j, m, c)
               \/ \E n \in Chats : Triggers(j, n)
               \/ Marks(j) \/ Prunes(j) \/ PruneLooks(j) \/ PruneDeletes(j) \/ PruneEnds(j) \/ Handles(j)
               \/ Gets(j) \/ Appends(j) \/ Fails(j) \/ Ensures(j)
               \/ SaveBegins(j) \/ SaveWrites(j)
               \/ Forgets(j) \/ Removes(j)
        PROVE  DaemonTypes' /\ TurnInv'
    <2>1. CASE \E m \in Messages, c \in Chats : Arrives(j, m, c)
      <3>1. UNCHANGED <<mem, history, file, kept>>
        BY <2>1 DEF Arrives, historyVars
      <3>2. \E t : t.pc = "mark" /\ Becomes(j, t)
        BY <1>0, <2>1, ArrivesFacts
      <3>3. Others(j) /\ Stops(j)
        BY <3>2, OthersFacts DEF Stops, Becomes, Working
      <3> QED
        BY <1>0, <2>1, <3>1, <3>3, StopsInv, OtherTypes
    <2>2. CASE \E n \in Chats : Triggers(j, n)
      <3>1. UNCHANGED <<mem, history, file, kept>>
        BY <2>2 DEF Triggers, historyVars
      <3> QED
        BY <1>0, <2>2, <3>1, TriggersFacts, JoinsInv, OtherTypes
    <2>3. CASE Marks(j)
      <3>1. UNCHANGED <<mem, history, file, kept>>
        BY <2>3 DEF Marks, historyVars
      <3>2. \E t : t.pc \in {"prune", "handle"} /\ Becomes(j, t)
        BY <1>0, <2>3, MarksFacts
      <3>3. Others(j) /\ Stops(j)
        BY <3>2, OthersFacts DEF Stops, Becomes, Working
      <3> QED
        BY <1>0, <2>3, <3>1, <3>3, StopsInv, MarksTypes
    <2>4. CASE Prunes(j)
      <3>2. \E t : t.pc \in {"handle", "over", "range"} /\ Becomes(j, t)
        BY <1>0, <2>4, PrunesTypes DEF PruneReturns, PruneBegins
      <3>3. Others(j) /\ Stops(j)
        BY <3>2, OthersFacts DEF Stops, Becomes, Working
      <3> QED
        BY <1>0, <2>4, <3>3, StopsInv, PrunesTypes
    <2>a. CASE PruneLooks(j) \/ PruneDeletes(j) \/ PruneEnds(j)
      <3>1. job[j].pc = "range" /\ UNCHANGED <<mem, history, file, kept>> /\ DaemonTypes'
        BY <1>0, <2>a, RangeTypes
      <3>2. UNCHANGED job \/ \E t : t.pc \in {"handle", "over"} /\ Becomes(j, t)
        BY <1>0, <2>a, RangeTypes
      <3>3. Others(j) /\ Stops(j)
        BY <3>1, <3>2, OthersFacts DEF Others, Stops, Becomes, Working
      <3> QED
        BY <1>0, <3>1, <3>3, StopsInv
    <2>5. CASE Handles(j)
      <3>1. UNCHANGED <<mem, history, file>> /\ HandlesAs(j) /\ DaemonTypes'
        BY <1>0, <2>5, HandlesTypes DEF historyVars
      <3>2. CASE Becomes(j, [NoJob EXCEPT !.pc = "over"]) /\ kept' = kept
        BY <1>0, <3>1, <3>2, OthersFacts, StopsInv
      <3> QED
        BY <1>0, <3>1, <3>2, JoinsInv DEF HandlesAs
    <2>6. CASE Gets(j)
      BY <1>0, <2>6, GetsTypes, GetsInv
    <2>7. CASE Appends(j)
      BY <1>0, <2>7, AppendsTypes, AppendsInv
    <2>8. CASE Fails(j)
      <3>1. UNCHANGED <<mem, history, file, kept>> /\ Ends(j)
        BY <2>8 DEF Fails, historyVars
      <3> QED
        BY <1>0, <2>8, <3>1, EndsFacts, OthersFacts, StopsInv, OtherTypes
    <2>9. CASE Ensures(j)
      BY <1>0, <2>9, EnsuresInv, OtherTypes
    <2>10. CASE SaveBegins(j) \/ SaveWrites(j) \/ Removes(j)
      BY <1>0, <2>10, SavesTypes, SaveBeginsInv, SaveWritesInv, RemovesInv
    <2>11. CASE Forgets(j)
      BY <1>0, <2>11, ForgetsInv, OtherTypes
    <2> QED
      BY <1>4, <2>1, <2>2, <2>3, <2>4, <2>a, <2>5, <2>6, <2>7, <2>8, <2>9, <2>10, <2>11
  <1> QED
    BY <1>1, <1>2, <1>3, <1>4 DEF DNext, DaemonInv

\* Lark: no message is handled twice within TTL of its first arrival, for any number of
\* deliveries, goroutines and prunes whose looks and Deletes interleave, as long as
\* no Delete came TTL after the clock of its prune.
THEOREM HandledOnceHolds == DSpec => []HandledOnce
  <1>1. DaemonInv => HandledOnce
    <2> SUFFICES ASSUME DaemonInv, world.channel = "lark", ~slowPrune, NEW m \in Messages
                 PROVE  \A i, k \in DOMAIN accepted[m] :
                          i < k => accepted[m][k].at > accepted[m][i].arrived + TTL
      BY DEF HandledOnce
    <2>1. DOMAIN accepted[m] = 1 .. Len(accepted[m])
      BY HandlingFacts DEF DaemonInv
    <2> QED
      BY <2>1 DEF DaemonInv, TableRight, Known
  <1> QED
    BY <1>1, InitDaemon, StepDaemon, PTL DEF DSpec

\* A turn that had its session to itself and was saved stays in the file until
\* /clear, whatever later turns, cron jobs, interrupted saves and restarts do.
THEOREM TurnsKeptHolds == DSpec => []TurnsKept
  <1>1. DaemonInv => TurnsKept
    BY DEF DaemonInv, TurnInv
  <1> QED
    BY <1>1, InitDaemon, StepDaemon, PTL DEF DSpec
=============================================================================
