------------------------------ MODULE CardWriter ------------------------------
(***************************************************************************)
(* One response on a Lark card: the streamCollector that turns the         *)
(* messages of an agent into writes (cmd/blades/internal/app/runtime.go),  *)
(* and the CardWriter with its flush timer, its flush goroutines and Close *)
(* (channel/lark/card_writer.go).                                          *)
(*                                                                         *)
(* Texts are numbered pieces.  A card is what the server shows: pieces,    *)
(* tools with their status, and whether the streaming cursor is there.     *)
(***************************************************************************)
EXTENDS Naturals, Sequences, SequencesExt

CONSTANTS
  MaxMessages,  \* bound: messages of the agent
  Keys          \* keys of tool calls (ToolEventKey)

ASSUME CardAssumption == MaxMessages \in Nat

VARIABLES
  collected, started, finished,  \* streamCollector: buf, startedTools, endedTools
  todo,          \* calls of the writer that consume has still to make
  messages,      \* messages consumed
  hstate,        \* the handler: "running", "closing", "building", "updating", "closed"
  textBuf, tools, lastSentLen, cardID,
  timer,         \* the flush timer: "none", "armed", "idle"
  done,          \* the channel done is closed
  abandoned,       \* the context of the message is cancelled
  flushers,      \* goroutines about to enter flushSync
  sending, sendTo,  \* the card flushSync is sending, mu held, or None; the cardID it read
  final, target, \* of Close: the final card, and the cardID it read
  closeErr,      \* what Close returned
  cards          \* the messages in the chat

collectorVars == <<collected, started, finished, messages>>
writerVars == <<textBuf, tools>>
closeVars == <<hstate, done, final, target, closeErr>>
cvars == <<collectorVars, todo, writerVars, lastSentLen, cardID, timer, abandoned, flushers,
           sending, sendTo, closeVars, cards>>

None == [pieces |-> <<>>, tools |-> <<>>, cursor |-> FALSE, none |-> TRUE]
Card(cursor) == [pieces |-> textBuf, tools |-> tools, cursor |-> cursor, none |-> FALSE]

CInit ==
  /\ collected = <<>> /\ started = {} /\ finished = {} /\ todo = <<>> /\ messages = 0
  /\ hstate = "running" /\ textBuf = <<>> /\ tools = <<>> /\ lastSentLen = 0 /\ cardID = 0
  /\ timer = "none" /\ done = FALSE /\ abandoned = FALSE /\ flushers = 0 /\ sending = None
  /\ sendTo = 0 /\ final = None /\ target = 0 /\ closeErr = "none" /\ cards = <<>>

-----------------------------------------------------------------------------
\* consume: a chunk of text is written and collected; the text of a completed
\* message is written only if nothing was collected, and replaces what was.
ConsumeText(completed, pieces) ==
  IF completed
  THEN /\ todo' = IF collected = <<>> /\ pieces # <<>> THEN <<[call |-> "text", pieces |-> pieces]>>
                  ELSE <<>>
       /\ collected' = IF pieces # <<>> THEN pieces ELSE collected
  ELSE /\ todo' = <<[call |-> "text", pieces |-> pieces]>>
       /\ collected' = collected \o pieces

\* emitToolEvents for one tool of a message.
emitToolEvents(key, completed) ==
  LET start == IF key \in started \/ (completed /\ key \in finished) THEN <<>>
               ELSE <<[call |-> "start", key |-> key]>>
      end == IF completed /\ key \notin finished THEN <<[call |-> "end", key |-> key]>> ELSE <<>>
  IN  /\ todo' = start \o end
      /\ started' = IF start # <<>> THEN started \cup {key} ELSE started
      /\ finished' = IF end # <<>> THEN finished \cup {key} ELSE finished

\* The next message of the agent.  A completed message repeats the pieces that
\* were streamed, or brings a new one.
consume ==
  /\ hstate = "running" /\ todo = <<>> /\ messages < MaxMessages
  /\ messages' = messages + 1
  /\ \/ ConsumeText(FALSE, <<messages + 1>>) /\ UNCHANGED <<started, finished>>
     \/ ConsumeText(TRUE, collected) /\ UNCHANGED <<started, finished>>
     \/ ConsumeText(TRUE, <<messages + 1>>) /\ UNCHANGED <<started, finished>>
     \/ \E key \in Keys, completed \in BOOLEAN :
          emitToolEvents(key, completed) /\ UNCHANGED collected
  /\ UNCHANGED <<writerVars, lastSentLen, cardID, timer, abandoned, flushers, sending, sendTo, closeVars,
                 cards>>

-----------------------------------------------------------------------------
ReleasedEarly == TRUE  \* with a fault: mu is not held while a card is sent
Unlocked == sending = None

\* WriteText: the timer is started or reset.
WriteText ==
  /\ todo # <<>> /\ Head(todo).call = "text" /\ Unlocked
  /\ textBuf' = textBuf \o Head(todo).pieces
  /\ timer' = "armed"
  /\ todo' = Tail(todo)
  /\ UNCHANGED <<collectorVars, tools, lastSentLen, cardID, abandoned, flushers, sending, sendTo, closeVars,
                 cards>>

\* WriteEvent: a new tool, or the end of the first one that runs under the key;
\* its status depends on the output.  A goroutine flushes.
WriteEvent ==
  /\ todo # <<>> /\ Head(todo).call # "text" /\ Unlocked
  /\ LET key == Head(todo).key
         running == {i \in DOMAIN tools : tools[i].key = key /\ tools[i].status = "running"}
     IN  IF Head(todo).call = "start"
         THEN tools' = Append(tools, [key |-> key, status |-> "running"])
         ELSE IF running = {} THEN UNCHANGED tools
         ELSE \E status \in {"done", "error"} :
                tools' = [tools EXCEPT ![CHOOSE i \in running : \A j \in running : i <= j].status =
                            status]
  /\ flushers' = flushers + 1
  /\ todo' = Tail(todo)
  /\ UNCHANGED <<collectorVars, textBuf, lastSentLen, cardID, timer, abandoned, sending, sendTo, closeVars,
                 cards>>

\* flush, started by the timer: nothing when done is closed or the context is.
flush ==
  /\ timer = "armed"
  /\ timer' = "idle"
  /\ flushers' = IF done \/ abandoned THEN flushers ELSE flushers + 1
  /\ UNCHANGED <<collectorVars, todo, writerVars, lastSentLen, cardID, abandoned, sending,
                 sendTo, closeVars, cards>>

\* flushSync: take mu, build the card if there is something new, and choose
\* between sendCard and updateCard.
flushSync ==
  /\ flushers > 0 /\ Unlocked
  /\ flushers' = flushers - 1
  /\ sending' = IF Len(textBuf) <= lastSentLen /\ tools = <<>> THEN None ELSE Card(TRUE)
  /\ sendTo' = IF sending' = None THEN 0 ELSE cardID
  /\ UNCHANGED <<collectorVars, todo, writerVars, lastSentLen, cardID, timer, abandoned, closeVars,
                 cards>>

\* sendCard and updateCard: what a request does to the chat.
ApiCall(id, card) ==
  IF id = 0 THEN cards' = Append(cards, card) ELSE cards' = [cards EXCEPT ![id] = card]

\* The request of flushSync ends, and mu is released.  It was answered; or it took
\* effect and the answer is lost; or it did not, by an error or by a refusal, which
\* the SDK does not report as one.  A request whose answer is lost takes no
\* effect later.
Flushed ==
  /\ sending # None
  /\ \/ /\ ~ abandoned
        /\ ApiCall(sendTo, sending)
        /\ cardID' = IF sendTo = 0 THEN Len(cards) + 1 ELSE cardID
        /\ lastSentLen' = Len(sending.pieces)
     \/ ApiCall(sendTo, sending) /\ UNCHANGED <<cardID, lastSentLen>>
     \/ UNCHANGED <<cards, cardID>> /\ lastSentLen' \in {lastSentLen, Len(sending.pieces)}
  /\ sending' = None /\ sendTo' = 0
  /\ UNCHANGED <<collectorVars, todo, writerVars, timer, abandoned, flushers, closeVars>>

\* The handler has returned: Close stops the timer.  The reaction is left out.
CloseBegins ==
  /\ hstate = "running" /\ todo = <<>>
  /\ hstate' = "closing" /\ done' = TRUE
  /\ timer' = IF timer = "armed" THEN "idle" ELSE timer
  /\ UNCHANGED <<collectorVars, todo, writerVars, lastSentLen, cardID, abandoned, flushers, sending,
                 sendTo, final, target, closeErr, cards>>

\* CloseBuilds with a fault: only what is new is sent.
BuildsNews ==
  /\ hstate = "closing" /\ Unlocked
  /\ final' = IF Len(textBuf) <= lastSentLen THEN [Card(FALSE) EXCEPT !.pieces = <<>>]
              ELSE Card(FALSE)
  /\ hstate' = "building"
  /\ UNCHANGED <<collectorVars, todo, writerVars, lastSentLen, cardID, timer, abandoned, flushers,
                 sending, sendTo, done, target, closeErr, cards>>

\* The final card is built under mu.
CloseBuilds ==
  /\ hstate = "closing" /\ Unlocked
  /\ final' = Card(FALSE)
  /\ hstate' = "building"
  /\ UNCHANGED <<collectorVars, todo, writerVars, lastSentLen, cardID, timer, abandoned, flushers,
                 sending, sendTo, done, target, closeErr, cards>>

\* updateCard reads cardID without mu.
CloseReads ==
  /\ hstate = "building"
  /\ target' = cardID /\ hstate' = "updating"
  /\ UNCHANGED <<collectorVars, todo, writerVars, lastSentLen, cardID, timer, abandoned, flushers,
                 sending, sendTo, done, final, closeErr, cards>>

CloseUpdates ==
  /\ hstate = "updating"
  /\ \/ /\ ~ abandoned
        /\ ApiCall(target, final)
        /\ cardID' = IF target = 0 THEN Len(cards) + 1 ELSE cardID
        /\ closeErr' = "shown"
     \/ ApiCall(target, final) /\ closeErr' = "failed" /\ UNCHANGED cardID
     \/ closeErr' = "failed" /\ UNCHANGED <<cards, cardID>>
  /\ hstate' = "closed"
  /\ UNCHANGED <<collectorVars, todo, writerVars, lastSentLen, timer, abandoned, flushers, sending,
                 sendTo, done, final, target>>

\* The daemon stops.
Cancel ==
  /\ ~ abandoned /\ abandoned' = TRUE
  /\ UNCHANGED <<collectorVars, todo, writerVars, lastSentLen, cardID, timer, flushers, sending,
                 sendTo, closeVars, cards>>

Quiet == hstate = "closed" /\ flushers = 0 /\ Unlocked /\ UNCHANGED cvars

CNext ==
  \/ consume \/ WriteText \/ WriteEvent \/ flush \/ flushSync \/ Flushed
  \/ CloseBegins \/ CloseBuilds \/ CloseReads \/ CloseUpdates \/ Cancel \/ Quiet

CSpec == CInit /\ [][CNext]_cvars

-----------------------------------------------------------------------------
\* Once the final card was accepted, a card of the chat shows everything that
\* was written and how each tool finished, and keeps showing it: a flush that
\* comes late finds the same text and the same tools.
FinalShown ==
  closeErr = "shown" =>
    \E i \in DOMAIN cards : cards[i].pieces = textBuf /\ cards[i].tools = tools

\* A card never loses text, and a tool that was shown as finished is not shown as
\* running again, however flushes, the timer and Close interleave: whoever
\* builds a card while another is being sent waits for mu.
NeverBack ==
  [][\A i \in DOMAIN cards :
       /\ IsPrefix(cards[i].pieces, cards'[i].pieces)
       /\ \A j \in DOMAIN cards[i].tools :
            cards[i].tools[j].status # "running" => cards'[i].tools[j] = cards[i].tools[j]]_cvars
=============================================================================
