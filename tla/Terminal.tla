------------------------------- MODULE Terminal -------------------------------
(***************************************************************************)
(* The turns of the interactive terminal (cmd/blades/internal/channel/cli):*)
(* the update loop, the handler goroutine of each turn with its own        *)
(* channel, and the goroutines that wait for the next message or for a     *)
(* stop signal and hand it to the loop.                                    *)
(*                                                                         *)
(* Turns are numbered; channel t belongs to turn t and channel 0 is nil.   *)
(* Scrolling, tool toggles, resizing and rendering are left out.           *)
(***************************************************************************)
EXTENDS Naturals, Sequences, SequencesExt, FiniteSetsExt

CONSTANTS
  MaxTurns,   \* bound: messages the user sends
  MaxItems,   \* bound: texts and events that all handlers write
  MaxEsc,     \* bound: times the user presses Esc during a response
  MaxSlash,   \* bound: slash commands
  Buffer,     \* capacity of a stream channel (512 in the code)
  ToolCalls       \* ids of tool calls in events

ASSUME TerminalAssumption ==
  /\ MaxTurns \in Nat /\ MaxItems \in Nat /\ MaxEsc \in Nat /\ MaxSlash \in Nat
  /\ Buffer \in Nat \ {0}

VARIABLES
  state,      \* "input", "running", or "quit"
  streamCh,   \* the channel of the turn that is shown
  stopCh,     \* number of stop signals in its one place
  streamBuf, streamTools,
  turns,      \* the conversation as shown: turns and meta messages
  sent,       \* turns started
  chan,       \* contents of the stream channels
  waiting,    \* goroutines in waitStreamOrStop, by channel
  inbox,      \* messages handed to the loop, in no particular order
  hpc,        \* handler goroutines: "none", "running", "returned", "gone"
  cancelled,  \* turns whose context is cancelled
  wrote,      \* what each handler wrote
  escs, slashes,
  pressed     \* the turns during which Esc was pressed, in order

viewVars == <<state, streamCh, streamBuf, streamTools, turns, sent>>
handlerVars == <<hpc, wrote>>
tvars == <<viewVars, stopCh, chan, waiting, inbox, handlerVars, cancelled, escs, slashes, pressed>>

Turns == 1 .. MaxTurns
Text(t, n) == [kind |-> "text", turn |-> t, n |-> n]
Start(c) == [kind |-> "start", call |-> c]
End(c) == [kind |-> "end", call |-> c]
Finished(err) == [kind |-> "done", err |-> err]

TInit ==
  /\ state = "input" /\ streamCh = 0 /\ stopCh = 0
  /\ streamBuf = <<>> /\ streamTools = <<>> /\ turns = <<>> /\ sent = 0
  /\ chan = [t \in Turns |-> <<>>] /\ waiting = [t \in 0 .. MaxTurns |-> 0] /\ inbox = <<>>
  /\ hpc = [t \in Turns |-> "none"] /\ cancelled = {} /\ wrote = [t \in Turns |-> <<>>]
  /\ escs = 0 /\ slashes = 0 /\ pressed = <<>>

Await(t) == waiting' = [waiting EXCEPT ![t] = @ + 1]

Meta == [turn |-> 0, text |-> <<>>, tools |-> <<>>, over |-> TRUE]

-----------------------------------------------------------------------------
\* startTurn with a fault: two goroutines wait for the response.
WaitsTwice ==
  /\ state = "input" /\ sent < MaxTurns
  /\ LET t == sent + 1
     IN  /\ state' = "running" /\ sent' = t /\ streamCh' = t
         /\ streamBuf' = <<>> /\ streamTools' = <<>>
         /\ turns' = Append(turns, [turn |-> t, text |-> <<>>, tools |-> <<>>, over |-> FALSE])
         /\ hpc' = [hpc EXCEPT ![t] = "running"]
         /\ waiting' = [waiting EXCEPT ![t] = @ + 2]
  /\ UNCHANGED <<stopCh, chan, inbox, wrote, cancelled, escs, slashes, pressed>>

\* startTurn: the user enters a message.
startTurn ==
  /\ state = "input" /\ sent < MaxTurns
  /\ LET t == sent + 1
     IN  /\ state' = "running" /\ sent' = t /\ streamCh' = t
         /\ streamBuf' = <<>> /\ streamTools' = <<>>
         /\ turns' = Append(turns, [turn |-> t, text |-> <<>>, tools |-> <<>>, over |-> FALSE])
         /\ hpc' = [hpc EXCEPT ![t] = "running"]
         /\ Await(t)
  /\ UNCHANGED <<stopCh, chan, inbox, wrote, cancelled, escs, slashes, pressed>>

-----------------------------------------------------------------------------
(***************************************************************************)
(* Slash commands.  A result is a message, whether the view was reset      *)
(* before it is added, and whether the program quits.  A switch of the     *)
(* session and a clear may fail, and there is no response to stop while    *)
(* the user enters a command.                                              *)
(***************************************************************************)
Names == {"help", "stop", "session", "clear", "exit", "quit", "unknown"}

Says == [reset |-> FALSE, quit |-> FALSE]

helpHandler == {Says}
stopHandler == {Says}
sessionHandler(args) == {Says} \cup (IF args THEN {[Says EXCEPT !.reset = TRUE]} ELSE {})
clearHandler == {Says, [Says EXCEPT !.reset = TRUE]}
exitHandler == {[Says EXCEPT !.quit = TRUE]}

\* Processor.Process: the possible results of a command, without or with args.
Process(name, args) ==
  CASE name = "help" -> helpHandler
    [] name = "stop" -> stopHandler
    [] name = "session" -> sessionHandler(args)
    [] name = "clear" -> clearHandler
    [] name \in {"exit", "quit"} -> exitHandler
    [] OTHER -> {Says}

handleSlash ==
  /\ state = "input" /\ slashes < MaxSlash
  /\ slashes' = slashes + 1
  /\ \E name \in Names, args \in BOOLEAN : \E r \in Process(name, args) :
       /\ turns' = Append(IF r.reset THEN <<>> ELSE turns, Meta)
       /\ streamBuf' = IF r.reset THEN <<>> ELSE streamBuf
       /\ streamTools' = IF r.reset THEN <<>> ELSE streamTools
       /\ state' = IF r.quit THEN "quit" ELSE state
       /\ cancelled' = IF r.quit THEN cancelled \cup Turns ELSE cancelled
  /\ UNCHANGED <<streamCh, sent, stopCh, chan, waiting, inbox, handlerVars, escs, pressed>>

-----------------------------------------------------------------------------
\* handleKey: Ctrl+C and Ctrl+D.  The process ends.
quit ==
  /\ state # "quit"
  /\ state' = "quit" /\ cancelled' = cancelled \cup Turns
  /\ UNCHANGED <<streamCh, streamBuf, streamTools, turns, sent, stopCh, chan, waiting, inbox,
                 handlerVars, escs, slashes, pressed>>

\* handleKey with a fault: the handler is stopped, the wait is not.
OnlyCancels ==
  /\ state = "running" /\ escs < MaxEsc
  /\ escs' = escs + 1 /\ pressed' = Append(pressed, streamCh)
  /\ cancelled' = cancelled \cup {streamCh}
  /\ Await(streamCh)
  /\ UNCHANGED <<viewVars, stopCh, chan, inbox, handlerVars, slashes>>

\* handleKey: Esc while a response is running.
Escape ==
  /\ state = "running" /\ escs < MaxEsc
  /\ escs' = escs + 1 /\ pressed' = Append(pressed, streamCh)
  /\ cancelled' = cancelled \cup {streamCh}
  /\ stopCh' = 1
  /\ Await(streamCh)
  /\ UNCHANGED <<viewVars, chan, inbox, handlerVars, slashes>>

-----------------------------------------------------------------------------
\* The section of a call that is still running, if any; the code looks for it
\* from the end.
OpenSection(c) ==
  LET open == {i \in DOMAIN streamTools : streamTools[i].call = c /\ ~ streamTools[i].complete}
  IN  IF open = {} THEN 0 ELSE CHOOSE i \in open : \A j \in open : j <= i

AfterEvent(m) ==
  IF OpenSection(m.call) # 0
  THEN IF m.kind = "start" THEN streamTools
       ELSE [streamTools EXCEPT ![OpenSection(m.call)].complete = TRUE]
  ELSE IF m.kind = "start" THEN Append(streamTools, [call |-> m.call, complete |-> FALSE])
       ELSE streamTools

\* finishTurn: a cancelled response adds a message, and what was streamed goes
\* to the last entry of the view, whichever that is.
finishTurn(err) ==
  LET shown == IF err = "canceled" THEN Append(turns, Meta) ELSE turns
  IN  /\ turns' = IF shown = <<>> THEN shown
                  ELSE [shown EXCEPT ![Len(shown)] =
                          [@ EXCEPT !.text = streamBuf, !.tools = streamTools, !.over = TRUE]]
      /\ state' = "input" /\ streamCh' = 0
      /\ cancelled' = cancelled \cup (IF streamCh = 0 THEN {} ELSE {streamCh})
      /\ streamBuf' = <<>> /\ streamTools' = <<>>

\* What handleStream does with a text or an event, then wait again: on the
\* current channel, whichever turn the message was from.
Shows(m) ==
  /\ IF m.kind = "text"
     THEN streamBuf' = Append(streamBuf, m) /\ UNCHANGED streamTools
     ELSE streamTools' = AfterEvent(m) /\ UNCHANGED streamBuf
  /\ Await(streamCh)
  /\ UNCHANGED <<state, streamCh, turns, cancelled>>

handleStream ==
  /\ state # "quit"
  /\ \E i \in DOMAIN inbox :
       /\ inbox' = RemoveAt(inbox, i)
       /\ IF inbox[i].kind = "done"
          THEN finishTurn(inbox[i].err) /\ UNCHANGED waiting
          ELSE Shows(inbox[i])
  /\ UNCHANGED <<sent, stopCh, chan, handlerVars, escs, slashes, pressed>>

\* waitStreamOrStop on channel t gets a message or the stop signal.
Hears(t) ==
  /\ state # "quit" /\ waiting[t] > 0
  /\ waiting' = [waiting EXCEPT ![t] = @ - 1]
  /\ \/ /\ t # 0 /\ chan[t] # <<>>
        /\ inbox' = Append(inbox, Head(chan[t]))
        /\ chan' = [chan EXCEPT ![t] = Tail(@)]
        /\ UNCHANGED stopCh
     \/ /\ stopCh > 0
        /\ stopCh' = 0
        /\ inbox' = Append(inbox, Finished("canceled"))
        /\ UNCHANGED chan
  /\ UNCHANGED <<viewVars, handlerVars, cancelled, escs, slashes, pressed>>

-----------------------------------------------------------------------------
\* The handler writes a text or an event (WriteText, WriteEvent); under a
\* cancelled context the writer may drop it.
Writes(t) ==
  /\ hpc[t] = "running" /\ MapThenSumSet(LAMBDA u : Len(wrote[u]), Turns) < MaxItems
  /\ \E m \in {Text(t, Len(wrote[t]) + 1)} \cup {Start(c) : c \in ToolCalls} \cup {End(c) : c \in ToolCalls} :
       /\ wrote' = [wrote EXCEPT ![t] = Append(@, m)]
       /\ \/ Len(chan[t]) < Buffer /\ chan' = [chan EXCEPT ![t] = Append(@, m)]
          \/ t \in cancelled /\ UNCHANGED chan
  /\ UNCHANGED <<viewVars, stopCh, waiting, inbox, hpc, cancelled, escs, slashes, pressed>>

\* The handler returns, or panics.
Returns(t) ==
  /\ hpc[t] = "running"
  /\ hpc' = [hpc EXCEPT ![t] = "returned"]
  /\ UNCHANGED <<viewVars, stopCh, chan, waiting, inbox, wrote, cancelled, escs, slashes, pressed>>

\* Its goroutine sends the end of the turn, with the handler's error.
Reports(t) ==
  /\ hpc[t] = "returned" /\ Len(chan[t]) < Buffer
  /\ hpc' = [hpc EXCEPT ![t] = "gone"]
  /\ \E err \in {"ok", "error"} \cup (IF t \in cancelled THEN {"canceled"} ELSE {}) :
       chan' = [chan EXCEPT ![t] = Append(@, Finished(err))]
  /\ UNCHANGED <<viewVars, stopCh, waiting, inbox, wrote, cancelled, escs, slashes, pressed>>

\* The program has ended, or the user has nothing left to say.
Over ==
  /\ state = "quit" \/ (state = "input" /\ sent = MaxTurns)
  /\ UNCHANGED tvars

TNext ==
  \/ startTurn \/ handleSlash \/ quit \/ Escape \/ handleStream \/ Over
  \/ \E t \in 0 .. MaxTurns : Hears(t)
  \/ \E t \in Turns : state # "quit" /\ (Writes(t) \/ Returns(t) \/ Reports(t))

TSpec == TInit /\ [][TNext]_tvars

\* The loop and the goroutines go on.  Handlers need not return, and nobody is
\* obliged to press a key.
TFair ==
  /\ WF_tvars(handleStream)
  /\ \A t \in 0 .. MaxTurns : WF_tvars(Hears(t))
  /\ \A t \in Turns : WF_tvars(state # "quit" /\ Reports(t))

-----------------------------------------------------------------------------
\* A text of the view shows the texts among the first k items of written, each
\* once and in the order they were written: a text carries its place.
ShowsTexts(text, written, k) ==
  /\ Range(text) = {written[j] : j \in {i \in 1 .. k : written[i].kind = "text"}}
  /\ \A i, j \in DOMAIN text : i < j => text[i].n < text[j].n

\* Among the first k items, call c was started and did not end after that.
Unfinished(c, written, k) ==
  \E i \in 1 .. k : written[i] = Start(c) /\ \A j \in i + 1 .. k : written[j] # End(c)

\* Sections of the view show the events among the first k items: a call has a
\* section exactly if it was started, and its last one, no other, is open exactly
\* if the call did not end.
ShowsTools(tools, written, k) ==
  \A c \in ToolCalls :
    LET mine == {j \in DOMAIN tools : tools[j].call = c}
    IN  /\ mine # {} <=> \E i \in 1 .. k : written[i] = Start(c)
        /\ \A j \in mine : tools[j].complete \/ \A l \in mine : l <= j
        /\ (\E j \in mine : ~ tools[j].complete) <=> Unfinished(c, written, k)

\* The entry of a turn that ended before the user first pressed Esc.
Kept(e) == e.turn # 0 /\ e.over /\ (pressed = <<>> \/ e.turn < Head(pressed))

\* Every turn that ended before the user first pressed Esc shows, from then on,
\* all texts its handler wrote and no other, in the order they were written,
\* and each tool that was started as complete exactly if its end came last:
\* messages take the way through one channel and one waiting goroutine at a time.
ViewFaithful ==
  \A i \in DOMAIN turns :
    LET e == turns[i]
        written == wrote[e.turn]
    IN  Kept(e) => ShowsTexts(e.text, written, Len(written)) /\ ShowsTools(e.tools, written, Len(written))

\* A turn whose handler has returned is over in the view some time later, and
\* so is a turn during which Esc was pressed, even if its handler never returns
\* (handleKey signals stopCh so as not to wait for the handler).
TurnEnds ==
  \A t \in Turns :
    (streamCh = t /\ (hpc[t] \in {"returned", "gone"} \/ t \in Range(pressed)))
      ~> (streamCh # t \/ state = "quit")
=============================================================================
