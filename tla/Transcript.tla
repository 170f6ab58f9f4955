------------------------------ MODULE Transcript ------------------------------
(***************************************************************************)
(* What a model is told: the history of a session (session.go), the        *)
(* summary compressor and its state in the session                         *)
(* (context/summary/summary.go), the window compressor                     *)
(* (context/window/window.go), the requests that the OpenAI, the Anthropic *)
(* and the Gemini provider make of the messages, and the message that they *)
(* make of a stream of chunks (contrib).                                   *)
(*                                                                         *)
(* Agents that share a session call History at the same time; the state of *)
(* the session is read and written one key at a time.  A summary is the    *)
(* set of the messages it covers, numbered; tokens are counted in units.   *)
(***************************************************************************)
EXTENDS Naturals, Sequences, SequencesExt

CONSTANTS
  Runs,                     \* agents that share the session
  MaxLog,                   \* bound: messages
  Streams,                  \* what models stream: sequences of chunks
  MaxTokens, KeepRecent, BatchSize,    \* of the summary compressor
  WindowMessages, WindowTokens         \* of the window compressor

\* A chunk has a candidate or not, with text or not, and some tool calls.
ASSUME TranscriptAssumption ==
  /\ MaxLog \in Nat /\ MaxTokens \in Nat \ {0} /\ KeepRecent \in Nat /\ BatchSize \in Nat \ {0}
  /\ WindowMessages \in Nat \ {0} /\ WindowTokens \in Nat \ {0}
  /\ Streams \subseteq Seq([candidate : BOOLEAN, text : BOOLEAN, calls : Nat])

VARIABLES
  provider,
  log,                      \* history of the session
  offset, content,          \* the two keys of the summary
  reader,                   \* per run: where its call of History is
  exposed,                  \* calls overlapped, or a summary was empty
  repeated                  \* the session was loaded from its file with a summary

pvars == <<provider, log, offset, content, reader, exposed, repeated>>

\* A message: role, whether it has text, and the ids of its tool calls.
Message(role, text, calls) == [role |-> role, text |-> text, calls |-> calls]
Size(m) == 1 + Len(m.calls)

\* The sum of the numbers of a sequence, from the first on.
Total(s) ==
  LET total[i \in 0 .. Len(s)] == IF i = 0 THEN 0 ELSE total[i - 1] + s[i]
  IN  total[Len(s)]

Count(messages) == Total([i \in 1 .. Len(messages) |-> Size(messages[i])])

NotReading == [pc |-> "idle", len |-> 0, off |-> 0, covers |-> {}]

Providers == {"openai", "claude", "gemini"}

PInit ==
  /\ provider \in Providers
  /\ log = <<>> /\ offset = 0 /\ content = {}
  /\ reader = [r \in Runs |-> NotReading] /\ exposed = FALSE /\ repeated = FALSE

Says ==
  /\ Len(log) < MaxLog
  /\ log' = Append(log, Message("user", TRUE, <<>>))
  /\ UNCHANGED <<provider, offset, content, reader, exposed, repeated>>

\* The session manager loads the session from its file, where each turn that ended
\* left it.  The offset is decoded as a float64, which is none to ReadsOffset.
Reloads ==
  /\ \A r \in Runs : reader[r].pc = "idle"
  /\ offset' = 0
  /\ repeated' = (repeated \/ content # {})
  /\ UNCHANGED <<provider, log, content, reader, exposed>>

-----------------------------------------------------------------------------
(***************************************************************************)
(* The summary compressor.                                                 *)
(***************************************************************************)

\* buildWorkingView
WorkingView(r) ==
  IF r.off = 0 \/ r.covers = {}
  THEN SubSeq(log, 1, r.len)
  ELSE <<Message("assistant", TRUE, <<>>)>> \o SubSeq(log, r.off + 1, r.len)

Boundary(r) == IF r.len > KeepRecent THEN r.len - KeepRecent ELSE 0

TooLong(r) == Count(WorkingView(r)) > MaxTokens /\ r.off < Boundary(r)

\* History copies the messages.
Begins(r) ==
  /\ reader[r].pc = "idle" /\ log # <<>>
  /\ reader' = [reader EXCEPT ![r] = [NotReading EXCEPT !.pc = "offset", !.len = Len(log)]]
  /\ exposed' = (exposed \/ \E q \in Runs \ {r} : reader[q].pc # "idle")
  /\ UNCHANGED <<provider, log, offset, content, repeated>>

\* A value that is not an int is as none, see Reloads; the summary is read all the same.
ReadsOffset(r) ==
  /\ reader[r].pc = "offset"
  /\ reader' = [reader EXCEPT ![r].pc = "content", ![r].off = offset]
  /\ UNCHANGED <<provider, log, offset, content, exposed, repeated>>

\* An offset beyond the messages is that of another history.
ReadsContent(r) ==
  /\ reader[r].pc = "content"
  /\ LET stale == reader[r].off > reader[r].len
     IN  reader' = [reader EXCEPT ![r].pc = "fold",
                                  ![r].off = IF stale THEN 0 ELSE @,
                                  ![r].covers = IF stale THEN {} ELSE content]
  /\ UNCHANGED <<provider, log, offset, content, exposed, repeated>>

Min2(a, b) == IF a < b THEN a ELSE b

\* extendSummary with a fault: the model is not shown the existing summary.
BatchOnly(covers, batch) == batch

\* The new summary covers the existing one and the batch.
extendSummary(covers, batch) == covers \cup batch

\* A pass of the loop; the model may also return no text.
Folds(r) ==
  /\ reader[r].pc = "fold" /\ TooLong(reader[r])
  /\ LET end == Min2(reader[r].off + BatchSize, Boundary(reader[r]))
         batch == reader[r].off + 1 .. end
     IN  \E summary \in {extendSummary(reader[r].covers, batch), {}} :
           /\ reader' = [reader EXCEPT ![r].off = end, ![r].covers = summary]
           /\ exposed' = (exposed \/ summary = {})
  /\ UNCHANGED <<provider, log, offset, content, repeated>>

\* The model fails, and so does the call: nothing is stored.
FoldFails(r) ==
  /\ reader[r].pc = "fold" /\ TooLong(reader[r])
  /\ reader' = [reader EXCEPT ![r] = NotReading]
  /\ UNCHANGED <<provider, log, offset, content, exposed, repeated>>

StoresOffset(r) ==
  /\ reader[r].pc = "fold" /\ ~ TooLong(reader[r])
  /\ offset' = reader[r].off
  /\ reader' = [reader EXCEPT ![r].pc = "store"]
  /\ UNCHANGED <<provider, log, content, exposed, repeated>>

StoresContent(r) ==
  /\ reader[r].pc = "store"
  /\ content' = reader[r].covers
  /\ reader' = [reader EXCEPT ![r].pc = "view"]
  /\ UNCHANGED <<provider, log, offset, exposed, repeated>>

-----------------------------------------------------------------------------
(***************************************************************************)
(* The window compressor.                                                  *)
(***************************************************************************)

\* The loop that drops the oldest message as long as more than one is left and
\* the total less what was dropped is too much.
DropOldest(messages) ==
  LET Goes(i) == /\ Len(messages) - i > 1
                 /\ Count(messages) - Count(SubSeq(messages, 1, i)) > WindowTokens
      passes == CHOOSE i \in 0 .. Len(messages) : ~ Goes(i) /\ \A j \in 0 .. i - 1 : Goes(j)
  IN  SubSeq(messages, passes + 1, Len(messages))

Window(messages) ==
  LET recent == IF Len(messages) > WindowMessages
                THEN SubSeq(messages, Len(messages) - WindowMessages + 1, Len(messages))
                ELSE messages
  IN  DropOldest(recent)

-----------------------------------------------------------------------------
(***************************************************************************)
(* Requests.  An item has the calls and the results it carries.            *)
(***************************************************************************)
Item(role, calls, results) == [role |-> role, calls |-> calls, results |-> results]

\* toChatCompletionParams: the calls, then one message for each result.
toOpenAI(m) ==
  IF m.role # "tool" THEN <<Item(m.role, {}, {})>>
  ELSE <<Item("assistant", Range(m.calls), {})>>
         \o [i \in DOMAIN m.calls |-> Item("tool", {}, {m.calls[i]})]

\* toClaudeParams: the calls, then one message with all results.
toClaude(m) ==
  IF m.role # "tool" THEN <<Item(m.role, {}, {})>>
  ELSE <<Item("assistant", Range(m.calls), {}), Item("user", {}, Range(m.calls))>>

\* convertMessageToGenAI: only the results.
toGemini(m) ==
  IF m.role # "tool" THEN <<Item(IF m.role = "user" THEN "user" ELSE "model", {}, {})>>
  ELSE <<Item("user", {}, Range(m.calls))>>

Request(view) ==
  FlattenSeq([i \in DOMAIN view |->
    CASE provider = "openai" -> toOpenAI(view[i])
      [] provider = "claude" -> toClaude(view[i])
      [] provider = "gemini" -> toGemini(view[i])])

\* The message after the last chunk.  Gemini chunks are put together here, and
\* those after a first one without candidate are lost; the other SDKs do it.
Counted(chunks) ==
  {i \in DOMAIN chunks : chunks[i].candidate /\ (provider = "gemini" => chunks[1].candidate)}

Final(chunks) ==
  LET n == Total([i \in 1 .. Len(chunks) |-> IF i \in Counted(chunks) THEN chunks[i].calls ELSE 0])
  IN  Message(IF n > 0 THEN "tool" ELSE "assistant",
              \E i \in Counted(chunks) : chunks[i].text,
              [k \in 1 .. n |-> <<Len(log) + 1, k>>])

\* The model answers; the agent runs the tools and appends the message.
Answers(r) ==
  /\ reader[r].pc = "view" /\ Len(log) < MaxLog
  /\ \E chunks \in Streams : log' = Append(log, Final(chunks))
  /\ reader' = [reader EXCEPT ![r] = NotReading]
  /\ UNCHANGED <<provider, offset, content, exposed, repeated>>

\* The call of the model fails, and nothing is appended.
AnswerFails(r) ==
  /\ reader[r].pc = "view"
  /\ reader' = [reader EXCEPT ![r] = NotReading]
  /\ UNCHANGED <<provider, log, offset, content, exposed, repeated>>

PNext ==
  \/ Says \/ Reloads
  \/ \E r \in Runs :
       \/ Begins(r) \/ ReadsOffset(r) \/ ReadsContent(r) \/ Folds(r) \/ FoldFails(r)
       \/ StoresOffset(r) \/ StoresContent(r) \/ Answers(r) \/ AnswerFails(r)

PSpec == PInit /\ [][PNext]_pvars

-----------------------------------------------------------------------------
\* Each result comes right after the message with its call, and each call has
\* its results before anything else is said.
Paired(request) ==
  \A i \in DOMAIN request :
    LET answers == {k \in i + 1 .. Len(request) :
                      \A j \in i + 1 .. k : request[j].results # {}}
    IN  /\ request[i].calls = UNION {request[k].results : k \in IF request[i].calls = {} THEN {} ELSE answers}
        /\ request[i].results # {} => i > 1 /\ (request[i - 1].calls # {} \/ request[i - 1].results # {})

(***************************************************************************)
(* What a model is told.  As long as calls of Compress do not overlap and  *)
(* no summary is empty, no message is left out, whatever passes, failures, *)
(* later calls and reloads of the session it took: the summary covers      *)
(* those up to the offset, and the others follow verbatim, the recent ones *)
(* among them and none of these in the summary.  Until a session with a    *)
(* summary is loaded from its file, the model is told each message exactly *)
(* once; after that some that are in the summary may follow as well.  The  *)
(* window keeps the longest end of the history that fits, and the last     *)
(* message in any case.  And a compressor never tears a tool call from its *)
(* result: what OpenAI and Anthropic are sent pairs them up, as they       *)
(* demand.                                                                 *)
(***************************************************************************)
ViewsExact ==
  /\ \A r \in Runs :
       ~ exposed /\ reader[r].pc = "view" =>
         /\ 1 .. reader[r].off \subseteq reader[r].covers
         /\ reader[r].covers \subseteq 1 .. Boundary(reader[r])
         /\ Count(WorkingView(reader[r])) > MaxTokens => reader[r].off >= Boundary(reader[r])
         /\ ~ repeated => reader[r].covers = 1 .. reader[r].off
  /\ log # <<>> =>
       LET w == Window(log)
           fits(n) == n <= WindowMessages /\
                      (n = 1 \/ Count(SubSeq(log, Len(log) - n + 1, Len(log))) <= WindowTokens)
       IN  /\ w = SubSeq(log, Len(log) - Len(w) + 1, Len(log))
           /\ fits(Len(w)) /\ \A n \in Len(w) + 1 .. Len(log) : ~ fits(n)
           /\ provider # "gemini" => Paired(Request(w))
  /\ \A r \in Runs : reader[r].pc = "view" /\ provider # "gemini" =>
                       Paired(Request(WorkingView(reader[r])))
===============================================================================
