------------------------------ MODULE ChatDaemon ------------------------------
(***************************************************************************)
(* The chat daemon of the command: the handlers of the Lark and the Weixin *)
(* channel (channel/lark/channel.go, channel/weixin/channel.go), the turns *)
(* they and cron jobs run (app/runtime.go), and the session manager with   *)
(* its files (session/session.go).                                         *)
(*                                                                         *)
(* Lark delivers events at least once and in concurrent goroutines; Weixin *)
(* hands over one message after the other.  A turn adds a user entry and a *)
(* reply entry; the agent is modelled in AgentRun.                         *)
(***************************************************************************)
EXTENDS Integers, Sequences, SequencesExt, FiniteSets

CONSTANTS
  Chats,        \* chat or user ids; also the ids of their first sessions
  SessionIDs,        \* session ids
  Messages,     \* ids of messages
  Jobs,         \* goroutines, numbered: a bound on deliveries and cron runs
  Worlds,       \* the daemons considered, see DaemonAssumption
  TTL,          \* dedupeTTL
  MaxBusy       \* bound: turns and /clear under way at the same time

\* A daemon has a channel; kinds is what its users send, cron whether jobs run;
\* time and crashes bound the instants and the restarts.
ASSUME DaemonAssumption ==
  /\ Chats \subseteq SessionIDs /\ Jobs \subseteq Nat \ {0} /\ Messages \subseteq Nat
  /\ Worlds \subseteq [channel : {"lark", "weixin"}, kinds : SUBSET {"text", "clear", "switch", "other"},
                       cron : BOOLEAN, time : Nat, crashes : Nat]
  /\ TTL \in Nat \ {0} /\ MaxBusy \in Nat

VARIABLES
  world,
  now, crashes,
  processedMessages,     \* id -> when it was first seen, -1 if unknown
  lastPruneAt,           \* -1: never
  ranged, doomed,        \* of a pruning goroutine: ids it has not looked at, the id it is to delete
  slowPrune,             \* a Delete in this life came TTL or more after its clock was read
  sessions,              \* of the channel: chat -> session id
  mem,                   \* of the Manager: session id -> object, 0 if none
  history,               \* of each object: entries in rawHistory, last two of the session
  file,                  \* session id -> what its file holds
  job,                   \* the goroutines
  accepted,              \* id -> <<arrival, instant>> of its handlings in this life
  kept                   \* finished turns that ran alone on their session

dedupeVars == <<processedMessages, lastPruneAt, ranged, doomed, slowPrune, accepted>>
historyVars == <<mem, history, file>>
dvars == <<world, now, crashes, dedupeVars, sessions, historyVars, job, kept>>

Absent == [kind |-> "absent", has |-> {}]
Torn == [kind |-> "torn", has |-> {}]

\* A decoded file gives back the entries that were encoded; every kind of part
\* has an encoding.
makePersistedHistory(entries) == [kind |-> "history", has |-> entries]
restoreHistory(stored) == stored.has

Asked(id) == <<"user", id>>
Reply(id) == <<"reply", id>>

NoJob == [pc |-> "none", id |-> 0, chat |-> "", name |-> "", stamp |-> 0, new |-> FALSE,
          ensured |-> FALSE, obj |-> 0, plan |-> <<>>, copy |-> {}, alone |-> TRUE]

DInit ==
  /\ world \in Worlds /\ now = 0 /\ crashes = 0
  /\ processedMessages = [m \in Messages |-> -1] /\ lastPruneAt = -1
  /\ ranged = [j \in Jobs |-> {}] /\ doomed = [j \in Jobs |-> {}] /\ slowPrune = FALSE
  /\ sessions = [c \in Chats |-> c]
  /\ mem = [n \in SessionIDs |-> 0] /\ history = <<>> /\ file = [n \in SessionIDs |-> Absent]
  /\ job = [j \in Jobs |-> NoJob]
  /\ accepted = [m \in Messages |-> <<>>] /\ kept = {}

Proceeds(j, pc) == job' = [job EXCEPT ![j].pc = pc]
Ends(j) == job' = [job EXCEPT ![j] = [NoJob EXCEPT !.pc = "over"]]
Free(j) == job[j].pc = "none" /\ \A k \in Jobs : k < j => job[k].pc # "none"
Working == {"get", "run", "save", "write", "forget", "remove"}
Room == Cardinality({j \in Jobs : job[j].pc \in Working}) < MaxBusy
On(n) == {j \in Jobs : job[j].pc \in Working /\ job[j].name = n}

\* Goroutine j starts to work on session n.  Whether others do is remembered.
Enters(j, n, pc, plan) ==
  job' = [k \in Jobs |->
            CASE k = j -> [job[j] EXCEPT !.pc = pc, !.name = n, !.plan = plan, !.alone = On(n) = {},
                                       !.stamp = 0, !.new = FALSE]
              [] k # j /\ k \in On(n) -> [job[k] EXCEPT !.alone = FALSE]
              [] OTHER -> job[k]]

\* Time passes; only the Lark channel looks at the clock.
Tick ==
  /\ world.channel = "lark" /\ now < world.time /\ now' = now + 1
  /\ UNCHANGED <<world, crashes, dedupeVars, sessions, historyVars, job, kept>>

-----------------------------------------------------------------------------
\* An event arrives, and the clock is read.  Lark may deliver one again; Weixin
\* hands over the next message when the last one is done.
Arrives(j, m, c) ==
  /\ Free(j)
  /\ world.channel = "weixin" => /\ accepted[m] = <<>>
                           /\ \A k \in Jobs : job[k].pc \in {"none", "over"} \/ job[k].chat = ""
  /\ job' = [job EXCEPT ![j] = [NoJob EXCEPT !.id = m, !.chat = c, !.stamp = now, !.pc = "mark"]]
  /\ UNCHANGED <<world, now, crashes, dedupeVars, sessions, historyVars, kept>>

\* markMessageIfNew, LoadOrStore; Weixin keeps no table.
Marks(j) ==
  /\ job[j].pc = "mark"
  /\ LET m == job[j].id
         new == world.channel = "weixin" \/ processedMessages[m] = -1
     IN  /\ job' = [job EXCEPT ![j].pc = IF world.channel = "lark" THEN "prune" ELSE "handle", ![j].new = new]
         /\ processedMessages' = IF world.channel = "lark" /\ new
                                 THEN [processedMessages EXCEPT ![m] = job[j].stamp]
                                 ELSE processedMessages
         /\ accepted' = IF new
                        THEN [accepted EXCEPT ![m] = Append(@, [arrived |-> job[j].stamp, at |-> now])]
                        ELSE accepted
  /\ UNCHANGED <<world, now, crashes, lastPruneAt, ranged, doomed, slowPrune, sessions, historyVars, kept>>

\* A message seen before is dropped.
MarkEnds(j) == IF job[j].new THEN Proceeds(j, "handle") ELSE Ends(j)

\* pruneProcessedMessages under pruneMu: at most once in TTL.
Prunes(j) ==
  /\ job[j].pc = "prune"
  /\ IF lastPruneAt # -1 /\ job[j].stamp - lastPruneAt < TTL
     THEN MarkEnds(j) /\ UNCHANGED <<lastPruneAt, ranged>>
     ELSE /\ lastPruneAt' = job[j].stamp
          /\ ranged' = [ranged EXCEPT ![j] = Messages]
          /\ Proceeds(j, "range")
  /\ UNCHANGED <<world, now, crashes, processedMessages, doomed, slowPrune, accepted, sessions,
                 historyVars, kept>>

\* Outdated with a fault: After for Before.
Recent(m, stamp) == processedMessages[m] > stamp - TTL

\* firstSeen.Before(cutoff)
Outdated(m, stamp) == processedMessages[m] # -1 /\ processedMessages[m] < stamp - TTL

\* The Range, after the unlock: it looks at every id once, in any order and each
\* at its own moment.
PruneLooks(j) ==
  /\ job[j].pc = "range" /\ doomed[j] = {}
  /\ \E m \in ranged[j] :
       /\ ranged' = [ranged EXCEPT ![j] = @ \ {m}]
       /\ doomed' = [doomed EXCEPT ![j] = IF Outdated(m, job[j].stamp) THEN {m} ELSE {}]
  /\ UNCHANGED <<world, now, crashes, processedMessages, lastPruneAt, slowPrune, accepted, sessions,
                 historyVars, job, kept>>

\* Delete removes whatever the table has for the id by now.
PruneDeletes(j) ==
  /\ job[j].pc = "range" /\ doomed[j] # {}
  /\ processedMessages' = [m \in Messages |-> IF m \in doomed[j] THEN -1 ELSE processedMessages[m]]
  /\ doomed' = [doomed EXCEPT ![j] = {}]
  /\ slowPrune' = (slowPrune \/ now >= job[j].stamp + TTL)
  /\ UNCHANGED <<world, now, crashes, lastPruneAt, ranged, accepted, sessions, historyVars, job, kept>>

PruneEnds(j) ==
  /\ job[j].pc = "range" /\ ranged[j] = {} /\ doomed[j] = {}
  /\ MarkEnds(j)
  /\ UNCHANGED <<world, now, crashes, dedupeVars, sessions, historyVars, kept>>

\* What a message says: nothing, a text, or a command.
parseMessageContent == {"none"} \cup world.kinds

getOrCreateSession(c) == sessions[c]
setSession(c, n) == sessions' = [sessions EXCEPT ![c] = n]

\* handleCommand: /clear deletes the session, /session switches to another one,
\* the others only answer.
handleCommand(j, n, command) ==
  \/ /\ command = "clear"
     /\ Enters(j, n, "forget", <<>>)
     /\ kept' = {k \in kept : k.name # n}
     /\ UNCHANGED sessions
  \/ /\ command = "switch"
     /\ \E name \in SessionIDs : setSession(job[j].chat, name)
     /\ Ends(j)
     /\ UNCHANGED kept
  \/ /\ command = "other"
     /\ Ends(j)
     /\ UNCHANGED <<sessions, kept>>

\* handleMessage: the session of the chat, then a command or a turn.
Handles(j) ==
  /\ job[j].pc = "handle" /\ Room
  /\ \E content \in parseMessageContent :
       LET n == getOrCreateSession(job[j].chat)
       IN  \/ content = "none" /\ Ends(j) /\ UNCHANGED <<sessions, kept>>
           \/ /\ content = "text"
              /\ Enters(j, n, "get", <<Asked(job[j].id), Reply(job[j].id)>>)
              /\ UNCHANGED <<sessions, kept>>
           \/ content \notin {"none", "text"} /\ handleCommand(j, n, content)
  /\ UNCHANGED <<world, now, crashes, dedupeVars, historyVars>>

\* A cron job triggers a turn of its session.  Its text has an id of its own.
Triggers(j, n) ==
  /\ world.cron /\ Free(j) /\ Room
  /\ job' = [k \in Jobs |->
               CASE k = j -> [NoJob EXCEPT !.id = -j, !.pc = "get", !.name = n, !.alone = On(n) = {},
                                           !.plan = <<Asked(-j), Reply(-j)>>]
                 [] k # j /\ k \in On(n) -> [job[k] EXCEPT !.alone = FALSE]
                 [] OTHER -> job[k]]
  /\ UNCHANGED <<world, now, crashes, dedupeVars, sessions, historyVars, kept>>

-----------------------------------------------------------------------------
\* The history of a file, with a fault: a session not in memory starts empty.
Empty(n) == {}
loadFromDisk(n) == restoreHistory(file[n])

\* runTurn.  Manager.Get: the object in memory, or one read from the file; a
\* file that cannot be decoded ends the turn.
Gets(j) ==
  /\ job[j].pc = "get"
  /\ LET n == job[j].name
         o == IF mem[n] # 0 THEN mem[n] ELSE Len(history) + 1
     IN  IF mem[n] = 0 /\ file[n] = Torn
         THEN Ends(j) /\ UNCHANGED <<mem, history>>
         ELSE /\ job' = [job EXCEPT ![j].pc = "run", ![j].obj = o]
              /\ mem' = [mem EXCEPT ![n] = o]
              /\ history' = IF mem[n] # 0 THEN history
                            ELSE Append(history, [has |-> loadFromDisk(n), tail |-> <<>>])
  /\ UNCHANGED <<world, now, crashes, dedupeVars, sessions, file, kept>>

\* The agent or ensureTurnHistory appends the next entry: to the session, under
\* its lock, and to rawHistory, which has none: of two turns that append at the
\* same time one may lose its entry.
Appends(j) ==
  /\ job[j].pc = "run" /\ job[j].plan # <<>>
  /\ LET o == job[j].obj
         e == Head(job[j].plan)
         t == Append(history[o].tail, e)
         races == \E k \in Jobs \ {j} : job[k].pc = "run" /\ job[k].obj = o /\ job[k].plan # <<>>
     IN  \E stored \in {{e}} \cup (IF races THEN {{}} ELSE {}) :
           history' = [history EXCEPT ![o].has = @ \cup stored,
                                      ![o].tail = IF Len(t) > 2 THEN Tail(t) ELSE t]
  /\ job' = [job EXCEPT ![j].plan = Tail(@)]
  /\ UNCHANGED <<world, now, crashes, dedupeVars, sessions, mem, file, kept>>

\* The run ends with an error, and nothing is saved.
Fails(j) ==
  /\ job[j].pc = "run" /\ job[j].plan # <<>>
  /\ Ends(j)
  /\ UNCHANGED <<world, now, crashes, dedupeVars, sessions, historyVars, kept>>

\* What ensureTurnHistory still has to append after the last two entries.
Missing(tail, id) ==
  IF tail = <<Asked(id), Reply(id)>> THEN <<>>
  ELSE IF tail # <<>> /\ Last(tail) = Asked(id) THEN <<Reply(id)>>
  ELSE <<Asked(id), Reply(id)>>

\* ensureTurnHistory, once the run is over.  Turns that overlapped may find
\* entries of others at the end, and append theirs again.
Ensures(j) ==
  /\ job[j].pc = "run" /\ job[j].plan = <<>>
  /\ LET missing == IF job[j].ensured THEN <<>> ELSE Missing(history[job[j].obj].tail, job[j].id)
     IN  job' = [job EXCEPT ![j].plan = missing, ![j].ensured = TRUE,
                            ![j].pc = IF missing = <<>> THEN "save" ELSE "run"]
  /\ UNCHANGED <<world, now, crashes, dedupeVars, sessions, historyVars, kept>>

\* Save: copy the history; os.WriteFile opens and truncates the file.  Any of it
\* may fail before.
SaveBegins(j) ==
  /\ job[j].pc = "save"
  /\ \/ /\ job' = [job EXCEPT ![j].pc = "write", ![j].copy = history[job[j].obj].has]
        /\ file' = [file EXCEPT ![job[j].name] = Torn]
     \/ Ends(j) /\ UNCHANGED file
  /\ UNCHANGED <<world, now, crashes, dedupeVars, sessions, mem, history, kept>>

\* Another turn that saved since the truncation may have written more, and then
\* its end remains.  The write may also fail half-way.
SaveWrites(j) ==
  /\ job[j].pc = "write"
  /\ LET n == job[j].name
     IN  \/ /\ file' = [file EXCEPT ![n] = makePersistedHistory(job[j].copy)]
            /\ kept' = IF job[j].alone THEN kept \cup {[name |-> n, id |-> job[j].id]} ELSE kept
         \/ file' = [file EXCEPT ![n] = Torn] /\ UNCHANGED kept
  /\ Ends(j)
  /\ UNCHANGED <<world, now, crashes, dedupeVars, sessions, mem, history>>

\* Manager.Delete, for /clear: forget the object, then remove the file, which may
\* fail.
Forgets(j) ==
  /\ job[j].pc = "forget"
  /\ mem' = [mem EXCEPT ![job[j].name] = 0]
  /\ Proceeds(j, "remove")
  /\ UNCHANGED <<world, now, crashes, dedupeVars, sessions, history, file, kept>>

Removes(j) ==
  /\ job[j].pc = "remove"
  /\ file' \in {file, [file EXCEPT ![job[j].name] = Absent]}
  /\ Ends(j)
  /\ UNCHANGED <<world, now, crashes, dedupeVars, sessions, mem, history, kept>>

-----------------------------------------------------------------------------
\* The process dies and is started again: only the files are left.
Crashes ==
  /\ crashes < world.crashes /\ crashes' = crashes + 1
  /\ processedMessages' = [m \in Messages |-> -1] /\ lastPruneAt' = -1
  /\ ranged' = [j \in Jobs |-> {}] /\ doomed' = [j \in Jobs |-> {}] /\ slowPrune' = FALSE
  /\ sessions' = [c \in Chats |-> c]
  /\ mem' = [n \in SessionIDs |-> 0]
  /\ job' = [j \in Jobs |-> IF job[j].pc = "none" THEN NoJob ELSE [NoJob EXCEPT !.pc = "over"]]
  /\ accepted' = [m \in Messages |-> <<>>] /\ history' = <<>>
  /\ UNCHANGED <<world, now, file, kept>>

Resting == (\A j \in Jobs : job[j].pc = "over") /\ UNCHANGED dvars

DNext ==
  \/ Tick \/ Crashes \/ Resting
  \/ \E j \in Jobs :
       \/ \E m \in Messages, c \in Chats : Arrives(j, m, c)
       \/ \E n \in Chats : Triggers(j, n)
       \/ Marks(j) \/ Prunes(j) \/ PruneLooks(j) \/ PruneDeletes(j) \/ PruneEnds(j) \/ Handles(j)
       \/ Gets(j) \/ Appends(j) \/ Fails(j) \/ Ensures(j)
       \/ SaveBegins(j) \/ SaveWrites(j)
       \/ Forgets(j) \/ Removes(j)

DSpec == DInit /\ [][DNext]_dvars

-----------------------------------------------------------------------------
\* Lark delivers an event again when it thinks the first delivery was lost.  The
\* daemon does not handle a message a second time before TTL has passed since
\* it first arrived, however the goroutines of the deliveries and those that
\* prune the table interleave, as long as no prune takes TTL (two minutes) from
\* the clock it was given to a Delete.  One that does may delete an entry that is
\* newer than the one it looked at.
HandledOnce ==
  world.channel = "lark" /\ ~slowPrune =>
    \A m \in Messages : \A i, k \in DOMAIN accepted[m] :
      i < k => accepted[m][k].at > accepted[m][i].arrived + TTL

\* A turn that had its session to itself, and whose end was reported, stays in
\* the file of the session until /clear: a later turn,
\* overlapping turns, a cleared session that an older turn writes again, or a
\* restart do not drop it.  The file may be unreadable while, or after, a save
\* was interrupted or two saves met.
TurnsKept ==
  \A k \in kept :
    file[k.name] # Torn => {Asked(k.id), Reply(k.id)} \subseteq file[k.name].has
=============================================================================
