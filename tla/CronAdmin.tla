------------------------------ MODULE CronAdmin ------------------------------
(***************************************************************************)
(* The users of the cron service: the cron tool of the agent               *)
(* (internal/tools/cron.go), the cron commands (cmd/cron.go,               *)
(* cmd/cron_heartbeat.go, cmd/command_helpers.go) and the handler of a job *)
(* that fires (internal/cron/service.go).                                  *)
(*                                                                         *)
(* ListJobs, AddJob and RemoveJob are single steps here; CronService has   *)
(* their detail.  A user makes several of them in a row: the heartbeat     *)
(* command lists, removes and adds, the tool lists and then removes or     *)
(* runs by id.  Commands are processes that may be killed in between.      *)
(*                                                                         *)
(* The service and the tool are in the daemon, which has the list of jobs  *)
(* in memory; each command is a process with a list of its own.  They load *)
(* the file before they use the list, if it was written since: the times   *)
(* of two writes differ here (CronService has times that do not).  But the *)
(* end of a run saves the list as it is in memory.                         *)
(***************************************************************************)
EXTENDS Naturals, FiniteSets

CONSTANTS
  Callers,       \* commands and tool calls at work
  Inputs,        \* arguments of the tool and flags of the commands
  Beats,         \* flags of the heartbeat command
  MaxAdded,      \* bound: jobs added
  MaxRunning     \* bound: jobs that run at a time

Sessions == {in.session : in \in Beats}  \* those that have a heartbeat

\* "own" stands for a session that AddJob makes up: nobody asks for it.
ASSUME AdminAssumption == "own" \notin Sessions

VARIABLES
  jobs,          \* the store, as a set: no operation depends on its order
  loaded,        \* the list that the daemon has in memory
  added,         \* ids handed out
  client,        \* per client: what it does next
  running,       \* runs: the job, by whom, and the list a command has in memory
  ensured,       \* per session: schedule of the last heartbeat command that succeeded
  disturbed      \* two heartbeat commands overlapped, or a run wrote an old list

avars == <<jobs, loaded, added, client, running, ensured, disturbed>>

Error == [kind |-> "error", ms |-> 0, future |-> FALSE]
When(kind, ms, future) == [kind |-> kind, ms |-> ms, future |-> future]

\* int64(seconds * 1000), Duration.Milliseconds: less than one is zero.
Ms(every) == [tiny |-> 0, short |-> 1, long |-> 2][every]
Every(every) == When("every", Ms(every), Ms(every) > 0)
Positive(value) == value \notin {"", "zero"}
Expr(expr) == IF expr = "bad" THEN Error ELSE When("cron", 0, expr # "never")

\* normScheduleKind
Norm(type) == IF type \in {"delay", "once"} THEN "at" ELSE type

\* buildSchedule: a delay stands for a time, and the kind may be inferred.
buildSchedule(in) ==
  LET delayed == Positive(in.delay) /\ in.at = ""
      at   == IF delayed THEN "future" ELSE in.at
      type == IF delayed /\ in.type = "" THEN "at" ELSE Norm(in.type)
      kind == CASE type # "" -> type
                [] type = "" /\ in.expr # "" -> "cron"
                [] type = "" /\ in.expr = "" /\ Positive(in.every) -> "every"
                [] OTHER -> IF at # "" THEN "at" ELSE "none"
  IN  CASE kind = "at" /\ at \in {"past", "future"} -> When("at", 0, at = "future")
        [] kind = "every" /\ Positive(in.every) -> Every(in.every)
        [] kind = "cron" /\ in.expr # "" -> Expr(in.expr)
        [] OTHER -> Error

\* parseScheduleFlags: one flag, or the default of the heartbeat command.
parseScheduleFlags(expr, every, delay, default) ==
  CASE expr = "" /\ every = "" /\ delay = "" -> default
    [] expr # "" /\ every = "" /\ delay = "" -> Expr(expr)
    [] expr = "" /\ every # "" /\ delay = "" -> IF Positive(every) THEN Every(every) ELSE Error
    [] expr = "" /\ every = "" /\ delay # "" -> IF Positive(delay) THEN When("at", 0, TRUE) ELSE Error
    [] OTHER -> Error

Nothing == [kind |-> "error", body |-> "", session |-> "", reply |-> ""]

\* The task of buildTask and cronPayloadFromFlags, once the chat is known.
Task(in, chat) ==
  LET type == CASE in.task # "" -> in.task
                [] in.task = "" /\ in.command # "" -> "exec"
                [] in.task = "" /\ in.command = "" /\ in.prompt # "" -> "agent"
                [] OTHER -> IF in.text # "" THEN "notify" ELSE "none"
      pay(kind, body, session) == [kind |-> kind, body |-> body, session |-> session, reply |-> chat]
  IN  CASE type = "exec" /\ in.command # "" -> pay("exec", in.command, "")
        [] type = "agent" /\ in.prompt # "" -> pay("agent_turn", in.prompt, in.session)
        [] type = "notify" /\ in.text # "" /\ chat # "" -> pay("notify", in.text, "")
        [] OTHER -> Nothing

\* fillChatSessionID: the chat that was named, else the id of the session of the
\* turn.  That is the chat until /session switches to a session with another id,
\* which is then taken for a chat.
buildTask(in) == Task(in, IF in.chat # "" THEN in.chat ELSE in.turn)

cronPayloadFromFlags(in) ==
  IF Cardinality({f \in {"command", "prompt", "text"} : in[f] # ""}) > 1 THEN Nothing
  ELSE Task(in, in.chat)

-----------------------------------------------------------------------------
AtRest == [pc |-> "idle", id |-> 0, sched |-> Error, session |-> ""]

AInit ==
  /\ jobs = {} /\ loaded = {} /\ added = 0 /\ running = {}
  /\ client = [c \in Callers |-> AtRest]
  /\ ensured = [s \in Sessions |-> Error] /\ disturbed = FALSE

\* AddJob refuses a schedule without a future run; an agent turn without a
\* session gets one of its own.
AddJob(name, sched, payload, once) ==
  /\ added' = added + 1
  /\ jobs' = jobs \cup
       {[id |-> added + 1, name |-> name, sched |-> sched, on |-> TRUE, once |-> once,
         payload |-> IF payload.kind = "agent_turn" /\ payload.session = ""
                     THEN [payload EXCEPT !.session = "own"] ELSE payload]}

Without(id) == {j \in jobs : j.id # id}
Ids == {j.id : j \in jobs}

\* What the tool and the add command make of their inputs.  The tool names a job
\* after its task when it is not given a name; the command insists on one.
JobSpec(in, sched, payload) ==
  [name |-> IF in.name = "" THEN payload.body ELSE in.name, sched |-> sched,
   payload |-> payload, once |-> in.once]

Accepted(specs) == {s \in specs : s.sched.future /\ s.payload.kind # "error"}

ToolSpecs == Accepted({JobSpec(in, buildSchedule(in), buildTask(in)) : in \in Inputs})

CommandSpecs ==
  Accepted({JobSpec(in, parseScheduleFlags(in.expr, in.every, in.delay, Error), cronPayloadFromFlags(in)) :
              in \in {i \in Inputs : i.name # ""}})

ToolAdds ==
  /\ added < MaxAdded
  /\ \E s \in ToolSpecs : AddJob(s.name, s.sched, s.payload, s.once)
  /\ loaded' = jobs'
  /\ UNCHANGED <<client, running, ensured, disturbed>>

CommandAdds ==
  /\ added < MaxAdded
  /\ \E s \in CommandSpecs : AddJob(s.name, s.sched, s.payload, s.once)
  /\ UNCHANGED <<loaded, client, running, ensured, disturbed>>

-----------------------------------------------------------------------------
(***************************************************************************)
(* The heartbeat command: upsertCronJob.                                   *)
(***************************************************************************)
SameSchedule(j, session, sched) ==  \* Matches with a fault
  /\ j.name = "heartbeat" /\ j.payload.kind = "agent_turn" /\ j.sched = sched
  /\ j.payload.body = "poll" /\ j.payload.session = session

\* The matcher of ensureHeartbeatJob does not look at the schedule.
Matches(j, session, sched) ==
  /\ j.name = "heartbeat" /\ j.payload.kind = "agent_turn"
  /\ j.payload.body = "poll" /\ j.payload.session = session

Poll(session) == [kind |-> "agent_turn", body |-> "poll", session |-> session, reply |-> ""]
Heartbeats(session) == {j \in jobs : j.name = "heartbeat" /\ j.payload = Poll(session)}

\* findMatchingCronJob, and nothing else to do when the job is as asked.  The jobs
\* are listed by the time of their next run, so any match may be the first; the
\* command has no flag for a delay.
HeartbeatLists(c) ==
  /\ client[c].pc = "idle"
  /\ \E in \in Beats :
       LET sched == parseScheduleFlags(in.expr, in.every, "", When("every", 2, TRUE))
           found == {j \in jobs : Matches(j, in.session, sched)}
           go(pc, id) == client' = [client EXCEPT ![c] =
                           [pc |-> pc, id |-> id, sched |-> sched, session |-> in.session]]
       IN  /\ sched.kind # "error"
           /\ \/ found = {} /\ go("adds", 0) /\ UNCHANGED ensured
              \/ \E j \in found :
                   IF j.sched = sched /\ j.payload = Poll(in.session) /\ ~ j.once
                   THEN ensured' = [ensured EXCEPT ![in.session] = sched] /\ UNCHANGED client
                   ELSE go("removes", j.id) /\ UNCHANGED ensured
  /\ disturbed' = (disturbed \/ \E d \in Callers \ {c} : client[d].pc \in {"adds", "removes"})
  /\ UNCHANGED <<jobs, loaded, added, running>>

\* A job that is gone ends the command with an error.
HeartbeatRemoves(c) ==
  /\ client[c].pc = "removes"
  /\ jobs' = Without(client[c].id)
  /\ ensured' = [ensured EXCEPT ![client[c].session] = Error]
  /\ client' = [client EXCEPT ![c] = IF client[c].id \in Ids THEN [@ EXCEPT !.pc = "adds"] ELSE AtRest]
  /\ UNCHANGED <<loaded, added, running, disturbed>>

HeartbeatAdds(c) ==
  /\ client[c].pc = "adds" /\ added < MaxAdded
  /\ IF client[c].sched.future
     THEN /\ AddJob("heartbeat", client[c].sched, Poll(client[c].session), FALSE)
          /\ ensured' = [ensured EXCEPT ![client[c].session] = client[c].sched]
     ELSE UNCHANGED <<jobs, added, ensured>>
  /\ client' = [client EXCEPT ![c] = AtRest]
  /\ UNCHANGED <<loaded, running, disturbed>>

Killed(c) ==
  /\ client[c].pc # "idle"
  /\ client' = [client EXCEPT ![c] = AtRest]
  /\ UNCHANGED <<jobs, loaded, added, running, ensured, disturbed>>

-----------------------------------------------------------------------------
(***************************************************************************)
(* Removing and running.                                                   *)
(***************************************************************************)

\* resolveJobID: an id, as it is, or that of the one job with a name.  The tool
\* loads the list of the daemon, a command one of its own.
Resolves(c) ==
  /\ client[c].pc = "idle"
  /\ \E j \in jobs, verb \in {"remove", "run"} :
       client' = [client EXCEPT ![c] = [AtRest EXCEPT !.pc = verb, !.id = j.id]]
  /\ loaded' \in {loaded, jobs}
  /\ UNCHANGED <<jobs, added, running, ensured, disturbed>>

\* RemoveJob, also of the remove command with an id; maybe it is gone.
JobRemoved(c) ==
  /\ client[c].pc = "remove"
  /\ jobs' = Without(client[c].id) /\ loaded' \in {loaded, jobs'}
  /\ ensured' = [s \in Sessions |->
                   IF \E j \in Heartbeats(s) : j.id = client[c].id
                   THEN Error ELSE ensured[s]]
  /\ client' = [client EXCEPT ![c] = AtRest]
  /\ UNCHANGED <<added, running, disturbed>>

\* RunNow: the tool lets the daemon run the job in the background, the run command
\* runs it itself.
RunsNow(c) ==
  /\ client[c].pc = "run" /\ Cardinality(running) < MaxRunning
  /\ \/ /\ loaded' = jobs
        /\ running' = running \cup {[id |-> j.id, by |-> "daemon", view |-> {}] : j \in jobs \ Without(client[c].id)}
     \/ /\ running' = running \cup {[id |-> j.id, by |-> "command", view |-> jobs] : j \in jobs \ Without(client[c].id)}
        /\ UNCHANGED loaded
  /\ client' = [client EXCEPT ![c] = AtRest]
  /\ UNCHANGED <<jobs, added, ensured, disturbed>>

\* A job that is for one time goes off.
Off(j, id) == [j EXCEPT !.on = @ /\ ~ (j.id = id /\ j.sched.kind = "at")]

\* A tick of the service loads the list, advances a job that is due, saves, and
\* runs it.  Several that are due are ticks in a row.
Fires ==
  /\ Cardinality(running) < MaxRunning
  /\ \E due \in jobs :
       /\ due.on
       /\ jobs' = {Off(j, due.id) : j \in jobs} /\ loaded' = jobs'
       /\ running' = running \cup {[id |-> due.id, by |-> "daemon", view |-> {}]}
  /\ UNCHANGED <<added, client, ensured, disturbed>>

\* watchFile, or a tick with nothing due: the daemon loads the list.
Loads ==
  /\ loaded' = jobs
  /\ UNCHANGED <<jobs, added, client, running, ensured, disturbed>>

\* newDaemonCmd: results go out on the first channel.
NotifyReaches(channels, chat) ==
  \/ "lark" \in channels /\ chat = "larkchat"
  \/ channels = {"weixin"} /\ chat = "weixinchat"

\* newBotHandlerWithExecWorkDir.  works: the command, or the turn, succeeds;
\* up: the channel takes the message.  A result that cannot be sent is not an
\* error of the job, unless sending it is the job.
Handled(channels, payload, works, up) ==
  LET sent == NotifyReaches(channels, payload.reply) /\ up
  IN  CASE payload.kind = "notify" -> IF sent THEN "sent" ELSE "error"
        [] payload.kind # "notify" /\ ~ works -> "error"
        [] OTHER -> IF payload.reply # "" /\ sent THEN "sent" ELSE "unsent"

\* The handler returns, well or not, and execute keeps the job, turns it off or
\* deletes it, if it is still there, in the list that its process has in memory;
\* that list it saves.
JobEnds ==
  /\ \E r \in running :
       LET base == IF r.by = "daemon" THEN loaded ELSE r.view
           kept == {j \in base : j.id = r.id => ~ j.once}
       IN  /\ running' = running \ {r}
           /\ jobs' = {Off(j, r.id) : j \in kept}
           /\ loaded' = IF r.by = "daemon" THEN jobs' ELSE loaded
           /\ disturbed' = (disturbed \/ base # jobs)
  /\ UNCHANGED <<added, client, ensured>>

ANext ==
  \/ ToolAdds \/ CommandAdds \/ Fires \/ Loads \/ JobEnds
  \/ \E c \in Callers :
       \/ HeartbeatLists(c) \/ HeartbeatRemoves(c) \/ HeartbeatAdds(c) \/ Killed(c)
       \/ Resolves(c) \/ JobRemoved(c) \/ RunsNow(c)

ASpec == AInit /\ [][ANext]_avars

-----------------------------------------------------------------------------
\* With nothing failing, the handler sends the result of a job to the chat that was
\* named, or to the id that buildTask took for one, if that is a chat of the channel
\* on which the daemon sends.
Runnable(payload) ==
  /\ payload.body # "" /\ (payload.kind = "agent_turn" => payload.session # "")
  /\ \A channels \in SUBSET {"lark", "weixin"} :
       LET result == Handled(channels, payload, TRUE, TRUE)
       IN  /\ payload.reply = "" => result = "unsent"
           /\ NotifyReaches(channels, payload.reply) => result = "sent"

(***************************************************************************)
(* As long as heartbeat commands do not overlap, and no run that ends      *)
(* writes back a list that is not the one in the store any more, there is  *)
(* at most one heartbeat job for a session that is named, whatever is      *)
(* killed, removed or run between their steps; after a command that        *)
(* succeeded there is one and it has the schedule that was asked for.  In  *)
(* any case a job that is kept, of the tool or of a command, is on only    *)
(* with a schedule that had a future run when it was added, and is one     *)
(* that the handler can run.                                               *)
(***************************************************************************)
Administered ==
  /\ ~ disturbed =>
       \A s \in Sessions \ {""} :
         /\ \A i, j \in Heartbeats(s) : i = j
         /\ ensured[s].kind # "error" => \E j \in Heartbeats(s) : j.sched = ensured[s] /\ j.on
  /\ \A j \in jobs : (j.on => j.sched.future) /\ Runnable(j.payload)
==============================================================================
