# TLA+ models of go-kratos/blades

blades is a Go framework for LLM agents: an agent loop with tools, flow agents
that combine agents, a graph executor with checkpoints, adapters for model
providers and MCP servers, and a command, `blades`, that runs agents from the
terminal, on chat channels and on a schedule. This directory models the parts of
it whose correctness depends on the order of events, checks the models with TLC
on small instances, and proves the central results with TLAPS for all instances.

## 1. Inventory

| Component | State it keeps | Operations | What is hard, and what makes it correct |
|---|---|---|---|
| Graph builder (`graph/graph.go`) | nodes, edges in order, entry, finish | `AddNode`, `AddEdge`, `Set*Point`, `Compile` | searches over maps iterated in any order; `Compile` accepts exactly what the scheduler relies on |
| Graph task (`graph/task.go`, `executor.go`, `checkpoint.go`) | ready queue, remaining and received counts, visited and in-flight sets, shared state, first error, checkpoint | `Execute`, `Resume`, one goroutine per node | goroutines satisfying the same join, skips against taken edges, a condition variable, checkpoints and crashes; each node once, joins complete, the finish node last, Resume continues where the task was, every call returns |
| Graph middleware, retry (`graph/middleware.go`, `retry.go`) | none | wrap a handler | nothing shared |
| Agent loop (`agent.go`, `tool.go`, `core.go`, `message.go`) | the messages of a run, the committed flag, the actions of a message | `Run`, `handle`, `executeTools` | concurrent tools, a consumer that stops the stream, the iteration limit; user message appended once, every tool call answered, what the consumer saw is in the session |
| Runner (`runner.go`) | session and invocation of a run | `Run`, `RunStream` | resuming an invocation |
| Session and compressors (`session.go`, `context/*`) | history, state map, summary offset | `Append`, `History`, `Compress` | concurrent appends, offset against history; no message lost or summarised twice |
| Flow agents (`flow/*`) | a channel of results, a loop counter | `Run` of sequential, parallel, loop, routing, deep | a bounded channel and cancellation; nobody blocks for ever, the loop ends |
| Middleware, streams (`middleware/*`, `stream/*`) | none, a mutex | `Retry`, `Confirm`, `Merge`, ... | repeated attempts on one session |
| Tools, deep, handoff, memory, evaluator | small maps | adapters | little |
| Recipes (`recipe/*`) | registries | `Validate`, `Build`, `BuildSessionOption`, templates at build and at run time | what validation accepts can be built; outputs reach later agents |
| Skills (`skills/*`) | skills with their files, script runs | loading a tree, `load_skill*`, `run_skill_script`, `ComposeTools` | nested skills, paths; a file belongs to one skill and is found under its path |
| MCP (`contrib/mcp`) | session, connected and reconnecting flags, cached tools | `Connect`, `Close`, `CallTool`, `Resolve`, a reconnect goroutine | close against reconnect, a stale session, a partially filled cache |
| Providers, tracing (`contrib/openai`, `anthropic`, `gemini`, `otel`) | none | requests from messages, messages from streams | calls and results stay paired |
| Cron service (`cmd/blades/internal/cron`) | the store file, and per process: jobs, mtime, timer, running flag | `AddJob`, `RemoveJob`, `EnableJob`, `RunNow`, `ListJobs`, `Start`, `Stop`, `tick`, `execute`, `watchFile` | several processes on one file, overlapping ticks, failures of the file, crashes; a one-shot job fires once, removed jobs stay removed, stored jobs stay stored, due jobs fire |
| Cron tool and commands (`internal/tools/cron.go`, `cmd/cron*.go`) | none | add, remove, run, heartbeat | list, remove and add are three calls; one heartbeat job, schedules with a future |
| Session manager (`internal/session`) and turns (`internal/app/runtime.go`) | sessions in memory, one file each | `Get`, `Append`, `Save`, `Delete`; `runTurn` | turns of a chat and of cron jobs on one session, files written in place, restarts; a finished turn stays |
| Lark and Weixin channels (`internal/channel/*`) | deduplication table, session of each chat, a card being written | handlers of messages and commands, flushes of the card | repeated deliveries, timers against `Close`; each message once, a card never goes back |
| Terminal and slash commands (`internal/channel/cli`, `internal/command`) | the conversation shown, one channel per turn | keys, commands, stream messages | a response stopped while its handler goes on; the view is what was written, turns end |
| Memory store, file and shell tools, configuration (`cmd/blades/internal/*`) | files | reads and writes | input and output |

Interactions: the command's daemon starts the cron service and the channels; both
call the runner, which builds an invocation on a session and runs an agent (plain
or a flow); an agent calls a model provider and tools; MCP servers and skills
provide tools; a graph node's handler may run an agent. The cron service is also
used by short-lived commands and by the cron tool of a chat, in other processes.

`PROJECT.json` lists all components, modelled or not, and, under "hazards", what
is hard to test in this code, each with its line and the property that covers it.

## 2. Plan

1. `GraphTopology`, `GraphTask`, `GraphFlow`, `GraphTaskProofs`: the graph
   executor, its abstract specification, its proofs. **Done.**
2. `GraphCompile`: the builder, checked against the assumption that
   `GraphTask` and its proofs make. **Done.**
3. `CronService`, `CronServiceProofs`: the scheduler of the command and its
   proofs. **Done.**
4. `AgentRun` (agent loop, concurrent tools, session, retry middleware) and
   `AgentProofs`. **Done.**
5. `FlowParallel` and `FlowLoop` (the channel of the parallel agent, loop exit),
   composing agents with the runner. **Done.**
6. `McpClient` (connect, reconnect, close, the resolver's cache). **Done.**
7. `Transcript`: the summary and window compressors and the requests of the
   providers. **Done.**
8. `ChatDaemon` (session manager, turns, deduplication and commands of the
   channels), `CardWriter`, `Terminal`. **Done.**
9. `Recipe`, `Skills`, `CronAdmin`. **Done.**
10. Proofs of the safety properties: graphs and their compilation, flows, cron
    service, its users, MCP client, terminal, daemon, card, recipes, skills and
    transcript. **Done** (section 5): every invariant and action property that a
    passing run checks is a theorem.

## 3. Modules

### GraphTopology
The compiled graph as constants: nodes, numbered edges with their ends, the
conditional nodes, entry and finish. `WellFormed` is what `Compile` guarantees
(finite, acyclic, exactly the finish node has no out-edge) and is the assumption
`TopologyAssumption` of everything below. It does not say that every node is
reachable from the entry, because `Compile` does not check that.

### GraphTask
One `Task` at a time, around one checkpoint id. Each action is a critical section
of `Task.mu`, or the call between two of them.

| Code | Model |
|---|---|
| `Execute` + `newTask` + `prepareEntry` | `Execute` |
| `Resume` + `restoreCheckpoint` + `rebuild*Locked` | `Resume`, `RebuiltRemaining`, `RebuiltReady`; the queue comes in any order, as the code iterates a map |
| `run` loop | `EmitCheckpoint`, `SaveCheckpoint`, `CheckTermination` (`Verdict`), `Return`, `ScheduleNone`, `ScheduleNext` |
| `readyCond` | `main = "asleep"` and `Wake`; main is the only waiter |
| `executeNode`, `nodeDone` | `Begin`, `HandlerError`, `Complete`, `NodeDone` |
| `processOutgoing`, `satisfy` | `TakeEdge`, `PropagateSkip`, `EdgesDone`, each step one lock of `satisfy`; the recursion over skipped nodes is the set `skips` of the goroutine, visited in any order (the code goes depth first) |
| process death | `Crash` |

Abstracted: handlers return an error or a value and conditions are a free choice;
the state map is the set of nodes whose output it holds (one key per node);
the caller's own keys, middleware and the node context are left out. The
Checkpointer is external: it keeps the last checkpoint, and `Save` may fail.

### GraphFlow
What an execution promises without the scheduler: nodes resolve one by one in an
order the edges allow, nothing after the finish node, a snapshot may be saved, a
later call may start from the last snapshot, success means that all reachable
nodes are resolved. `GraphTask` implements it under the mapping `Flow`.

### GraphCompile
The builder's calls in any order, before and after a `Compile`. `Compile` itself is
split at its loops: `Compile` validates; `VisitRoot` takes any unvisited node, as the
map iteration of `ensureAcyclic` may, and `VisitEdge` and `VisitEnds` are the
recursive `visit` with its calls on `stack` (the node, and how many of its edges are
done); `Seek` is one turn of the loop of `ensureReachable`; `ChecksStructure` is
`validateStructure` and, when all is well, `NewExecutor`. `edges` is the map of the
code; `numbered` records the same `AddEdge` calls in one sequence and is read only by
the properties, which interpret it as a graph of `GraphTopology`. A change of the
graph forgets the verdict; the executor keeps what it was built from.

### CronService
Processes with a `Service` each over one file. Service operations that load and
save are two actions (`Open` and the operation), because the mutex does not
protect the file from other processes. `tick` is `TimerFires`, `TickLoads`,
`TickAdvances`, one `FinishDue` per job, `TickEnds`; `execute`'s critical section is
`Finish`; a round of the watcher is `WatchReloads` or `WatchFails`; `Exit` ends a
process at any point. A job is `[status, next]`; kinds `at`, `once`, `every`, `cron`
follow `computeNextRun`. `fresh` stands for the comparison of mtimes: another
process's write makes it false or, with `CoarseMtime`, may leave it true. `told`
and `fired` record what callers were told and how often the timer fired a job;
no action's guard depends on `fired`, and `told` only keeps ids from being
reused. Left out: names, payloads, outputs, the last status of a job, logging,
`knownIDs` (it serves a log line), a corrupt file.

### AgentRun, FlowParallel, FlowLoop
`AgentRun` is one agent as a process, several of them over one session and one
invocation whose `committed` flag the clones share. `Prepare`, `Commit` and
`AppendUser` are the head of `Run`; `Request`, `Generate` or `Streaming` and
`StreamEnds`, and `Persist` are the loop of `handle`; `ToolHandles`, `ToolAborts` and
`ToolStores` are the goroutines of `executeTools`, `ToolsDone` is `eg.Wait`;
`HandlerError` is an error that `handle` yields, which the retry middleware may
answer by running `handle` again. An agent that yields waits at "yield" for
`Answer`, which the flows provide:

- `FlowParallel`: each agent in a goroutine, `Send` into the bounded channel, `Close`
  after `eg.Wait`, `Receive` and `Return` of the caller. After the caller has
  returned the goroutines run on, as they do in the code until a context error
  reaches them; one that finds the channel full stays there.
- `FlowLoop`: the agents one after the other, for one round (sequential) or several
  (loop, with or without a condition), `Consume` passing each message to the
  consumer and remembering an exit request, `CheckRound` after the last agent.

The consumer is the runner: `Run` reads to the end, the caller of `RunStream` may
stop at any message, both stop at an error (`Wants`). A message is a kind, an
author, its unanswered tool calls and its exit action; all else is abstracted.
Models, tools, instructions and conditions are free choices; cancellation adds no
behaviour, since a model or a tool may return an error at any time. The provider
is external: it completes exactly one message, the last one of a stream, as the
providers under `contrib/` do. The session is the in-memory one without a
compressor (its `History` may still fail, as that of other sessions).

### McpClient
Clients with their `connectMutex`, the flags that are read outside it, and one
reconnect goroutine each (`LoopChecks` ... `LoopExits`); users that resolve, call
and close. `Locks` is the head of `connect`, `Dialed` and `DialFails` its end, with
the lock held in between. Sessions are numbered, `live` has those that are up, and
`Drop` is the server's doing. A user that finds the session nil after a concurrent
`Close` panics, as the code does (`Panics`). Transports and schemas are left out.

### Terminal
The update loop (`startTurn`, `handleSlash`, `quit`, `Escape`, `handleStream` with
`finishTurn`), the goroutine of each handler with its own channel (`Writes`,
`Returns`, `Reports`) and the goroutines of `waitStreamOrStop` (`Hears`), which hand
messages to the loop in no particular order. Slash commands are what their handlers
may answer. Scrolling, rendering and the simple mode are left out.

### ChatDaemon
A goroutine for each delivery and each cron run: `Arrives`, `Marks` and the prune of
the table (deduplication of Lark), `Handles` (session of the chat, commands), then a turn:
`Gets`, `Appends`, `Ensures` (`ensureTurnHistory`), `SaveBegins`, `SaveWrites`; `/clear`
is `Forgets` and `Removes`. `pruneProcessedMessages` decides under its lock (`Prunes`)
and goes through the table after the unlock: it looks at one entry (`PruneLooks`,
`Outdated`), deletes that id (`PruneDeletes`), whatever the entry is by then, and ends
(`PruneEnds`); it looks at each id once, in any order. `slowPrune`
records that a `Delete` came TTL or more after the clock of its prune was read; no guard
depends on it. `os.WriteFile` truncates and then writes, so a file is
absent, torn or a history. `Appends` may lose an entry when two turns append to
`rawHistory` at the same time, as the slice has no lock. `Crashes` leaves only the
files. `Worlds` are the daemons considered (channel, what users send, cron jobs,
time, restarts).

### CardWriter
`consume` and `emitToolEvents` make the calls of the writer; `WriteText`, `WriteEvent`,
the timer (`flush`), flush goroutines (`flushSync`, `Flushed`, with `mu` held while
the request is under way) and `Close`, which builds the final card under `mu` and
updates it without. A flush reads `cardID` when its request starts. A request may be
lost, or take effect while its answer is lost, and one that the server refuses counts
as sent, as in the code. Reactions and the layout of a card are left out.

### Recipe
`Validate`, `Build` and `BuildSessionOption` as operators over a recipe, with
templates as the sets of keys they refer to and values as their types. A registry of
tools maps keys to the names that the tools give themselves: `Validate` compares keys,
an agent finds its tools by name. A context that summarizes may have a model of its own
(`SummaryModel`). Then a run of the flow: `SubRuns` renders prompt and instruction with
the state; `SubEnds` saves the output, or ends the agent without one because a tool
asked for the end of the loop, or fails. Middlewares are left out.

### Skills
Trees of directories; `detectSkillRoots` and the checks of the loader, the paths
that models ask for and their normalisation, the tools, and script runs whose
children may keep the output open. The loader visits directories by depth and keeps
one unless a root that it already has claims it; the model says that as the set of
directories that no member of the set claims. `Clean` goes through the parts of a
path as `path.Clean` does. Names are opaque, so what `TrimSpace` and the rewriting of
backslashes make of one is given by tables (`Leading`, `Trailing`, `Backslashed`). The
workspace of a script has each file at its normalised path; of two scripts with the
same one either stays, and `content` is the file that lies where the script is run.

### Transcript
A session whose history several agents compress; each read and write of the state is a
step, `Folds` a call of the summarizer. A summary is the set of messages it covers.
`Reloads` is the session manager reading the session from its file between turns: JSON
turns the offset into a float64, which the compressor takes for none, while the
summary stays. `AnswerFails` is a call of the model that fails. `Window` is the other
compressor; its loop, which drops the oldest message while the rest is too big, is the
number of its passes (`DropOldest`), and `Total` is the sum that the token counter
runs up. `toOpenAI`, `toClaude` and `toGemini` keep roles, calls and results of
messages; `Final` is the message of a stream.

### CronAdmin
What tool and commands make of their inputs (`buildSchedule`, `parseScheduleFlags`,
`buildTask`, `cronPayloadFromFlags`), where the chat is the one that was named, or
else the session of the turn, which after `/session` need not be a chat; the heartbeat
command as three calls of the service with a kill in between, removal and runs by id,
the handler of a job. The store is a set: `ListJobs` sorts by the next run, so any job
that matches may be the first that the command finds. Each session has its own
heartbeat; "own" stands for a session that `AddJob` makes up, which nobody asks for
(`AdminAssumption`). Operations of the service are single steps; `CronService` has
their detail. The daemon has its list of jobs in memory (`loaded`), a run command one
of its own: operations load the file first if it was written since (mtimes of two
writes are taken to differ), but the end of a run (`JobEnds`) saves the list of its
process as it is. `disturbed` records that this list was outdated or that two
heartbeat commands overlapped; no guard depends on it.

### MC modules
`MCGraphTask` defines the graphs, `MCCron` the job mixes, `MCFlowParallel` and
`MCFlowLoop` the agents' limits and order. `MCLibrary` and `MCServices` put components
that do not touch each other side by side: the variable `part` picks one in the
initial state, only its actions are taken, and the variables of the others stay as
they are. So a run is the union of the runs of its parts, no product. The
constraint `Canonical` of `MCLibrary` drops graphs that differ only in names and stops
behind `Compile`; drops daemons and cards that differ only in the names of messages or
tool keys; gives daemons that only get texts two goroutines; keeps the longest history
to one provider and to calls that do not overlap; does not add the second cron job after
anything was disturbed, or when neither job is a turn of an agent; and does not go on
from a third card of one response.

Definitions marked "with a fault" next to an operation are plausible wrong
versions of it. No specification uses them; substituting one for the operation
must make TLC report the property it is meant for.

## 4. Runs

| Run | Instance | Shows |
|---|---|---|
| `graph_router` | five nodes, two routers, a join reached on paths of different length; parallel, checkpoints, two calls with crashes and failures between | safety of scheduling, skipping and restoring; refinement of `GraphFlow` |
| `graph_fan` | fan-out with a shortcut and a doubled edge; parallel, three calls | every call returns; success means the finish node ran and nothing failed |
| `graph_serial` | the router, serial, three calls | every call returns; success leaves the final checkpoint |
| `graph_parallel_final` | the fan-out, parallel | **violated**: success without the final checkpoint |
| `library` | see below | seven components, one property or two each |
| `cron_single` | one process, a one-shot job and a recurring one that is deleted after its run, two overlapping ticks, four instants | jobs fire once, stay off, stay stored, the timer never oversleeps, a run touches its own job only |
| `cron_live` | two processes, one job, coarse mtimes, reads that fail | a job that another process stored is executed although ticks and reloads fail now and then |
| `cron_save_fault` | as `cron_single`, saves fail | **violated**: a one-shot job fires twice |
| `agent_parallel` | two agents, one with context, two iterations, a channel with one place per agent, fresh and resumed, `Run` and `RunStream` | the user message enters the session once; no unanswered call is stored; a run that ends well delivered what it stored; every run ends |
| `agent_parallel_context` | the same | **violated**: a request without the user message |
| `agent_loop` | two agents in sequence or in up to two rounds, two concurrent tools, a retry | complete requests, session against consumer, exit and escalation, every flow ends |
| `services` | one MCP client with two users, two operations and three sessions; a terminal with two turns, two texts or events, one Esc, one command | closed clients stay closed and lost sessions come back; the view is what handlers wrote, and turns end |

The parts of `library`:

| Part | Instance | Property |
|---|---|---|
| `GraphCompile` | all graphs over three names with up to three edges | `CompileExact`: `Compile` accepts exactly the well-formed graphs, and none has a trap |
| `ChatDaemon` | four daemons: repeated deliveries with the clock, commands, restarts, a Weixin chat with cron jobs and restarts; three goroutines, two messages | `HandledOnce`, `TurnsKept` |
| `Recipe` | some thousand recipes with up to two sub agents, of all modes; a registry with a tool under its own name and one with another name | `ValidBuilds`, `ChainFills` |
| `Skills` | all trees over five skill directories, nested ones and one in a resource directory, and four files, one at a time or together, and trees with names that are trimmed, rewritten or refused; fourteen paths; one script | `FilesOwned` |
| `Transcript` | two agents, four messages (three where calls overlap, or the provider is not OpenAI), batches of two, three streams, reloads; a window of two messages, whose token limit may leave one | `ViewsExact` |
| `CronAdmin` | two callers, inputs of every schedule and payload, two jobs, one run at a time, lists in memory | `Administered` |
| `CardWriter` | three messages, two tool keys | `FinalShown`, `NeverBack` |

Bounds. `MaxRuns` limits the calls: two are enough for "run, fail or crash,
resume", three for resuming a resumed run. The router has the smallest
shape in which a skip and a taken edge meet at a join from branches of different
length and a second router can skip the finish node. Two ticks overlap when the
watcher re-arms the timer during a run. `MaxTime` lets the recurring job become
due again while its first run is under way. In `cron_live` one
job is enough since `DueFires` speaks of one job at a time.

The agents' limits (iterations, attempts, rounds) are all passed in some
behaviour. The channel of the code has eight places per agent and agents yield
more messages than that; one place per agent makes full channels appear with
short conversations. Two tool calls are enough for every order of setting an
action and merging it.

The services and the library. Three sessions let a session be lost, opened by a user
while the goroutine looks for it, and lost again; a second client would only
repeat the loop of `Resolve`. One message in a stream channel makes it full at once
(512 in the code). Two turns and one Esc are what a late end of one turn needs to
meet the next. Three goroutines of the daemon are two deliveries and a third party
that prunes, clears or saves; TTL is one instant of two. Four messages are a batch of
two, a recent one and one that came meanwhile. One job that runs is enough for the
end of a run to write back a list from before a removal. Wider bounds repeat
these cases. One does not: that a slow prune really costs a second handling takes five
deliveries of one message and five instants, outside the bounds of the run; the
condition `~slowPrune` of `HandledOnce` comes from that trace.

Deadlock is checked in all runs but `library`, whose recipes, skills and cron parts
may have nothing left to do within their bounds. Elsewhere a model that is through
stutters: `GraphTask` and the flows with `Done`, the MCP clients with `Idle`, the
terminal with `Over`; the cron service can always take a step.

Fairness. `GraphTask`: weak fairness of the main goroutine and of each node's
goroutine, i.e. the Go scheduler runs them and handlers return; nobody is obliged to
call, and crashes are not fair. `McpClient`: goroutines go on, calls of the SDK
return, and a server that is dialled again and again accepts in the end; servers need
not drop sessions. `Terminal`: the loop and the waiting goroutines go on; a handler
need not return, and nobody is obliged to press a key. `CronService`: an operation
holding the mutex goes on; the runtime starts the function of an expired timer;
goroutines that wait for a `sync.Mutex` get it (its starvation mode), hence strong
fairness of `TickLoads`, `FinishDue`, `TickEnds` and the watcher; handlers return,
since the bot handler gives commands and turns deadlines (a notification is sent on
the service's own context, service.go:165: that the send returns is assumed); a read
that fails now and then does not fail every time a tick needs it. Callers and the
clock are not fair. Flows: each agent's goroutine, the closing goroutine and the
caller go on, i.e. models, tools and conditions return, and the consumer takes the
next message or stops.

What the violated runs mean:
- `graph_parallel_final`: `checkTermination` may see `finished` before `nodeDone`
  of the finish node, and then no idle moment for the last checkpoint comes.
- `cron_save_fault`: a failed save of the advanced schedules is only logged.
- `agent_parallel_context`: the flag `committed` is set before the user message is
  appended; an agent that loses the race may load the session in between.

More is known that has no run of its own.

- Graph: a skipped finish node counts as visited, and the checkpoint written on the
  way out makes Resume report success with the state that was saved, which
  `StallReported` allows; in a *parallel* run of a router the error "no
  condition matched" can be lost, because it is recorded after the edges were
  passed on (add `OkSound` to `graph_router` for both). A node that the entry does
  not reach, but that leads to a join, is accepted by `Compile` and makes every run
  fail; `StallReported` therefore assumes that all nodes are reachable.
- Also in the graph: parallel nodes that return the same key overwrite each other;
  `Resume` reads the live edges of the builder, and writes into the maps of the
  checkpoint it was given. These concern callers and an external Checkpointer, and
  the model has one key per node and a fixed graph.
- Cron: when reads may fail, the watcher empties the job list before it reads the
  file, and a run that ends then saves the empty list (`AddedKept` with
  `Faults = {"read"}`); with two processes `execute` saves the job list without
  reloading it (`RunKeepsOthers`): a job that a command removed comes back and one that
  it added is lost, and a heartbeat that comes back is one of two after the next command
  (`Administered` without `disturbed`).
- Cron administration: after `/session` the tool takes the id of the new session for
  the chat, and the result is sent nowhere; a heartbeat with an empty session is not
  found again, so the next command adds another one; overlapping commands may both
  add; with both channels enabled results go out on Lark only; intervals below a
  millisecond are zero and refused.
- MCP: `ListTools` and `CallTool` use the session without the lock and panic after a
  concurrent `Close`; a `Connect` between a `Close` and the end of the old goroutine
  leaves a session that nobody watches, or, when that goroutine still runs, one that it
  drops (client.go:241); a slow `Resolve` may replace the cache by a
  shorter list.
- Terminal: after Esc two goroutines wait, and a late end of the old turn or a stop
  signal that nobody took ends the next turn at once; the partial text is shown
  with the message about the stop.
- Card: a flush that comes late puts the cursor back after `Close`; a `Close` that
  meets the first `sendCard` makes a second card; a second completed message that
  was not streamed is not written.
- Daemon: a redelivery after TTL is handled again, against the comment in
  `markMessageIfNew`; a prune that stalls for TTL between reading an entry and its
  `Delete` may delete a newer entry, and the next redelivery is handled again at once;
  a torn file makes the session unusable until `/clear`, and a turn that saves after
  `/clear` brings the session back; the comment of `Delete` says that the session in
  memory is not affected, and it is.
- Recipes: a summarize context passes `Validate` and fails later when its model, its own
  or the recipe's, is missing or not registered; tools registered under a key that is not
  their name may be indistinguishable for the agent; an agent that a tool ends before it
  has answered leaves its output key unset, and the prompt of a later one fails; the
  `context` of a sub agent is not used; a flow ignores its own instruction and tools.
- Skills: a timeout does not end a call while a child of the script keeps its output
  open; a file whose first part looks like a Windows volume cannot be asked for, and
  with such a file in a skill none of its scripts runs; a name with an outer space or a
  backslash is loaded but not found under its own path, and two scripts may end up in one
  place of the workspace.
- Transcript: overlapping calls of `Compress` store an offset and a summary that do
  not belong together; messages behind an empty summary are not told again; after a
  reload from the session file messages of the summary are also told verbatim; the
  Gemini provider sends results without their calls, and loses what follows a first
  chunk without candidates.

## 5. Proofs

`GraphTaskProofs` proves, for every well-formed graph, both modes and any number
of calls, crashes included (assumptions: `TopologyAssumption`, `TaskAssumption`):

- `TypeCorrect`: `Spec => []TypeOK`;
- `Invariance`: `Spec => []IInv`, the inductive invariant;
- `AtMostOnceHolds`, `JoinCompleteHolds`, `SkipSoundHolds`, `FinishLastHolds`;
- `LoopInvariance`: `Spec => []LInv`, a second inductive invariant;
- `CheckpointSoundHolds`, `StallReportedHolds`; `FinalCheckpointHolds` for serial
  runs (run `graph_parallel_final` refutes it for parallel ones); `OkSoundHolds` for
  graphs without routers (a router may lead nowhere after the decision for "ok");
- `FlowRefinement`: `Spec => ImplementsFlow`, the scheduler implements `GraphFlow`.

None of these properties is inductive: that a node is queued only once
depends on how many of its in-edges are still to be passed on. `IInv` says so:
for every unvisited node `remaining` is the number of its pending edges (source
not visited, or the edge still in the hands of a goroutine), `received` is
positive only if a predecessor really ran, queued and executing nodes have no pending
edge, an edge is in the hands of at most one goroutine, and every snapshot that
is being saved or was saved satisfies the same facts with nobody in flight.
Counting is by finite sets of edges; a step of `satisfy` takes exactly one edge
out of the pending set of its target, which is why the count and the set stay
together. `Resume` re-establishes `IInv` because with nothing in flight an edge is
pending exactly if its source is unvisited, which is what
`rebuildRemainingLocked` counts. `FinishLast` follows from the shape of the graph:
take a largest set of unvisited reachable nodes; acyclicity gives a member all of
whose successors are visited, and a visited successor has no pending edge.

`LInv` is about the loop of `run`, which `IInv` leaves open: every unvisited node
whose edges are all settled and that a predecessor led to is in the queue or with a
goroutine (`QueueComplete`), so an empty queue with nobody in flight means that
nothing is left to run (`StallOK`); progress that the last saved checkpoint lacks is
marked to be saved (`KeptOK`); a serial run has one node in flight at most, and only
while the loop waits for it (`SerialOK`); after the decision for "ok" no goroutine can
record an error (`ErrorOK`, by `FinishLast`). The refinement maps visited and executed
nodes, the last checkpoint and the state of the call to the variables of `GraphFlow`;
with both invariants every step of a goroutine is a step that resolves its node, every
other step a call, a save, a return or a stutter.

`AgentProofs` proves what the steps of an agent keep, whatever flow it is part
of; `FlowParallelProofs` and `FlowLoopProofs` conclude, for any agents, tools,
limits and capacity (assumptions: `AgentAssumption`, in which no agent has the name of
the user or of no author, `BufferAssumption`, and those of the loop):

- `ToolsAnsweredHolds`, `UserOnceHolds` and `PublishedHolds` of the parallel flow;
- `ActionsCurrentHolds`, `ExitObeyedHolds`, `SavedIsSeenHolds` and
  `ContextCompleteHolds` of the sequential flow and the loop.

`ToolInv` carries `ToolsAnswered` and `ActionsCurrent`. Goroutines of `executeTools`
exist only while their agent is at "tools", and until one of them aborts every open
call of the message has one: so when `eg.Wait` returns without an error, nothing is
open. The message's exit action differs from the shared action map only while a tool
that has returned still waits for the lock, and no action is taken back: so the last
tool that takes the lock brings the message up to date. `UserInv` carries
`UserOnce`: at most one agent is between the `CompareAndSwap` and its append, and
only while the session has no user message; the flag says that the message
is stored or about to be; nobody passes the flag, or ends well, before it is set.
Each step of an agent is an instance of a frame lemma (`PlainStep`, `UserFrame`)
that names what the step may change; the few steps that really touch an invariant
(`StartTools`, the tools, `Commit`, `AppendUser`) have proofs of their own.

What two sequences hold of an agent is compared by numbers: `Count(A, s, i)` messages
of the authors A are among the first i of s, and `Agree` says that messages with the
same number are equal. Appending raises one count by one, so no induction over the
sequences is needed. `AuthorInv` says who wrote what an agent has in hand.

- `ChannelInv` (parallel flow): what an agent has sent, taken by the consumer or
  still in the channel, is what the session holds of it plus the message that it is
  about to append; an error that `Run` has not taken is in the channel; the channel
  is closed after all agents are done. An "ok" with an empty, closed channel then
  leaves no room for a difference.
- `LoopShape`, `ExitInv` (loop): only the current agent works; the loop remembers the
  last exit request, also between the moment it takes it and the append of the
  message; requests come from agents of this round, and what follows one in
  the session comes from a later agent.
- `SavedInv` (loop): the consumer is ahead of the session by at most the message that
  the current agent is about to append.
- `CarryInv` (loop): what the next request is built from has the user message once
  and a tool result for each iteration so far, in the session or in the agent's own
  messages. In a parallel flow it does not hold: run `agent_parallel_context`.

`CronServiceProofs` assumes `OneProcess`: the daemon alone uses the workspace and no
file operation fails. Both are needed: run `cron_save_fault` shows `OneShotOnce`
violated when a save fails, and another process writes the file from what it read
before. For any jobs, schedules, calls and goroutines of the timer: `CronInvariance`
(`Spec => []CronInv`), `OneShotOnceHolds`, `OffStaysOffHolds`, `AddedKeptHolds`,
`TimerCoversHolds` and the action property `RunKeepsOthersHolds`. `CronInv` says that
memory is loaded wherever it is used and equals the file (`Synced`), that the
file agrees with what callers were told, also in the middle of an `AddJob`
(`ToldRight`), that a one-shot job which fired has no next run until it is enabled
again and any other job's next run is not later than one computed now (`Planned`), and
that the timer is armed early enough whenever no tick is under way (`Armed`).

`LibraryProofs`, on the users of the cron service: `AdministeredHolds`, for any
callers, inputs, sessions and number of jobs, under `NoneByHand`: nobody adds, with
the tool or the add command, a job that has the name, the prompt and the session of a
heartbeat; the command would take it for its own, and nothing keeps a second one from
being added. `AdminInv` says of every list, stored, in memory of the daemon or of a
run command, that ids are not used twice in it and that the handler can run its jobs;
that a heartbeat job is always on, kept after a run and not for one time; that of the
heartbeat commands only one is between its steps as long as nothing was disturbed; and
what that one has found out: before it adds there is no heartbeat job for its session,
before it removes there is no other than the one whose id it holds. Removal by others
and kills only take jobs or commands away, which keeps all of it.

`LibraryProofs`, on recipes: `ValidBuildsHolds` and `ChainFillsHolds`, for every
recipe, all values of parameters and any registries (`RecipeAssumption`). `RecipeInv`
says that what is built is what `Build` makes of the recipe and that the agents of a
sequential flow run in order, each output in the state once its agent has ended, unless
a tool ended it. That tools stay distinguishable needs that keys are names
(`NamesAreKeys`); the rest is a fact about concatenation, proved by positions.

`LibraryProofs`, on skills: `FilesOwnedHolds`, for all trees with finitely many
directories, all names and requests, and any tables of trimming and rewriting
(`SkillsAssumption`: no part of a file's path is empty, a dot or two dots; a resource
directory is a directory and no file; the names of resource directories are plain).
`SkillsInv` says that the skills are roots, that the last answer names a file of the
tree, and that every script run names a script of its skill, whose content lies at its
place in the workspace once it runs, if all scripts of the skill have plain names
(`PlainKept`: normalisation leaves these alone). Two lemmas do the work. `RootsExist`:
the roots are unique and exist although whether a directory is one depends on those
above it, by counting down from the least depth without an answer. `OneOwner`: of two
skills that own the same file one is above the other, so it claims the other's
directory, which then is no root. `CleanOrdinary` says that `path.Clean` leaves
ordinary names alone.

`LibraryProofs`, on the transcript: `ViewsExactHolds`, for any history, limits, batch
size and streams (`TranscriptAssumption`). `TranscriptInv`: as long as no calls
overlapped, one call at most is between its steps; the stored offset is before the
recent messages, and the stored summary covers the messages up to it and none of the
recent ones, exactly those up to it until a session with a summary was reloaded, except
between the two stores of a call, where that call's own pair does. A call stops folding
because the view is small enough or nothing is left to fold. The rest is about the
operators and holds of every sequence of messages: sums of sizes add up, so
what the loop of the window leaves is the longest end that fits (`WindowLongest`); each
message becomes a group of items in which calls and results pair up, and
concatenation keeps that (`FlattenPaired`, by positions), whatever part of the
history is sent.

`LibraryProofs`, on the compiler: `CompileExactHolds`, for every set of names and any
number of edges (`CompileAssumption`: the empty name is none of them). So the
assumption `WellFormed`, from which `GraphTaskProofs` starts, is what `Compile`
establishes. `CompileInv` has four parts. `Agreeing`: `edges` and `numbered` hold the
same edges, and for each node equally many that leave and that enter it, so the
dependency counts of `NewExecutor` are those of `GraphTopology`. `Searching`, for the
depth-first search: the calls of `visit` form a path without repetition, its nodes are
those in state visiting, the edges already followed lead to nodes in state visited or
along the path, no edge leaves the visited nodes, and no cycle lies among them.
Leaving a node keeps this, since its edges then all lead to visited nodes (`DfsLeave`,
`NoCycleMore`), and an edge back to the path closes a cycle (`DfsCycle`: the set of
nodes from there to the top has no last one). For the breadth-first search: nodes in
`seen` and `queue` are in every closed set that holds the entry, and edges of `seen`
lead to `seen` or `queue`, so an empty queue means that `seen` is such a set without
the finish node. `Judged`: what a verdict says of the graph holds until the graph
changes. `JudgedExact` translates this to `GraphTopology`.

`ServicesProofs`, on MCP: `SessionsHeldHolds`, for any clients and users
(`McpAssumption`; no user has the name of the loop). `McpInv`: whoever dials holds the
lock and found the client disconnected; after a Close the reconnect goroutine runs on
a cancelled context, and a user that still dials holds the lock that the Close waits
for; without a Close the goroutine waits for the client's own session.

`ServicesProofs`, on the terminal: `ViewFaithfulHolds`, for any turns, tools and
capacity of the channel (`TerminalAssumption`). `TerminalInv`: before the first Esc one
goroutine waits for the channel of the turn that is shown or has handed over one
message, nobody waits for another channel, and there is a number k such that the first
k items of the handler are shown and the others, the end of the turn behind them, are
handed over or in the channel in their order (`Flows`). So the end is handled after all
items, and `finishTurn` finds them shown. After an Esc this breaks down, as the
code does; what is left is that the last entry of the view, the only one that is
still written, is not one of the turns that ended before (`LastIsLater`).

`ChatProofs`, for any messages, tools, flushes, chats, goroutines, jobs and restarts:

- `FinalShownHolds`, `NeverBackHolds` of the card. `CardInv`: a card under way shows
  everything written so far, since the lock is held until it is sent; what cards show
  was written, and a tool shown as finished has finished so.
- `HandledOnceHolds`, `TurnsKeptHolds` of the daemon. `TableRight`: until a prune was
  slow, the entry of a message is the arrival of its last handling, and a missing
  entry means that every handling is older than the lifetime, because a prune uses a
  clock that was read before. `PrunersRight`: the clocks of two prunes are TTL apart,
  so a prune in time is alone, and the entry that it is about to delete is still an
  old one. `TurnInv`: objects of the manager belong to one session; a turn that has
  its session to itself works on the object in memory; the entries of a kept turn are
  in that object, in every copy that may still be written, and in the file.

Only model-checked: liveness (`Terminates`, `DueFires`, `Ends`, `Recovers`,
`TurnEnds`), since fairness is out of the prover's reach.

## 6. Not modelled

Configuration, workspace, logging, tracing, terminal rendering, the file and shell
tools and the memory store are conversions and input/output. The routing agent is one
choice of a model and one run; `Confirm`, the middlewares of graphs and recipes and
the stream adapters wrap one call each without state, and `stream.Merge` has no
caller. The audio and image models make one request. Code under `examples/` and
vendored code is left aside.
