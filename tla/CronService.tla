---------------------------- MODULE CronService ----------------------------
(***************************************************************************)
(* The persistent job scheduler of the blades command                      *)
(* (cmd/blades/internal/cron/service.go).  Every process that opens a      *)
(* workspace has a Service of its own; all of them share one store file.   *)
(* One Service, the daemon's, is started and runs the timer and the file   *)
(* watcher; the others serve single commands or a chat.                    *)
(*                                                                         *)
(* An operation holds Service.mu from its loadLocked to its saveLocked.    *)
(* The mutex is per process, so another process may write the file in      *)
(* between: such an operation is two actions.  Handlers run without the    *)
(* lock; a handler is under way from the step that hands a job to execute  *)
(* until the Finish step of that job.                                      *)
(*                                                                         *)
(* A job is its status and its NextRunAt.  Time is a number and 0 is the   *)
(* zero time.  Names, payloads, outputs and logging are left out.          *)
(***************************************************************************)
EXTENDS Naturals, FiniteSets, FiniteSetsExt

CONSTANTS
  Services,        \* the processes
  Daemon,          \* the one that calls Start
  Jobs,            \* job ids; an id is given out once
  Kind,            \* Schedule.Kind of each job: "at", "once", "every" or "cron"
  When,            \* Schedule.At of a one-shot job, the period of the others
  DeleteAfterRun,  \* jobs with that flag
  Ticks,           \* bound: goroutines of the timer at a time
  MaxTime,         \* bound: the clock
  CoarseMtime,     \* two writes of the file may have the same mtime
  Faults           \* operations on the file that may fail: "read", "save"

ASSUME CronAssumption ==
  /\ Daemon \in Services
  /\ Kind \in [Jobs -> {"at", "once", "every", "cron"}]
  /\ When \in [Jobs -> Nat \ {0}]
  /\ DeleteAfterRun \subseteq Jobs
  /\ MaxTime \in Nat
  /\ CoarseMtime \in BOOLEAN
  /\ Faults \subseteq {"read", "save"}

VARIABLES
  now,      \* the wall clock
  file,     \* the store file
  st,       \* Service.st: whether it is loaded, and its jobs
  fresh,    \* Service.lastMtime is the mtime of the file
  held,     \* the operation that holds Service.mu and has loaded, if any
  manual,   \* the job that a RunNow is executing, if any
  running,  \* Service.running of the daemon
  timer,    \* when the daemon's timer fires, 0 when there is none
  tick,     \* where the goroutines of the timer are
  due,      \* the jobs each of them is executing
  \* what the callers know
  told,     \* what the last call that returned said of the job
  fired     \* how often the timer fired a one-shot job since it was enabled, up to 2

vars == <<now, file, st, fresh, held, manual, running, timer, tick, due, told, fired>>

daemonVars == <<running, timer, tick, due>>
callVars   == <<told, fired>>

Absent == [status |-> "absent", next |-> 0]
Empty  == [j \in Jobs |-> Absent]
Unloaded == [loaded |-> FALSE, jobs |-> Empty]

Operations == {"add", "remove", "enable", "disable"}

OneShot(j) == Kind[j] \in {"at", "once"}

Init ==
  /\ now = 1
  /\ file = Empty
  /\ st = [s \in Services |-> Unloaded]
  /\ fresh = [s \in Services |-> FALSE]
  /\ held = [s \in Services |-> {}]
  /\ manual = [s \in Services |-> {}]
  /\ running = FALSE
  /\ timer = 0
  /\ tick = [t \in Ticks |-> "idle"]
  /\ due = [t \in Ticks |-> {}]
  /\ told = [j \in Jobs |-> "new"]
  /\ fired = [j \in Jobs |-> 0]

-----------------------------------------------------------------------------
\* computeNextRun(schedule, base), the legacy kind "once" included.
computeNextRun(j, base) ==
  CASE OneShot(j) -> IF When[j] > base THEN When[j] ELSE 0
    [] Kind[j] = "every" -> base + When[j]
    [] Kind[j] = "cron" -> (base \div When[j] + 1) * When[j]

\* nextWakeLocked: the earliest run of an enabled job, 0 if there is none.
nextWakeLocked(jobs) ==
  LET wakes == {jobs[j].next : j \in {k \in Jobs : jobs[k].status = "on"}} \ {0}
  IN  IF wakes = {} THEN 0 ELSE Min(wakes)

\* armTimerLocked: what the timer of service s becomes.  A wake-up that is
\* overdue fires at once.
armTimerLocked(s, jobs) ==
  IF s # Daemon THEN timer ELSE IF running THEN nextWakeLocked(jobs) ELSE 0

\* Service.mu
Unlocked(s) == held[s] = {} /\ (s = Daemon => \A t \in Ticks : tick[t] # "locked")

(***************************************************************************)
(* loadLocked: st is kept when it is loaded and the file has the mtime it  *)
(* was loaded with.  Otherwise the file is read, which may fail and leaves *)
(* st unloaded.  A file that does not exist is an empty one.               *)
(***************************************************************************)
NeedsRead(s) == ~ (st[s].loaded /\ fresh[s])

Load(s) ==
  /\ st' = [st EXCEPT ![s] = IF NeedsRead(s) THEN [loaded |-> TRUE, jobs |-> file] ELSE @]
  /\ fresh' = [fresh EXCEPT ![s] = TRUE]

LoadError(s) ==
  /\ "read" \in Faults
  /\ NeedsRead(s)
  /\ st' = [st EXCEPT ![s] = Unloaded]
  /\ fresh' = [fresh EXCEPT ![s] = TRUE]

(***************************************************************************)
(* saveLocked: st, with the new jobs, replaces the file (a rename), or an  *)
(* error leaves the file alone.  The other services see a new mtime.       *)
(***************************************************************************)
SaveOutcomes == IF "save" \in Faults THEN BOOLEAN ELSE {TRUE}

saveLocked(s, jobs, ok) ==
  /\ st' = [st EXCEPT ![s].jobs = jobs]
  /\ file' = IF ok THEN jobs ELSE file
  /\ fresh' \in {f \in [Services -> BOOLEAN] :
                   IF ok THEN /\ f[s]
                              /\ \A o \in Services \ {s} : f[o] => CoarseMtime /\ fresh[o]
                         ELSE f = fresh}

-----------------------------------------------------------------------------
(***************************************************************************)
(* AddJob, RemoveJob and EnableJob: lock and load, then change and save.   *)
(***************************************************************************)
Open(s, op, j) ==
  /\ Unlocked(s)
  /\ IF op = "add"
       THEN told[j] = "new" /\ \A o \in Services : <<op, j>> \notin held[o]
       ELSE told[j] # "new"
  /\ \/ /\ Load(s)
        /\ held' = [held EXCEPT ![s] = {<<op, j>>}]
     \/ /\ LoadError(s)
        /\ UNCHANGED held
  /\ UNCHANGED <<now, file, manual, daemonVars, callVars>>

UnsavedChange(s, j, new, answer) ==  \* with a fault
  /\ st' = [st EXCEPT ![s].jobs[j] = new]
  /\ timer' = armTimerLocked(s, st'[s].jobs)
  /\ told' = [told EXCEPT ![j] = answer]
  /\ UNCHANGED <<file, fresh>>

\* The change, the save, the timer, and what the caller is told.
Change(s, j, new, answer) ==
  LET jobs == [st[s].jobs EXCEPT ![j] = new]
  IN  \E ok \in SaveOutcomes :
        /\ saveLocked(s, jobs, ok)
        /\ timer' = IF ok THEN armTimerLocked(s, jobs) ELSE timer
        /\ told' = [told EXCEPT ![j] = IF ok THEN answer ELSE "unsure"]

AddJob(s, j) ==
  /\ held[s] = {<<"add", j>>}
  /\ held' = [held EXCEPT ![s] = {}]
  /\ LET next == computeNextRun(j, now)
     IN  \/ next # 0 /\ Change(s, j, [status |-> "on", next |-> next], "on")
         \/ next = 0 /\ UNCHANGED <<file, st, fresh, timer, told>>
  /\ UNCHANGED <<now, manual, running, tick, due, fired>>

RemoveJob(s, j) ==
  /\ held[s] = {<<"remove", j>>}
  /\ held' = [held EXCEPT ![s] = {}]
  /\ \/ st[s].jobs[j] # Absent /\ Change(s, j, Absent, "gone")
     \/ st[s].jobs[j] = Absent /\ UNCHANGED <<file, st, fresh, timer, told>>
  /\ UNCHANGED <<now, manual, running, tick, due, fired>>

EnableJob(s, j, enable) ==
  /\ held[s] = {<<IF enable THEN "enable" ELSE "disable", j>>}
  /\ held' = [held EXCEPT ![s] = {}]
  /\ \/ /\ st[s].jobs[j] # Absent
        /\ IF enable
             THEN Change(s, j, [status |-> "on", next |-> computeNextRun(j, now)], "on")
             ELSE Change(s, j, [status |-> "off", next |-> 0], "off")
        /\ fired' = [fired EXCEPT ![j] = IF enable THEN 0 ELSE @]
     \/ /\ st[s].jobs[j] = Absent
        /\ UNCHANGED <<file, st, fresh, timer, told, fired>>
  /\ UNCHANGED <<now, manual, running, tick, due>>

\* ListJobs, and with it StaleJobs: only the load changes anything.
ListJobs(s) ==
  /\ Unlocked(s)
  /\ Load(s) \/ LoadError(s)
  /\ UNCHANGED <<now, file, held, manual, daemonVars, callVars>>

\* RunNow up to the call of execute.
RunNow(s, j) ==
  /\ Unlocked(s)
  /\ manual[s] = {}
  /\ \/ /\ Load(s)
        /\ manual' = [manual EXCEPT ![s] = IF st'[s].jobs[j] # Absent THEN {j} ELSE {}]
     \/ /\ LoadError(s)
        /\ UNCHANGED manual
  /\ UNCHANGED <<now, file, held, daemonVars, callVars>>

-----------------------------------------------------------------------------
\* What becomes of a job that is due or has run.
NotAdvanced(j, job) == job  \* with a fault
Advance(j, job) ==
  IF Kind[j] = "at"
    THEN [status |-> "off", next |-> 0]
    ELSE [job EXCEPT !.next = computeNextRun(j, now)]

\* With a fault: the job is switched on again; a one-shot job is always
\* removed.
Revived(j, job) == IF j \in DeleteAfterRun THEN Absent ELSE [Advance(j, job) EXCEPT !.status = "on"]
OneShotRemoved(j, job) == IF Kind[j] = "at" THEN Absent ELSE Advance(j, job)
AfterRun(j, job) == IF j \in DeleteAfterRun THEN Absent ELSE Advance(j, job)

(***************************************************************************)
(* execute after the handler returned: there is no loadLocked, the change  *)
(* goes into st as it is and st is saved even when the job is gone.  The   *)
(* error of the save is dropped.                                           *)
(***************************************************************************)
Finish(s, j) ==
  LET job  == st[s].jobs[j]
      jobs == IF job = Absent THEN st[s].jobs
              ELSE [st[s].jobs EXCEPT ![j] = AfterRun(j, job)]
  IN  /\ Unlocked(s)
      /\ \E ok \in SaveOutcomes :
           /\ saveLocked(s, jobs, ok)
           /\ told' = IF job # Absent /\ j \in DeleteAfterRun
                        THEN [told EXCEPT ![j] = IF ok THEN "gone" ELSE "unsure"]
                        ELSE told

FinishManual(s, j) ==
  /\ j \in manual[s]
  /\ Finish(s, j)
  /\ manual' = [manual EXCEPT ![s] = {}]
  /\ UNCHANGED <<now, held, daemonVars, fired>>

-----------------------------------------------------------------------------
(***************************************************************************)
(* The daemon: Start, Stop, the timer, tick and watchFile.                 *)
(***************************************************************************)
Start ==
  /\ ~ running
  /\ Unlocked(Daemon)
  /\ \/ /\ Load(Daemon)
        /\ running' = TRUE
        /\ timer' = nextWakeLocked(st'[Daemon].jobs)
     \/ /\ LoadError(Daemon)
        /\ UNCHANGED <<running, timer>>
  /\ UNCHANGED <<now, file, held, manual, tick, due, callVars>>

Stop ==
  /\ running
  /\ Unlocked(Daemon)
  /\ running' = FALSE
  /\ timer' = 0
  /\ UNCHANGED <<now, file, st, fresh, held, manual, tick, due, callVars>>

\* time.AfterFunc: the goroutine of a tick starts and waits for the lock.
TimerFires(t) ==
  /\ timer # 0 /\ timer <= now
  /\ tick[t] = "idle"
  /\ tick' = [tick EXCEPT ![t] = "fired"]
  /\ timer' = 0
  /\ UNCHANGED <<now, file, st, fresh, held, manual, running, due, callVars>>

\* tick: a load error ends it, with no timer armed.
TickLoads(t) ==
  /\ tick[t] = "fired"
  /\ Unlocked(Daemon)
  /\ \/ /\ Load(Daemon)
        /\ tick' = [tick EXCEPT ![t] = "locked"]
     \/ /\ LoadError(Daemon)
        /\ tick' = [tick EXCEPT ![t] = "idle"]
  /\ UNCHANGED <<now, file, held, manual, running, timer, due, callVars>>

IsDue(job) == job.status = "on" /\ job.next # 0 /\ job.next <= now

\* The due jobs are advanced and saved before they are executed.
TickAdvances(t) ==
  LET jobs == st[Daemon].jobs
      ripe == {j \in Jobs : IsDue(jobs[j])}
  IN  /\ tick[t] = "locked"
      /\ tick' = [tick EXCEPT ![t] = "executing"]
      /\ due' = [due EXCEPT ![t] = ripe]
      /\ fired' = [j \in Jobs |-> IF j \in ripe /\ OneShot(j) /\ fired[j] < 2
                                  THEN fired[j] + 1 ELSE fired[j]]
      /\ \/ /\ ripe = {}
            /\ UNCHANGED <<file, st, fresh>>
         \/ /\ ripe # {}
            /\ \E ok \in SaveOutcomes :
                 saveLocked(Daemon,
                            [j \in Jobs |-> IF j \in ripe THEN Advance(j, jobs[j]) ELSE jobs[j]],
                            ok)
      /\ UNCHANGED <<now, held, manual, running, timer, told>>

FinishDue(t, j) ==
  /\ j \in due[t]
  /\ Finish(Daemon, j)
  /\ due' = [due EXCEPT ![t] = @ \ {j}]
  /\ UNCHANGED <<now, held, manual, running, timer, tick, fired>>

\* After wg.Wait: the timer is armed again.
NotRearmed(t) ==  \* with a fault
  /\ tick[t] = "executing" /\ due[t] = {}
  /\ Unlocked(Daemon)
  /\ tick' = [tick EXCEPT ![t] = "idle"]
  /\ UNCHANGED <<now, file, st, fresh, held, manual, running, timer, due, callVars>>
TickEnds(t) ==
  /\ tick[t] = "executing" /\ due[t] = {}
  /\ Unlocked(Daemon)
  /\ tick' = [tick EXCEPT ![t] = "idle"]
  /\ timer' = armTimerLocked(Daemon, st[Daemon].jobs)
  /\ UNCHANGED <<now, file, st, fresh, held, manual, running, due, callVars>>

(***************************************************************************)
(* One round of watchFile: st is dropped and read again, whatever the      *)
(* mtime, and the timer is armed for what was read.                        *)
(***************************************************************************)
WatchByMtime ==  \* with a fault: st is kept when the mtime is unchanged
  /\ running
  /\ Unlocked(Daemon)
  /\ Load(Daemon)
  /\ timer' = armTimerLocked(Daemon, st'[Daemon].jobs)
  /\ UNCHANGED <<now, file, held, manual, running, tick, due, callVars>>
WatchReloads ==
  /\ running
  /\ Unlocked(Daemon)
  /\ st' = [st EXCEPT ![Daemon] = [loaded |-> TRUE, jobs |-> file]]
  /\ fresh' = [fresh EXCEPT ![Daemon] = TRUE]
  /\ timer' = armTimerLocked(Daemon, file)
  /\ UNCHANGED <<now, file, held, manual, running, tick, due, callVars>>

WatchFails ==
  /\ "read" \in Faults
  /\ running
  /\ Unlocked(Daemon)
  /\ st' = [st EXCEPT ![Daemon] = Unloaded]
  /\ fresh' = [fresh EXCEPT ![Daemon] = TRUE]
  /\ UNCHANGED <<now, file, held, manual, daemonVars, callVars>>

\* The process of s ends, by itself or by a crash, and a new one takes its place.
Exit(s) ==
  /\ st' = [st EXCEPT ![s] = Unloaded]
  /\ fresh' = [fresh EXCEPT ![s] = FALSE]
  /\ held' = [held EXCEPT ![s] = {}]
  /\ manual' = [manual EXCEPT ![s] = {}]
  /\ \/ /\ s = Daemon
        /\ running' = FALSE /\ timer' = 0
        /\ tick' = [t \in Ticks |-> "idle"] /\ due' = [t \in Ticks |-> {}]
     \/ /\ s # Daemon
        /\ UNCHANGED daemonVars
  /\ UNCHANGED <<now, file, callVars>>

Clock == now <= MaxTime /\ now' = now + 1
         /\ UNCHANGED <<file, st, fresh, held, manual, daemonVars, callVars>>

-----------------------------------------------------------------------------
Call(s, j) ==
  \/ \E op \in Operations : Open(s, op, j)
  \/ RunNow(s, j)

Commit(s, j) ==
  AddJob(s, j) \/ RemoveJob(s, j) \/ EnableJob(s, j, TRUE) \/ EnableJob(s, j, FALSE)

Tick(t) ==
  TickLoads(t) \/ TickAdvances(t) \/ (\E j \in Jobs : FinishDue(t, j)) \/ TickEnds(t)

Next ==
  \/ \E s \in Services : ListJobs(s) \/ Exit(s)
  \/ \E s \in Services, j \in Jobs : Call(s, j) \/ Commit(s, j) \/ FinishManual(s, j)
  \/ Start \/ Stop
  \/ \E t \in Ticks : TimerFires(t) \/ Tick(t)
  \/ WatchReloads \/ WatchFails
  \/ Clock

Spec == Init /\ [][Next]_vars

(***************************************************************************)
(* An operation that holds the mutex goes on, the runtime starts an        *)
(* expired timer's function, handlers return (NewBotHandler gives each one *)
(* a deadline), and a goroutine that waits for a sync.Mutex gets it in the *)
(* end, whoever else keeps taking it.  The watcher's ticker keeps ticking, *)
(* and reading the file does not fail for ever.                            *)
(***************************************************************************)
Fairness ==
  /\ \A s \in Services, j \in Jobs : WF_vars(Commit(s, j))
  /\ WF_vars(\E t \in Ticks : TimerFires(t))
  /\ \A t \in Ticks : /\ SF_vars(TickLoads(t) /\ tick'[t] = "locked")
                       /\ WF_vars(TickAdvances(t))
                       /\ SF_vars(TickEnds(t))
  /\ \A t \in Ticks, j \in Jobs : SF_vars(FinishDue(t, j))
  /\ SF_vars(WatchReloads)

FairSpec == Spec /\ Fairness

-----------------------------------------------------------------------------
(***************************************************************************)
(* Properties.                                                             *)
(***************************************************************************)

(***************************************************************************)
(* "ScheduleAt fires the job once": between two calls that enable it, the  *)
(* timer hands a one-shot job to the handler at most once, however ticks,  *)
(* reloads of the file, restarts and RunNow interleave.                    *)
(***************************************************************************)
OneShotOnce == \A j \in Jobs : OneShot(j) => fired[j] <= 1

(***************************************************************************)
(* A job that a caller removed, or that was deleted after its run, does    *)
(* not come back, and a disabled one is not switched on by a run that was  *)
(* already under way: neither the file nor the daemon's memory holds it.   *)
(***************************************************************************)
OffStaysOff ==
  \A j \in Jobs :
     /\ told[j] = "gone" => file[j] = Absent /\ st[Daemon].jobs[j] = Absent
     /\ told[j] = "off"  => file[j].status # "on" /\ st[Daemon].jobs[j].status # "on"

(***************************************************************************)
(* The store is persistent: a job whose AddJob returned without an error   *)
(* is in the file until a call removes it or it is deleted after its run.  *)
(***************************************************************************)
AddedKept == \A j \in Jobs : told[j] \in {"on", "off"} => file[j] # Absent

(***************************************************************************)
(* The timer never oversleeps: while the service runs and no tick is under *)
(* way, the timer is armed for the earliest enabled job in memory or       *)
(* earlier.                                                                *)
(***************************************************************************)
TimerCovers ==
  running /\ held[Daemon] = {} /\ (\A t \in Ticks : tick[t] = "idle") =>
    \A j \in Jobs :
      LET job == st[Daemon].jobs[j]
      IN  job.status = "on" /\ job.next # 0 => timer # 0 /\ timer <= job.next

(***************************************************************************)
(* A run touches its own job only: what execute saves after the handler of *)
(* one job returned leaves every other job in the file as it was.          *)
(***************************************************************************)
Finished(j) ==
  \/ \E t \in Ticks : due[t] \ due'[t] = {j}
  \/ \E s \in Services : manual[s] \ manual'[s] = {j}

RunKeepsOthers ==
  [][\A j \in Jobs : Finished(j) => \A k \in Jobs \ {j} : file'[k] = file[k]]_vars

(***************************************************************************)
(* A job that is due while the service runs is executed, or somebody       *)
(* changes it, or the service stops; also when another process added it    *)
(* behind the service's back or reading the file fails now and then.       *)
(***************************************************************************)
Executing(j) == (\E t \in Ticks : j \in due[t]) \/ (\E s \in Services : j \in manual[s])

DueFires ==
  \A j \in Jobs :
     (running /\ IsDue(file[j])) ~>
        (Executing(j) \/ ~ (running /\ IsDue(file[j])))
=============================================================================
