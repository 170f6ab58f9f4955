------------------------- MODULE CronServiceProofs -------------------------
(***************************************************************************)
(* Proofs about CronService: one process that has the workspace to itself  *)
(* and whose file operations succeed, with any set of jobs, any schedules  *)
(* and any number of goroutines of the timer.                              *)
(***************************************************************************)
EXTENDS CronService, WellFoundedInduction, TLAPS

Job == {Absent} \cup [status : {"on", "off"}, next : Nat]

CronTypes ==
  /\ now \in Nat \ {0} /\ timer \in Nat /\ running \in BOOLEAN
  /\ file \in [Jobs -> Job]
  /\ st \in [Services -> [loaded : BOOLEAN, jobs : [Jobs -> Job]]]
  /\ fresh \in [Services -> BOOLEAN]
  /\ held \in [Services -> SUBSET (Operations \X Jobs)]
  /\ manual \in [Services -> SUBSET Jobs]
  /\ tick \in [Ticks -> {"idle", "fired", "locked", "executing"}]
  /\ due \in [Ticks -> SUBSET Jobs]
  /\ told \in [Jobs -> {"new", "on", "off", "gone"}]
  /\ fired \in [Jobs -> Nat]

(***************************************************************************)
(* The inductive invariant.                                                *)
(***************************************************************************)
\* What is in memory is what is in the file, and whoever works on it has
\* loaded it.
Synced ==
  /\ st[Daemon].loaded => fresh[Daemon] /\ st[Daemon].jobs = file
  /\ ~ st[Daemon].loaded => st[Daemon].jobs = Empty
  /\ running \/ held[Daemon] # {} \/ manual[Daemon] # {} => st[Daemon].loaded
  /\ \A t \in Ticks : /\ tick[t] \in {"locked", "executing"} => st[Daemon].loaded
                      /\ tick[t] # "executing" => due[t] = {}

\* The file agrees with what callers were told.
ToldRight ==
  /\ \A j \in Jobs : <<"add", j>> \in held[Daemon] => told[j] = "new"
  /\ \A j \in Jobs : /\ told[j] = "new" => file[j] = Absent /\ fired[j] = 0
                     /\ told[j] = "gone" => file[j] = Absent
                     /\ told[j] = "off" => file[j].status # "on"
                     /\ told[j] \in {"on", "off"} => file[j] # Absent

\* A one-shot job that has no time left, or that has fired, is past its time; the
\* next run of any other job is not later than one computed now.
Planned(j) ==
  /\ file[j].status = "on" =>
       IF OneShot(j) THEN file[j].next = When[j] \/ (file[j].next = 0 /\ When[j] <= now)
       ELSE file[j].next # 0 /\ file[j].next <= computeNextRun(j, now)
  /\ OneShot(j) /\ fired[j] # 0 =>
       /\ fired[j] = 1 /\ When[j] <= now
       /\ file[j].status = "on" => file[j].next = 0

\* The timer is armed, also while a call holds the lock.
Armed ==
  running /\ (\A t \in Ticks : tick[t] = "idle") =>
    \A j \in Jobs : file[j].status = "on" /\ file[j].next # 0 => timer # 0 /\ timer <= file[j].next

CronInv == CronTypes /\ Synced /\ ToldRight /\ (\A j \in Jobs : Planned(j)) /\ Armed

-----------------------------------------------------------------------------
\* Facts about the operators.

\* A set of numbers that is not empty has a least one, which Min picks.
LEMMA MinLeast ==
  ASSUME NEW S, S \subseteq Nat, S # {}
  PROVE  Min(S) \in S /\ \A y \in S : Min(S) <= y
  <1>1. \E R : IsWellFoundedOn(R, Nat) /\ \A x, y \in Nat : x < y => <<x, y>> \in R
    <2>1. \A x, y \in Nat : x < y => <<x, y>> \in OpToRel(<, Nat)
      BY DEF OpToRel
    <2> QED
      BY <2>1, NatLessThanWellFounded
  <1>2. PICK R : IsWellFoundedOn(R, Nat) /\ \A x, y \in Nat : x < y => <<x, y>> \in R
    BY <1>1
  <1>3. PICK x \in S : \A y \in S : ~ (<<y, x>> \in R)
    <2>1. IsWellFoundedOn(R, Nat) /\ S \subseteq Nat /\ S # {}
      BY <1>2
    <2>2. \E x \in S : \A y \in S : ~ (<<y, x>> \in R)
      BY ONLY <2>1, WFMin, Zenon
    <2> QED
      BY <2>2
  <1>4. \A y \in S : x <= y
    <2> SUFFICES ASSUME NEW y \in S, ~ (x <= y) PROVE FALSE
      OBVIOUS
    <2>1. y \in Nat /\ x \in Nat /\ y < x
      OBVIOUS
    <2> QED
      BY <1>2, <1>3, <2>1
  <1> QED
    BY <1>4 DEF Min

\* A later base never gives an earlier multiple of the period.
LEMMA LaterMultiple ==
  ASSUME NEW a \in Nat, NEW b \in Nat, NEW w \in Nat \ {0}, a <= b
  PROVE  (a \div w + 1) * w <= (b \div w + 1) * w
  <1> DEFINE p == a \div w
             q == b \div w
  <1>1. p \in Nat /\ a = p * w + (a % w) /\ a % w \in 0 .. w - 1
    OBVIOUS
  <1>2. q \in Nat /\ b = q * w + (b % w) /\ b % w \in 0 .. w - 1
    OBVIOUS
  <1> HIDE DEF p, q
  <1>3. p * w <= q * w + (w - 1)
    BY <1>1, <1>2
  <1>4. p <= q
    <2> SUFFICES ASSUME q + 1 <= p PROVE FALSE
      BY <1>1, <1>2
    <2>1. (q + 1) * w <= p * w
      BY <1>1, <1>2
    <2> QED
      BY <1>1, <1>2, <1>3, <2>1
  <1>5. (p + 1) * w <= (q + 1) * w
    BY <1>1, <1>2, <1>4
  <1> QED
    BY <1>5 DEF p, q

\* One process has the workspace to itself, and its file operations succeed.
OneProcess == Services = {Daemon} /\ Faults = {}

\* computeNextRun of a one-shot job: its time, until it has passed.
LEMMA NextOfOneShot ==
  ASSUME NEW j \in Jobs, OneShot(j), NEW base \in Nat
  PROVE  /\ computeNextRun(j, base) = IF When[j] > base THEN When[j] ELSE 0
         /\ computeNextRun(j, base) \in Nat
  BY CronAssumption DEF computeNextRun, OneShot

\* computeNextRun of any other job: after the base, and not earlier for a later base.
LEMMA NextOfOthers ==
  ASSUME NEW j \in Jobs, ~ OneShot(j), NEW a \in Nat, NEW b \in Nat, a <= b
  PROVE  /\ computeNextRun(j, a) \in Nat \ {0} /\ computeNextRun(j, b) \in Nat \ {0}
         /\ computeNextRun(j, a) <= computeNextRun(j, b)
  <1>1. When[j] \in Nat \ {0} /\ Kind[j] \in {"every", "cron"}
    BY CronAssumption DEF OneShot
  <1>2. CASE Kind[j] = "every"
    BY <1>1, <1>2 DEF computeNextRun, OneShot
  <1>3. CASE Kind[j] = "cron"
    <2> DEFINE n(x) == (x \div When[j] + 1) * When[j]
    <2>1. computeNextRun(j, a) = n(a) /\ computeNextRun(j, b) = n(b)
      BY <1>3 DEF computeNextRun, OneShot
    <2>2. n(a) <= n(b)
      BY <1>1, LaterMultiple
    <2>3. \A x \in Nat : n(x) \in Nat \ {0}
      <3> SUFFICES ASSUME NEW x \in Nat PROVE n(x) \in Nat \ {0}
        OBVIOUS
      <3> DEFINE q == x \div When[j]
                 w == When[j]
      <3>1. q \in Nat /\ w \in Nat \ {0}
        BY <1>1
      <3> HIDE DEF q, w
      <3>2. (q + 1) * w \in Nat /\ (q + 1) * w # 0
        BY <3>1
      <3> QED
        BY <3>2 DEF q, w
    <2> QED
      BY <2>1, <2>2, <2>3
  <1> QED
    BY <1>1, <1>2, <1>3

\* computeNextRun gives a time.
LEMMA NextType ==
  ASSUME NEW j \in Jobs, NEW base \in Nat
  PROVE  computeNextRun(j, base) \in Nat
  <1>1. CASE OneShot(j)
    BY <1>1, NextOfOneShot
  <1>2. CASE ~ OneShot(j)
    <2>1. base <= base
      OBVIOUS
    <2> QED
      BY <1>2, <2>1, NextOfOthers
  <1> QED
    BY <1>1, <1>2

\* nextWakeLocked is a time that no enabled job precedes.
LEMMA WakeCovers ==
  ASSUME NEW jobs \in [Jobs -> Job]
  PROVE  /\ nextWakeLocked(jobs) \in Nat
         /\ \A j \in Jobs : jobs[j].status = "on" /\ jobs[j].next # 0 =>
              nextWakeLocked(jobs) # 0 /\ nextWakeLocked(jobs) <= jobs[j].next
  <1> DEFINE wakes == {jobs[j].next : j \in {k \in Jobs : jobs[k].status = "on"}} \ {0}
  <1>1. nextWakeLocked(jobs) = IF wakes = {} THEN 0 ELSE Min(wakes)
    BY DEF nextWakeLocked
  <1>2. wakes \subseteq Nat \ {0}
    BY DEF Job, Absent
  <1>3. \A j \in Jobs : jobs[j].status = "on" /\ jobs[j].next # 0 => jobs[j].next \in wakes
    OBVIOUS
  <1> HIDE DEF wakes
  <1>4. wakes # {} => Min(wakes) \in wakes /\ \A y \in wakes : Min(wakes) <= y
    BY <1>2, MinLeast
  <1>5. CASE wakes = {}
    <2>1. nextWakeLocked(jobs) = 0
      BY <1>1, <1>5
    <2> QED
      BY <1>3, <1>5, <2>1
  <1>6. CASE wakes # {}
    <2>1. nextWakeLocked(jobs) \in wakes /\ \A y \in wakes : nextWakeLocked(jobs) <= y
      BY <1>1, <1>4, <1>6
    <2> QED
      BY <1>2, <1>3, <2>1
  <1> QED
    BY <1>5, <1>6

\* loadLocked leaves what the file holds in memory.
LEMMA Loaded ==
  ASSUME CronInv, OneProcess, Load(Daemon)
  PROVE  /\ st'[Daemon].loaded /\ st'[Daemon].jobs = file /\ fresh'[Daemon]
         /\ st' \in [Services -> [loaded : BOOLEAN, jobs : [Jobs -> Job]]]
         /\ fresh' \in [Services -> BOOLEAN]
  <1> DEFINE read == [loaded |-> TRUE, jobs |-> file]
  <1>0. Daemon \in Services
    BY CronAssumption
  <1>1. read \in [loaded : BOOLEAN, jobs : [Jobs -> Job]] /\ read.loaded /\ read.jobs = file
    BY DEF CronInv, CronTypes
  <1> HIDE DEF read
  <1>2. /\ st' = [st EXCEPT ![Daemon] = IF NeedsRead(Daemon) THEN read ELSE st[Daemon]]
        /\ fresh' = [fresh EXCEPT ![Daemon] = TRUE]
    BY DEF Load, read
  <1>3. ~ NeedsRead(Daemon) => st[Daemon].loaded /\ st[Daemon].jobs = file
    BY DEF CronInv, Synced, NeedsRead
  <1> QED
    BY <1>0, <1>1, <1>2, <1>3 DEF CronInv, CronTypes

\* saveLocked, which does not fail, leaves in the file what is in memory.
LEMMA Saved ==
  ASSUME CronInv, OneProcess, NEW jobs \in [Jobs -> Job], NEW ok \in SaveOutcomes,
         saveLocked(Daemon, jobs, ok)
  PROVE  /\ ok /\ file' = jobs /\ st'[Daemon].jobs = jobs
         /\ st'[Daemon].loaded = st[Daemon].loaded /\ fresh'[Daemon]
         /\ st' \in [Services -> [loaded : BOOLEAN, jobs : [Jobs -> Job]]]
         /\ fresh' \in [Services -> BOOLEAN]
  <1>0. Daemon \in Services
    BY CronAssumption
  <1>1. ok
    BY DEF SaveOutcomes, OneProcess
  <1>2. file' = jobs /\ fresh' \in [Services -> BOOLEAN] /\ fresh'[Daemon]
    BY <1>0, <1>1 DEF saveLocked
  <1>3. st' = [st EXCEPT ![Daemon].jobs = jobs]
    BY DEF saveLocked
  <1>4. st \in [Services -> [loaded : BOOLEAN, jobs : [Jobs -> Job]]]
    BY DEF CronInv, CronTypes
  <1>5. /\ st'[Daemon].jobs = jobs /\ st'[Daemon].loaded = st[Daemon].loaded
        /\ st' \in [Services -> [loaded : BOOLEAN, jobs : [Jobs -> Job]]]
    BY <1>0, <1>3, <1>4
  <1> QED
    BY <1>1, <1>2, <1>5

\* Reading does not fail.
LEMMA NoLoadError == ASSUME OneProcess, NEW s \in Services PROVE ~ LoadError(s)
  BY DEF OneProcess, LoadError

\* What a job is after its run: it does not become enabled, and its next run is
\* computed from now.
LEMMA AdvanceFacts ==
  ASSUME CronInv, NEW j \in Jobs, file[j] # Absent
  PROVE  /\ Advance(j, file[j]) \in [status : {"on", "off"}, next : Nat]
         /\ Advance(j, file[j]).status = "on" =>
              /\ file[j].status = "on"
              /\ Advance(j, file[j]).next = computeNextRun(j, now)
  <1>1. file[j] \in [status : {"on", "off"}, next : Nat] /\ now \in Nat
    BY DEF CronInv, CronTypes, Job
  <1>2. computeNextRun(j, now) \in Nat
    BY <1>1, NextType
  <1> QED
    BY <1>1, <1>2 DEF Advance

-----------------------------------------------------------------------------
\* Nothing has been loaded and no job exists.
LEMMA InitCron ==
  ASSUME OneProcess, Init
  PROVE  CronInv
  <1>0. Daemon \in Services
    BY CronAssumption
  <1>1. Unloaded \in [loaded : BOOLEAN, jobs : [Jobs -> Job]] /\ Empty \in [Jobs -> Job]
    BY DEF Unloaded, Empty, Job
  <1>2. CronTypes
    <2>0. running \in BOOLEAN
      BY DEF Init
    <2>1. now \in Nat \ {0} /\ timer \in Nat
      <3>1. now = 1 /\ timer = 0
        BY DEF Init
      <3> QED
        BY <3>1
    <2>2. /\ file \in [Jobs -> Job] /\ fresh \in [Services -> BOOLEAN]
          /\ st \in [Services -> [loaded : BOOLEAN, jobs : [Jobs -> Job]]]
      BY <1>1 DEF Init
    <2>3. /\ held \in [Services -> SUBSET (Operations \X Jobs)] /\ manual \in [Services -> SUBSET Jobs]
          /\ due \in [Ticks -> SUBSET Jobs]
      BY DEF Init
    <2>4. /\ tick \in [Ticks -> {"idle", "fired", "locked", "executing"}]
          /\ told \in [Jobs -> {"new", "on", "off", "gone"}] /\ fired \in [Jobs -> Nat]
      BY DEF Init
    <2> QED
      BY <2>0, <2>1, <2>2, <2>3, <2>4 DEF CronTypes
  <1>3. Synced
    BY <1>0 DEF Init, Synced, Unloaded
  <1>4. ToldRight
    BY <1>0 DEF Init, ToldRight, Empty
  <1>5. ASSUME NEW j \in Jobs PROVE Planned(j)
    BY DEF Init, Planned, Empty, Absent
  <1>6. Armed
    BY DEF Init, Armed
  <1> QED
    BY <1>2, <1>3, <1>4, <1>5, <1>6 DEF CronInv

\* A job whose next run is computed now, or that is not enabled.
LEMMA PlannedAfter ==
  ASSUME CronInv, NEW j \in Jobs, now' = now, fired'[j] \in {0, fired[j]},
         file'[j].status = "on" => file'[j].next = computeNextRun(j, now)
  PROVE  Planned(j)'
  <1>1. now \in Nat /\ When[j] \in Nat \ {0}
    BY CronAssumption DEF CronInv, CronTypes
  <1>2. now <= now
    BY <1>1
  <1>3. OneShot(j) /\ fired[j] # 0 => fired[j] = 1 /\ When[j] <= now
    BY DEF CronInv, Planned
  <1>4. CASE OneShot(j)
    <2>1. computeNextRun(j, now) = IF When[j] > now THEN When[j] ELSE 0
      BY <1>1, <1>4, NextOfOneShot
    <2> QED
      BY <1>1, <1>3, <1>4, <2>1 DEF Planned
  <1>5. CASE ~ OneShot(j)
    BY <1>1, <1>2, <1>5, NextOfOthers DEF Planned
  <1> QED
    BY <1>4, <1>5

\* Computing the next run again does not make it earlier.
LEMMA NotEarlier ==
  ASSUME CronInv, NEW j \in Jobs, file[j].status = "on", computeNextRun(j, now) # 0
  PROVE  file[j].next # 0 /\ file[j].next <= computeNextRun(j, now)
  <1>1. now \in Nat /\ When[j] \in Nat \ {0} /\ Planned(j)
    BY CronAssumption DEF CronInv, CronTypes
  <1>2. CASE OneShot(j)
    <2>1. computeNextRun(j, now) = IF When[j] > now THEN When[j] ELSE 0
      BY <1>1, <1>2, NextOfOneShot
    <2> QED
      BY <1>1, <1>2, <2>1 DEF Planned
  <1>3. CASE ~ OneShot(j)
    BY <1>1, <1>3 DEF Planned
  <1> QED
    BY <1>2, <1>3

\* The next run of a job that is left alone, as time passes.
LEMMA PlannedKept ==
  ASSUME CronInv, NEW j \in Jobs, now' \in {now, now + 1}, fired'[j] = fired[j], file'[j] = file[j]
  PROVE  Planned(j)'
  <1>1. now \in Nat /\ When[j] \in Nat \ {0} /\ Planned(j) /\ now' \in Nat /\ now <= now'
    BY CronAssumption DEF CronInv, CronTypes
  <1>2. file[j].next \in Nat
    BY DEF CronInv, CronTypes, Job, Absent
  <1>3. CASE OneShot(j)
    BY <1>1, <1>2, <1>3 DEF Planned
  <1>4. CASE ~ OneShot(j)
    <2>1. /\ computeNextRun(j, now) <= computeNextRun(j, now')
          /\ computeNextRun(j, now) \in Nat /\ computeNextRun(j, now') \in Nat
      BY <1>1, <1>4, NextOfOthers
    <2> QED
      BY <1>1, <1>2, <1>4, <2>1 DEF Planned
  <1> QED
    BY <1>3, <1>4

\* AddJob, RemoveJob and EnableJob when they change something.
LEMMA Commits ==
  ASSUME CronInv, OneProcess, NEW j \in Jobs, NEW new \in Job, NEW answer \in {"on", "off", "gone"},
         held[Daemon] # {}, held' = [held EXCEPT ![Daemon] = {}],
         UNCHANGED <<now, manual, running, tick, due>>, Change(Daemon, j, new, answer),
         answer = "gone" => new = Absent, answer # "gone" => new # Absent,
         answer = "off" => new.status # "on",
         new.status = "on" => new.next = computeNextRun(j, now),
         fired' \in [Jobs -> Nat], fired'[j] \in {0, fired[j]},
         \A k \in Jobs \ {j} : fired'[k] = fired[k]
  PROVE  CronInv'
  <1> DEFINE jobs == [file EXCEPT ![j] = new]
  <1>0. Daemon \in Services /\ now \in Nat
    BY CronAssumption DEF CronInv, CronTypes
  <1>1. st[Daemon].loaded /\ st[Daemon].jobs = file
    BY DEF CronInv, Synced
  <1>2. jobs \in [Jobs -> Job] /\ jobs[j] = new /\ \A k \in Jobs \ {j} : jobs[k] = file[k]
    BY DEF CronInv, CronTypes
  <1> HIDE DEF jobs
  <1>3. PICK ok \in SaveOutcomes :
          /\ saveLocked(Daemon, jobs, ok)
          /\ timer' = IF ok THEN armTimerLocked(Daemon, jobs) ELSE timer
          /\ told' = [told EXCEPT ![j] = IF ok THEN answer ELSE "unsure"]
    BY <1>1 DEF Change, jobs
  <1>4. /\ ok /\ file' = jobs /\ st'[Daemon].jobs = jobs
        /\ st'[Daemon].loaded /\ fresh'[Daemon]
        /\ st' \in [Services -> [loaded : BOOLEAN, jobs : [Jobs -> Job]]]
        /\ fresh' \in [Services -> BOOLEAN]
    BY <1>1, <1>2, <1>3, Saved
  <1>5. /\ timer' = IF running THEN nextWakeLocked(jobs) ELSE 0
        /\ told' = [told EXCEPT ![j] = answer]
    BY <1>3, <1>4 DEF armTimerLocked
  <1>6. CronTypes'
    <2>1. timer' \in Nat
      BY <1>2, <1>5, WakeCovers
    <2>2. told' \in [Jobs -> {"new", "on", "off", "gone"}] /\ file' \in [Jobs -> Job]
      BY <1>2, <1>4, <1>5 DEF CronInv, CronTypes
    <2>3. held' \in [Services -> SUBSET (Operations \X Jobs)]
      BY DEF CronInv, CronTypes
    <2> QED
      BY <1>4, <2>1, <2>2, <2>3 DEF CronInv, CronTypes
  <1>7. Synced'
    BY <1>4 DEF CronInv, Synced
  <1>8. ToldRight'
    <2>1. held'[Daemon] = {}
      BY <1>0 DEF CronInv, CronTypes
    <2>2. told'[j] = answer /\ \A k \in Jobs \ {j} : told'[k] = told[k]
      BY <1>5 DEF CronInv, CronTypes
    <2> QED
      BY <1>2, <1>4, <2>1, <2>2 DEF CronInv, ToldRight
  <1>9. ASSUME NEW k \in Jobs PROVE Planned(k)'
    <2>1. CASE k = j
      BY <1>2, <1>4, <2>1, PlannedAfter
    <2>2. CASE k # j
      BY <1>2, <1>4, <2>2, PlannedKept
    <2> QED
      BY <2>1, <2>2
  <1>10. Armed'
    BY <1>2, <1>4, <1>5, WakeCovers DEF Armed
  <1> QED
    BY <1>6, <1>7, <1>8, <1>9, <1>10 DEF CronInv

\* The locked half of AddJob, RemoveJob and EnableJob.
LEMMA CommitInv ==
  ASSUME CronInv, OneProcess, NEW s \in Services, NEW j \in Jobs, Commit(s, j)
  PROVE  CronInv'
  <1>0. /\ Daemon \in Services /\ s = Daemon /\ now \in Nat /\ computeNextRun(j, now) \in Nat
        /\ fired \in [Jobs -> Nat]
    BY CronAssumption, NextType DEF OneProcess, CronInv, CronTypes
  <1>1. /\ held' = [held EXCEPT ![Daemon] = {}] /\ held[Daemon] # {}
        /\ UNCHANGED <<now, manual, running, tick, due>>
    BY <1>0 DEF Commit, AddJob, RemoveJob, EnableJob
  <1> DEFINE on == [status |-> "on", next |-> computeNextRun(j, now)]
             off == [status |-> "off", next |-> 0]
  <1>2. /\ on \in Job /\ on # Absent /\ on.status = "on" /\ on.next = computeNextRun(j, now)
        /\ off \in Job /\ off # Absent /\ off.status = "off"
        /\ Absent \in Job /\ Absent.status = "absent"
    BY <1>0 DEF Job, Absent
  <1>3. CASE UNCHANGED <<file, st, fresh, timer, told, fired>>
    <2>1. held'[Daemon] = {} /\ held' \in [Services -> SUBSET (Operations \X Jobs)]
      BY <1>0, <1>1 DEF CronInv, CronTypes
    <2>2. CronTypes' /\ Synced'
      BY <1>1, <1>3, <2>1 DEF CronInv, CronTypes, Synced
    <2>3. ToldRight'
      BY <1>3, <2>1 DEF CronInv, ToldRight
    <2>4. ASSUME NEW k \in Jobs PROVE Planned(k)'
      BY <1>1, <1>3, PlannedKept
    <2>5. Armed'
      BY <1>1, <1>3 DEF CronInv, Armed
    <2> QED
      BY <2>2, <2>3, <2>4, <2>5 DEF CronInv
  <1> HIDE DEF on, off
  <1>4. CASE Change(Daemon, j, on, "on") /\ fired' \in {fired, [fired EXCEPT ![j] = 0]}
    BY <1>0, <1>1, <1>2, <1>4, Commits
  <1>5. CASE Change(Daemon, j, off, "off") /\ fired' = fired
    BY <1>0, <1>1, <1>2, <1>5, Commits
  <1>6. CASE Change(Daemon, j, Absent, "gone") /\ fired' = fired
    BY <1>0, <1>1, <1>2, <1>6, Commits
  <1>7. CASE AddJob(s, j)
    BY <1>0, <1>3, <1>4, <1>7 DEF AddJob, on
  <1>8. CASE RemoveJob(s, j)
    BY <1>0, <1>3, <1>6, <1>8 DEF RemoveJob
  <1>9. CASE EnableJob(s, j, TRUE)
    BY <1>0, <1>3, <1>4, <1>9 DEF EnableJob, on
  <1>10. CASE EnableJob(s, j, FALSE)
    <2>1. fired' = fired
      BY <1>0, <1>10 DEF EnableJob
    <2> QED
      BY <1>0, <1>3, <1>5, <1>10, <2>1 DEF EnableJob, off
  <1> QED
    BY <1>7, <1>8, <1>9, <1>10 DEF Commit

\* A step that loads, and moves a caller, the timer or a tick.
LEMMA Reads ==
  ASSUME CronInv, OneProcess, Load(Daemon),
         UNCHANGED <<now, file, due, told, fired>>,
         held' \in [Services -> SUBSET (Operations \X Jobs)], manual' \in [Services -> SUBSET Jobs],
         running' \in BOOLEAN, timer' \in Nat,
         tick' \in [Ticks -> {"idle", "fired", "locked", "executing"}],
         \A t \in Ticks : tick[t] = "executing" => tick'[t] = "executing",
         \A j \in Jobs : <<"add", j>> \in held'[Daemon] => told[j] = "new",
         Armed'
  PROVE  CronInv'
  <1>1. /\ st'[Daemon].loaded /\ st'[Daemon].jobs = file /\ fresh'[Daemon]
        /\ st' \in [Services -> [loaded : BOOLEAN, jobs : [Jobs -> Job]]]
        /\ fresh' \in [Services -> BOOLEAN]
    BY Loaded
  <1>2. CronTypes'
    BY <1>1 DEF CronInv, CronTypes
  <1>3. Synced'
    BY <1>1 DEF CronInv, Synced
  <1>4. ToldRight'
    BY DEF CronInv, ToldRight
  <1>5. ASSUME NEW j \in Jobs PROVE Planned(j)'
    BY PlannedKept
  <1> QED
    BY <1>2, <1>3, <1>4, <1>5 DEF CronInv

\* AddJob, RemoveJob and EnableJob take the lock and load; ListJobs and RunNow.
LEMMA ReadingCallsInv ==
  ASSUME CronInv, OneProcess, NEW s \in Services,
         ListJobs(s) \/ \E j \in Jobs : Call(s, j)
  PROVE  CronInv'
  <1>0. Daemon \in Services /\ s = Daemon /\ ~ LoadError(s)
    BY CronAssumption, NoLoadError DEF OneProcess
  <1>1. ASSUME NEW j \in Jobs, NEW op \in Operations, Open(s, op, j) PROVE CronInv'
    <2>1. /\ Load(Daemon) /\ held' = [held EXCEPT ![Daemon] = {<<op, j>>}]
          /\ UNCHANGED <<now, file, manual, running, timer, tick, due, told, fired>>
          /\ op = "add" => told[j] = "new"
      BY <1>0, <1>1 DEF Open, daemonVars, callVars
    <2>2. /\ held' \in [Services -> SUBSET (Operations \X Jobs)]
          /\ held'[Daemon] = {<<op, j>>}
      BY <1>0, <2>1 DEF CronInv, CronTypes
    <2>3. \A k \in Jobs : <<"add", k>> \in held'[Daemon] => told[k] = "new"
      BY <2>1, <2>2
    <2>4. Armed'
      BY <2>1 DEF CronInv, Armed
    <2> QED
      BY <2>1, <2>2, <2>3, <2>4, Reads DEF CronInv, CronTypes
  <1>2. ASSUME UNCHANGED <<now, file, held, running, timer, tick, due, told, fired>>, Load(Daemon),
               manual' \in [Services -> SUBSET Jobs]
        PROVE  CronInv'
    <2>1. \A k \in Jobs : <<"add", k>> \in held'[Daemon] => told[k] = "new"
      BY <1>2 DEF CronInv, ToldRight
    <2>2. Armed'
      BY <1>2 DEF CronInv, Armed
    <2> QED
      BY <1>2, <2>1, <2>2, Reads DEF CronInv, CronTypes
  <1>3. ASSUME ListJobs(s) PROVE CronInv'
    <2>1. manual' \in [Services -> SUBSET Jobs]
      BY <1>3 DEF ListJobs, CronInv, CronTypes
    <2> QED
      BY <1>0, <1>2, <1>3, <2>1 DEF ListJobs, daemonVars, callVars
  <1>4. ASSUME NEW j \in Jobs, RunNow(s, j) PROVE CronInv'
    <2>1. \E now1 \in SUBSET Jobs : manual' = [manual EXCEPT ![s] = now1]
      BY <1>0, <1>4 DEF RunNow
    <2>2. manual' \in [Services -> SUBSET Jobs]
      BY <2>1 DEF CronInv, CronTypes
    <2> QED
      BY <1>0, <1>2, <1>4, <2>2 DEF RunNow, daemonVars, callVars
  <1> QED
    BY <1>1, <1>3, <1>4 DEF Call

\* Start and the first half of a tick.
LEMMA DaemonReadsInv ==
  ASSUME CronInv, OneProcess, Start \/ \E t \in Ticks : TickLoads(t)
  PROVE  CronInv'
  <1>0. Daemon \in Services /\ ~ LoadError(Daemon)
    BY CronAssumption, NoLoadError
  <1>1. \A k \in Jobs : <<"add", k>> \in held[Daemon] => told[k] = "new"
    BY DEF CronInv, ToldRight
  <1>2. ASSUME Start PROVE CronInv'
    <2>1. /\ Load(Daemon) /\ running' = TRUE /\ timer' = nextWakeLocked(st'[Daemon].jobs)
          /\ UNCHANGED <<now, file, held, manual, tick, due, told, fired>>
      BY <1>0, <1>2 DEF Start, callVars
    <2>2. st'[Daemon].jobs = file /\ file \in [Jobs -> Job]
      BY <2>1, Loaded DEF CronInv, CronTypes
    <2>3. Armed' /\ timer' \in Nat
      BY <2>1, <2>2, WakeCovers DEF Armed
    <2> QED
      BY <1>1, <2>1, <2>3, Reads DEF CronInv, CronTypes
  <1>3. ASSUME NEW t \in Ticks, TickLoads(t) PROVE CronInv'
    <2>1. /\ Load(Daemon) /\ tick[t] = "fired" /\ tick' = [tick EXCEPT ![t] = "locked"]
          /\ UNCHANGED <<now, file, held, manual, running, timer, due, told, fired>>
      BY <1>0, <1>3 DEF TickLoads, callVars
    <2>2. /\ tick' \in [Ticks -> {"idle", "fired", "locked", "executing"}] /\ tick'[t] = "locked"
          /\ \A u \in Ticks : tick[u] = "executing" => tick'[u] = "executing"
      BY <2>1 DEF CronInv, CronTypes
    <2>3. Armed'
      BY <2>2 DEF Armed
    <2> QED
      BY <1>1, <2>1, <2>2, <2>3, Reads DEF CronInv, CronTypes
  <1> QED
    BY <1>2, <1>3

\* What execute does to the file after the handler of job j: at most j changes.
Ran(j) ==
  /\ st'[Daemon].loaded /\ st'[Daemon].jobs = file' /\ fresh'[Daemon]
  /\ st' \in [Services -> [loaded : BOOLEAN, jobs : [Jobs -> Job]]]
  /\ fresh' \in [Services -> BOOLEAN] /\ file' \in [Jobs -> Job]
  /\ \A k \in Jobs \ {j} : file'[k] = file[k] /\ told'[k] = told[k]
  /\ told' \in [Jobs -> {"new", "on", "off", "gone"}]
  /\ file'[j].status = "on" =>
       file[j].status = "on" /\ file'[j].next = computeNextRun(j, now)
  /\ \/ told'[j] = told[j] /\ (file[j] = Absent <=> file'[j] = Absent)
     \/ told'[j] = "gone" /\ file'[j] = Absent

\* The step of execute that follows the handler.
LEMMA FinishRan ==
  ASSUME CronInv, OneProcess, NEW j \in Jobs, Finish(Daemon, j), st[Daemon].loaded
  PROVE  Ran(j)
  <1> DEFINE jobs == IF file[j] = Absent THEN file ELSE [file EXCEPT ![j] = AfterRun(j, file[j])]
  <1>1. /\ file = st[Daemon].jobs /\ file \in [Jobs -> Job] /\ Absent \in Job
        /\ told \in [Jobs -> {"new", "on", "off", "gone"}]
    BY DEF CronInv, CronTypes, Synced, Job
  <1>2. PICK ok \in SaveOutcomes :
          /\ saveLocked(Daemon, jobs, ok)
          /\ told' = IF file[j] # Absent /\ j \in DeleteAfterRun
                       THEN [told EXCEPT ![j] = IF ok THEN "gone" ELSE "unsure"]
                       ELSE told
    BY <1>1 DEF Finish
  <1>3. file[j] # Absent => /\ Advance(j, file[j]) \in Job /\ Advance(j, file[j]) # Absent
                            /\ Advance(j, file[j]).status = "on" =>
                                 /\ file[j].status = "on"
                                 /\ Advance(j, file[j]).next = computeNextRun(j, now)
    BY AdvanceFacts DEF Job, Absent
  <1>4. AfterRun(j, file[j]) = IF j \in DeleteAfterRun THEN Absent ELSE Advance(j, file[j])
    BY DEF AfterRun
  <1>5. /\ jobs \in [Jobs -> Job] /\ \A k \in Jobs \ {j} : jobs[k] = file[k]
        /\ jobs[j] = IF file[j] = Absent THEN Absent ELSE AfterRun(j, file[j])
    BY <1>1, <1>3, <1>4
  <1> HIDE DEF jobs
  <1>6. /\ ok /\ file' = jobs /\ st'[Daemon].jobs = jobs
        /\ st'[Daemon].loaded /\ fresh'[Daemon]
        /\ st' \in [Services -> [loaded : BOOLEAN, jobs : [Jobs -> Job]]]
        /\ fresh' \in [Services -> BOOLEAN]
    BY <1>2, <1>5, Saved
  <1>7. Absent.status # "on"
    BY DEF Absent
  <1>8. /\ told' \in [Jobs -> {"new", "on", "off", "gone"}]
        /\ \A k \in Jobs \ {j} : told'[k] = told[k]
        /\ told'[j] = IF file[j] # Absent /\ j \in DeleteAfterRun THEN "gone" ELSE told[j]
    BY <1>1, <1>2, <1>6
  <1>9. /\ file'[j].status = "on" => file[j].status = "on" /\ file'[j].next = computeNextRun(j, now)
        /\ \/ told'[j] = told[j] /\ (file[j] = Absent <=> file'[j] = Absent)
           \/ told'[j] = "gone" /\ file'[j] = Absent
    BY <1>3, <1>4, <1>5, <1>6, <1>7, <1>8
  <1> QED
    BY <1>5, <1>6, <1>8, <1>9 DEF Ran

\* What is true of the other variables after a run.
LEMMA RanInv ==
  ASSUME CronInv, OneProcess, NEW j \in Jobs, Ran(j),
         UNCHANGED <<now, held, running, timer, tick, fired>>, held[Daemon] = {},
         manual' \in [Services -> SUBSET Jobs], due' \in [Ticks -> SUBSET Jobs],
         \A t \in Ticks : due'[t] \subseteq due[t]
  PROVE  CronInv'
  <1>1. CronTypes'
    BY DEF CronInv, CronTypes, Ran
  <1>2. Synced'
    BY DEF CronInv, Synced, Ran
  <1>3. ToldRight'
    BY DEF CronInv, ToldRight, Ran
  <1>4. ASSUME NEW k \in Jobs PROVE Planned(k)'
    <2>1. CASE k = j
      BY <2>1, PlannedAfter DEF Ran
    <2>2. CASE k # j
      BY <2>2, PlannedKept DEF Ran
    <2> QED
      BY <2>1, <2>2
  <1>5. Armed'
    <2> SUFFICES ASSUME running, \A t \in Ticks : tick[t] = "idle", NEW k \in Jobs,
                        file'[k].status = "on", file'[k].next # 0
                 PROVE  timer # 0 /\ timer <= file'[k].next
      BY DEF Armed
    <2>1. file[k].status = "on" /\ file[k].next # 0 /\ file[k].next <= file'[k].next
      <3>1. CASE k = j
        BY <3>1, NotEarlier DEF Ran
      <3>2. CASE k # j
        <4>1. file'[k] = file[k] /\ file[k].next \in Nat
          BY <3>2 DEF Ran, CronInv, CronTypes, Job, Absent
        <4> QED
          BY <4>1
      <3> QED
        BY <3>1, <3>2
    <2>2. file[k].next \in Nat /\ file'[k].next \in Nat /\ timer \in Nat
      BY DEF CronInv, CronTypes, Job, Absent, Ran
    <2>3. timer # 0 /\ timer <= file[k].next
      BY <2>1 DEF CronInv, Armed
    <2> QED
      BY <2>1, <2>2, <2>3
  <1> QED
    BY <1>1, <1>2, <1>3, <1>4, <1>5 DEF CronInv

\* The end of a RunNow.
LEMMA FinishManualInv ==
  ASSUME CronInv, OneProcess, NEW s \in Services, NEW j \in Jobs, FinishManual(s, j)
  PROVE  CronInv' /\ Ran(j)
  <1>0. Daemon \in Services /\ s = Daemon
    BY CronAssumption DEF OneProcess
  <1>1. /\ j \in manual[Daemon] /\ Finish(Daemon, j) /\ manual' = [manual EXCEPT ![Daemon] = {}]
        /\ UNCHANGED <<now, held, running, timer, tick, due, fired>>
    BY <1>0 DEF FinishManual, daemonVars
  <1>2. st[Daemon].loaded
    BY <1>1 DEF CronInv, Synced
  <1>3. Ran(j)
    BY <1>1, <1>2, FinishRan
  <1>4. manual' \in [Services -> SUBSET Jobs] /\ due' \in [Ticks -> SUBSET Jobs]
    BY <1>1 DEF CronInv, CronTypes
  <1>5. held[Daemon] = {}
    BY <1>1 DEF Finish, Unlocked
  <1> QED
    BY <1>1, <1>3, <1>4, <1>5, RanInv

\* The end of a run that a tick started.
LEMMA FinishDueInv ==
  ASSUME CronInv, OneProcess, NEW t \in Ticks, NEW j \in Jobs, FinishDue(t, j)
  PROVE  CronInv' /\ Ran(j)
  <1>1. /\ j \in due[t] /\ Finish(Daemon, j) /\ due' = [due EXCEPT ![t] = @ \ {j}]
        /\ UNCHANGED <<now, held, manual, running, timer, tick, fired>>
    BY DEF FinishDue
  <1>2. st[Daemon].loaded
    BY <1>1 DEF CronInv, CronTypes, Synced
  <1>3. Ran(j)
    BY <1>1, <1>2, FinishRan
  <1>4. /\ manual' \in [Services -> SUBSET Jobs] /\ due' \in [Ticks -> SUBSET Jobs]
        /\ \A u \in Ticks : due'[u] \subseteq due[u]
    BY <1>1 DEF CronInv, CronTypes
  <1>5. held[Daemon] = {}
    BY <1>1 DEF Finish, Unlocked
  <1> QED
    BY <1>1, <1>3, <1>4, <1>5, RanInv

\* The second half of a tick: the due jobs are advanced and saved.
LEMMA TickAdvancesInv ==
  ASSUME CronInv, OneProcess, NEW t \in Ticks, TickAdvances(t)
  PROVE  CronInv'
  <1> DEFINE ripe == {j \in Jobs : IsDue(file[j])}
             jobs == [j \in Jobs |-> IF j \in ripe THEN Advance(j, file[j]) ELSE file[j]]
  <1>0. /\ file \in [Jobs -> Job] /\ now \in Nat /\ fired \in [Jobs -> Nat] /\ due \in [Ticks -> SUBSET Jobs]
        /\ tick \in [Ticks -> {"idle", "fired", "locked", "executing"}]
    BY DEF CronInv, CronTypes
  <1>1. tick[t] = "locked" /\ st[Daemon].loaded /\ st[Daemon].jobs = file
    BY DEF TickAdvances, CronInv, Synced
  <1>2. /\ tick' = [tick EXCEPT ![t] = "executing"] /\ due' = [due EXCEPT ![t] = ripe]
        /\ fired' = [j \in Jobs |-> IF j \in ripe /\ OneShot(j) /\ fired[j] < 2
                                    THEN fired[j] + 1 ELSE fired[j]]
        /\ UNCHANGED <<now, held, manual, running, timer, told>>
    BY <1>1 DEF TickAdvances
  <1>3. \/ ripe = {} /\ UNCHANGED <<file, st, fresh>>
        \/ ripe # {} /\ \E ok \in SaveOutcomes : saveLocked(Daemon, jobs, ok)
    BY <1>1 DEF TickAdvances
  <1>4. \A j \in ripe : /\ file[j].status = "on" /\ file[j].next # 0 /\ file[j].next <= now
                        /\ file[j] # Absent
    BY DEF IsDue, Absent
  <1>5. \A j \in ripe : /\ Advance(j, file[j]) \in Job /\ Advance(j, file[j]) # Absent
                        /\ Advance(j, file[j]).status = "on" =>
                             Advance(j, file[j]).next = computeNextRun(j, now)
    BY <1>4, AdvanceFacts DEF Job, Absent
  <1>6. jobs \in [Jobs -> Job] /\ ripe \subseteq Jobs
    BY <1>0, <1>5
  <1>7. /\ \A j \in ripe : jobs[j] = Advance(j, file[j])
        /\ \A j \in Jobs \ ripe : jobs[j] = file[j]
        /\ ripe = {} => jobs = file
    BY <1>0
  <1> HIDE DEF jobs, ripe
  <1>8. /\ file' = jobs /\ st'[Daemon].jobs = jobs /\ st'[Daemon].loaded /\ fresh'[Daemon]
        /\ st' \in [Services -> [loaded : BOOLEAN, jobs : [Jobs -> Job]]]
        /\ fresh' \in [Services -> BOOLEAN]
    <2>1. CASE ripe = {}
      BY <1>1, <1>3, <1>7, <2>1 DEF CronInv, CronTypes, Synced
    <2>2. CASE ripe # {}
      BY <1>1, <1>3, <1>6, <2>2, Saved
    <2> QED
      BY <2>1, <2>2
  <1>9. /\ tick' \in [Ticks -> {"idle", "fired", "locked", "executing"}] /\ tick'[t] = "executing"
        /\ \A u \in Ticks \ {t} : tick'[u] = tick[u] /\ due'[u] = due[u]
        /\ due' \in [Ticks -> SUBSET Jobs]
    BY <1>0, <1>2, <1>6
  <1>10. /\ fired' \in [Jobs -> Nat]
         /\ \A j \in Jobs : fired'[j] = IF j \in ripe /\ OneShot(j) /\ fired[j] < 2
                                        THEN fired[j] + 1 ELSE fired[j]
    BY <1>0, <1>2
  <1>11. CronTypes'
    BY <1>2, <1>6, <1>8, <1>9, <1>10 DEF CronInv, CronTypes
  <1>12. Synced'
    BY <1>2, <1>8, <1>9 DEF CronInv, Synced
  <1>13. ToldRight'
    <2> SUFFICES ASSUME NEW j \in Jobs
                 PROVE  /\ told[j] = "new" => file'[j] = Absent /\ fired'[j] = 0
                        /\ told[j] = "gone" => file'[j] = Absent
                        /\ told[j] = "off" => file'[j].status # "on"
                        /\ told[j] \in {"on", "off"} => file'[j] # Absent
      BY <1>2 DEF CronInv, ToldRight
    <2>1. CASE j \in ripe
      <3>1. told[j] \notin {"new", "gone", "off"}
        BY <1>4, <2>1 DEF CronInv, ToldRight
      <3> QED
        BY <1>5, <1>7, <1>8, <2>1, <3>1
    <2>2. CASE j \notin ripe
      <3>1. file'[j] = file[j] /\ fired'[j] = fired[j]
        BY <1>7, <1>8, <1>10, <2>2
      <3> QED
        BY <3>1 DEF CronInv, ToldRight
    <2> QED
      BY <2>1, <2>2
  <1>14. ASSUME NEW j \in Jobs PROVE Planned(j)'
    <2>1. CASE j \in ripe /\ OneShot(j)
      <3>1. file[j].next = When[j] /\ When[j] <= now /\ fired[j] = 0 /\ When[j] \in Nat
        BY <1>4, <2>1, CronAssumption DEF CronInv, Planned
      <3>2. fired'[j] = 1
        BY <1>10, <2>1, <3>1
      <3>3. computeNextRun(j, now) = 0
        BY <1>0, <2>1, <3>1, NextOfOneShot
      <3> QED
        BY <1>2, <1>5, <1>7, <1>8, <2>1, <3>1, <3>2, <3>3 DEF Planned
    <2>2. CASE j \in ripe /\ ~ OneShot(j)
      BY <1>2, <1>5, <1>7, <1>8, <1>10, <2>2, PlannedAfter
    <2>3. CASE j \notin ripe
      BY <1>2, <1>7, <1>8, <1>10, <2>3, PlannedKept
    <2> QED
      BY <2>1, <2>2, <2>3
  <1>15. Armed'
    BY <1>9 DEF Armed
  <1> QED
    BY <1>11, <1>12, <1>13, <1>14, <1>15 DEF CronInv

\* The jobs stay: Stop, the timer, the end of a tick, the watcher and the clock.
LEMMA DaemonInv ==
  ASSUME CronInv, OneProcess,
         Stop \/ (\E t \in Ticks : TimerFires(t) \/ TickEnds(t)) \/ WatchReloads \/ WatchFails \/ Clock
  PROVE  CronInv'
  <1>0. /\ Daemon \in Services /\ now \in Nat /\ file \in [Jobs -> Job] /\ timer \in Nat
        /\ tick \in [Ticks -> {"idle", "fired", "locked", "executing"}]
    BY CronAssumption DEF CronInv, CronTypes
  <1>1. UNCHANGED <<file, held, manual, due, told, fired>> /\ now' \in {now, now + 1}
    BY DEF Stop, TimerFires, TickEnds, WatchReloads, WatchFails, Clock, daemonVars, callVars
  <1>2. /\ st'[Daemon].loaded = st[Daemon].loaded /\ st'[Daemon].jobs = st[Daemon].jobs
        /\ fresh[Daemon] => fresh'[Daemon]
        /\ st' \in [Services -> [loaded : BOOLEAN, jobs : [Jobs -> Job]]]
        /\ fresh' \in [Services -> BOOLEAN]
    <2>1. CASE UNCHANGED <<st, fresh>>
      BY <2>1 DEF CronInv, CronTypes
    <2>2. CASE WatchReloads
      <3> DEFINE read == [loaded |-> TRUE, jobs |-> file]
      <3>1. read \in [loaded : BOOLEAN, jobs : [Jobs -> Job]] /\ read.loaded = TRUE /\ read.jobs = file
        BY <1>0
      <3>2. /\ st' = [st EXCEPT ![Daemon] = read] /\ fresh' = [fresh EXCEPT ![Daemon] = TRUE] /\ running
        BY <2>2 DEF WatchReloads
      <3> HIDE DEF read
      <3>3. st[Daemon].loaded = TRUE /\ st[Daemon].jobs = file
        BY <3>2 DEF CronInv, CronTypes, Synced
      <3> QED
        BY <1>0, <3>1, <3>2, <3>3 DEF CronInv, CronTypes
    <2>3. ~ WatchFails
      BY DEF WatchFails, OneProcess
    <2> QED
      BY <2>1, <2>2, <2>3 DEF Stop, TimerFires, TickEnds, Clock
  <1>3. /\ running' \in BOOLEAN
        /\ running' => running
        /\ now' \in Nat \ {0}
    <2>1. running' = running \/ running' = FALSE
      BY DEF Stop, TimerFires, TickEnds, WatchReloads, WatchFails, Clock, daemonVars, callVars
    <2>2. now' \in Nat \ {0}
      BY <1>1 DEF CronInv, CronTypes
    <2>3. running \in BOOLEAN
      BY DEF CronInv, CronTypes
    <2>4. running' \in BOOLEAN /\ (running' => running)
      <3>1. CASE running' = running
        BY <2>3, <3>1
      <3>2. CASE running' = FALSE
        BY <3>2
      <3> QED
        BY <2>1, <3>1, <3>2
    <2> QED
      BY <2>2, <2>4
  <1>4. /\ tick' \in [Ticks -> {"idle", "fired", "locked", "executing"}]
        /\ \A t \in Ticks : /\ tick'[t] \in {"locked", "executing"} => tick[t] = tick'[t]
                            /\ tick'[t] # "executing" => due[t] = {}
    <2>1. \A u \in Ticks : tick[u] # "executing" => due[u] = {}
      BY DEF CronInv, Synced
    <2>2. ASSUME NEW t \in Ticks, TimerFires(t) \/ TickEnds(t)
          PROVE  /\ tick' \in [Ticks -> {"idle", "fired", "locked", "executing"}]
                 /\ \A u \in Ticks : /\ tick'[u] \in {"locked", "executing"} => tick[u] = tick'[u]
                                     /\ tick'[u] # "executing" => due[u] = {}
      BY <1>0, <2>1, <2>2 DEF TimerFires, TickEnds
    <2>3. CASE UNCHANGED tick
      BY <1>0, <2>1, <2>3
    <2> QED
      BY <2>2, <2>3 DEF Stop, WatchReloads, WatchFails, Clock, daemonVars
  <1>5. timer' \in Nat /\ Armed'
    <2>1. CASE Stop
      BY <2>1 DEF Stop, Armed
    <2>2. ASSUME NEW t \in Ticks, TimerFires(t) PROVE timer' \in Nat /\ Armed'
      <3>1. timer' = 0 /\ tick'[t] = "fired"
        BY <1>0, <2>2 DEF TimerFires
      <3> QED
        BY <3>1 DEF Armed
    <2>3. ASSUME NEW t \in Ticks, TickEnds(t) PROVE timer' \in Nat /\ Armed'
      <3>1. /\ timer' = IF running THEN nextWakeLocked(st[Daemon].jobs) ELSE 0
            /\ running' = running
        BY <2>3 DEF TickEnds, armTimerLocked
      <3>2. running => st[Daemon].jobs = file
        BY DEF CronInv, Synced
      <3> QED
        BY <1>0, <1>1, <3>1, <3>2, WakeCovers DEF Armed
    <2>4. CASE WatchReloads
      <3>1. timer' = IF running THEN nextWakeLocked(file) ELSE 0
        BY <2>4 DEF WatchReloads, armTimerLocked
      <3> QED
        BY <1>0, <1>1, <1>3, <3>1, WakeCovers DEF Armed
    <2>5. CASE WatchFails \/ Clock
      <3>1. UNCHANGED <<timer, running, tick>>
        BY <2>5 DEF WatchFails, Clock, daemonVars
      <3> QED
        BY <1>0, <1>1, <3>1 DEF CronInv, Armed
    <2> QED
      BY <2>1, <2>2, <2>3, <2>4, <2>5
  <1>6. CronTypes'
    BY <1>1, <1>2, <1>3, <1>4, <1>5 DEF CronInv, CronTypes
  <1>7. Synced'
    BY <1>1, <1>2, <1>3, <1>4 DEF CronInv, Synced
  <1>8. ToldRight'
    BY <1>1 DEF CronInv, ToldRight
  <1>9. ASSUME NEW j \in Jobs PROVE Planned(j)'
    BY <1>1, PlannedKept
  <1> QED
    BY <1>5, <1>6, <1>7, <1>8, <1>9 DEF CronInv

\* The process ends, and another one takes its place.
LEMMA ExitInv ==
  ASSUME CronInv, OneProcess, NEW s \in Services, Exit(s)
  PROVE  CronInv'
  <1>0. Daemon \in Services /\ s = Daemon
    BY CronAssumption DEF OneProcess
  <1>1. /\ st' = [st EXCEPT ![Daemon] = Unloaded] /\ fresh' = [fresh EXCEPT ![Daemon] = FALSE]
        /\ held' = [held EXCEPT ![Daemon] = {}] /\ manual' = [manual EXCEPT ![Daemon] = {}]
        /\ running' = FALSE /\ timer' = 0
        /\ tick' = [t \in Ticks |-> "idle"] /\ due' = [t \in Ticks |-> {}]
        /\ UNCHANGED <<now, file, told, fired>>
    BY <1>0 DEF Exit, callVars
  <1>2. /\ Unloaded \in [loaded : BOOLEAN, jobs : [Jobs -> Job]]
        /\ Unloaded.loaded = FALSE /\ Unloaded.jobs = Empty
    BY DEF Unloaded, Empty, Job
  <1>3. CronTypes'
    <2>1. /\ st' \in [Services -> [loaded : BOOLEAN, jobs : [Jobs -> Job]]]
          /\ fresh' \in [Services -> BOOLEAN] /\ running' \in BOOLEAN
      BY <1>1, <1>2 DEF CronInv, CronTypes
    <2>2. timer' \in Nat
      BY <1>1
    <2>3. /\ held' \in [Services -> SUBSET (Operations \X Jobs)] /\ manual' \in [Services -> SUBSET Jobs]
          /\ tick' \in [Ticks -> {"idle", "fired", "locked", "executing"}]
          /\ due' \in [Ticks -> SUBSET Jobs]
      BY <1>1 DEF CronInv, CronTypes
    <2> QED
      BY <1>1, <2>1, <2>2, <2>3 DEF CronInv, CronTypes
  <1>4. /\ st'[Daemon] = Unloaded /\ held'[Daemon] = {} /\ manual'[Daemon] = {}
    BY <1>0, <1>1 DEF CronInv, CronTypes
  <1>5. Synced'
    BY <1>1, <1>2, <1>4 DEF Synced
  <1>6. ToldRight'
    BY <1>1, <1>4 DEF CronInv, ToldRight
  <1>7. ASSUME NEW j \in Jobs PROVE Planned(j)'
    BY <1>1, PlannedKept
  <1>8. Armed'
    BY <1>1 DEF Armed
  <1> QED
    BY <1>3, <1>5, <1>6, <1>7, <1>8 DEF CronInv

\* Every step keeps the invariant.
LEMMA StepCron ==
  ASSUME OneProcess, CronInv, [Next]_vars
  PROVE  CronInv'
  <1>1. CASE UNCHANGED vars
    <2>1. CronTypes' /\ Synced' /\ ToldRight' /\ Armed'
      BY <1>1 DEF vars, CronInv, CronTypes, Synced, ToldRight, Armed
    <2>2. ASSUME NEW j \in Jobs PROVE Planned(j)'
      BY <1>1, PlannedKept DEF vars
    <2> QED
      BY <2>1, <2>2 DEF CronInv
  <1>2. ASSUME NEW s \in Services, ListJobs(s) \/ Exit(s) PROVE CronInv'
    BY <1>2, ReadingCallsInv, ExitInv
  <1>3. ASSUME NEW s \in Services, NEW j \in Jobs, Call(s, j) \/ Commit(s, j) \/ FinishManual(s, j)
        PROVE  CronInv'
    BY <1>3, ReadingCallsInv, CommitInv, FinishManualInv
  <1>4. CASE Start \/ Stop \/ WatchReloads \/ WatchFails \/ Clock
    BY <1>4, DaemonReadsInv, DaemonInv
  <1>5. ASSUME NEW t \in Ticks, TimerFires(t) \/ Tick(t) PROVE CronInv'
    BY <1>5, DaemonReadsInv, DaemonInv, TickAdvancesInv, FinishDueInv DEF Tick
  <1> QED
    BY <1>1, <1>2, <1>3, <1>4, <1>5 DEF Next

-----------------------------------------------------------------------------
\* The invariant of a process that has the workspace to itself.
THEOREM CronInvariance == ASSUME OneProcess PROVE Spec => []CronInv
  BY InitCron, StepCron, PTL DEF Spec

\* The invariant implies the properties of its states.
LEMMA CronInvImplies ==
  ASSUME CronInv
  PROVE  OneShotOnce /\ OffStaysOff /\ AddedKept /\ TimerCovers
  <1>1. OneShotOnce
    BY DEF CronInv, CronTypes, Planned, OneShotOnce
  <1>2. \A j \in Jobs : st[Daemon].jobs[j] \in {file[j], Absent}
    BY DEF CronInv, Synced, Empty
  <1>3. OffStaysOff
    BY <1>2 DEF CronInv, ToldRight, OffStaysOff, Absent
  <1>4. AddedKept
    BY DEF CronInv, ToldRight, AddedKept
  <1>5. TimerCovers
    <2>1. running => st[Daemon].jobs = file
      BY DEF CronInv, Synced
    <2> QED
      BY <2>1 DEF CronInv, Armed, TimerCovers
  <1> QED
    BY <1>1, <1>3, <1>4, <1>5

\* Between two calls that enable it, the timer hands a one-shot job to the handler
\* once at most (tick advances the job before it releases the lock).
THEOREM OneShotOnceHolds == ASSUME OneProcess PROVE Spec => []OneShotOnce
  BY CronInvariance, CronInvImplies, PTL

\* Removed jobs stay removed and disabled ones stay off, whatever was running when
\* RemoveJob or EnableJob returned.
THEOREM OffStaysOffHolds == ASSUME OneProcess PROVE Spec => []OffStaysOff
  BY CronInvariance, CronInvImplies, PTL

\* A job whose AddJob returned is in the store file until it is removed.
THEOREM AddedKeptHolds == ASSUME OneProcess PROVE Spec => []AddedKept
  BY CronInvariance, CronInvImplies, PTL

\* While no tick is under way the timer of a running service is armed for the
\* earliest enabled job or earlier (armTimerLocked after every change, and a run
\* that ends without arming it never makes a job earlier).
THEOREM TimerCoversHolds == ASSUME OneProcess PROVE Spec => []TimerCovers
  BY CronInvariance, CronInvImplies, PTL

\* A step that ends a run of job j, and is not a crash, is the last part of execute.
LEMMA FinishedRan ==
  ASSUME OneProcess, CronInv, [Next]_vars, NEW j \in Jobs, Finished(j)
  PROVE  file' = file \/ Ran(j)
  <1>0. /\ Daemon \in Services /\ manual \in [Services -> SUBSET Jobs] /\ due \in [Ticks -> SUBSET Jobs]
        /\ tick \in [Ticks -> {"idle", "fired", "locked", "executing"}]
    BY CronAssumption DEF CronInv, CronTypes
  <1>1. ASSUME NEW s \in Services, NEW i \in Jobs, FinishManual(s, i) PROVE Ran(j)
    <2>1. i \in manual[s] /\ manual' = [manual EXCEPT ![s] = {}] /\ due' = due
      BY <1>1 DEF FinishManual, daemonVars
    <2>2. i = j
      BY <1>0, <2>1 DEF Finished, OneProcess
    <2> QED
      BY <1>1, <2>2, FinishManualInv
  <1>2. ASSUME NEW t \in Ticks, NEW i \in Jobs, FinishDue(t, i) PROVE Ran(j)
    <2>1. i \in due[t] /\ due' = [due EXCEPT ![t] = @ \ {i}] /\ manual' = manual
      BY <1>2 DEF FinishDue
    <2>2. i = j
      BY <1>0, <2>1 DEF Finished
    <2> QED
      BY <1>2, <2>2, FinishDueInv
  <1>3. ASSUME NEW s \in Services, NEW i \in Jobs, Commit(s, i) PROVE FALSE
    <2>1. UNCHANGED <<manual, due>>
      BY <1>3 DEF Commit, AddJob, RemoveJob, EnableJob
    <2> QED
      BY <2>1 DEF Finished
  <1>4. ASSUME NEW t \in Ticks, TickAdvances(t) PROVE FALSE
    <2>1. manual' = manual /\ \A u \in Ticks : due[u] \ due'[u] = {}
      <3>1. PICK ripe \in SUBSET Jobs : due' = [due EXCEPT ![t] = ripe]
        BY <1>4 DEF TickAdvances
      <3>2. due[t] = {} /\ manual' = manual
        BY <1>4 DEF TickAdvances, CronInv, Synced
      <3> QED
        BY <1>0, <3>1, <3>2
    <2> QED
      BY <2>1 DEF Finished
  <1>5. CASE UNCHANGED file
    BY <1>5
  <1> QED
    BY <1>1, <1>2, <1>3, <1>4, <1>5 DEF Next, Call, Tick, vars, ListJobs, Exit, Open, RunNow, Start, Stop,
       TimerFires, TickLoads, TickEnds, WatchReloads, WatchFails, Clock

\* The end of a run changes its own job in the file and no other.
THEOREM RunKeepsOthersHolds == ASSUME OneProcess PROVE Spec => RunKeepsOthers
  <1>1. ASSUME CronInv, [Next]_vars
        PROVE  [\A j \in Jobs : Finished(j) => \A k \in Jobs \ {j} : file'[k] = file[k]]_vars
    BY <1>1, FinishedRan DEF Ran
  <1> QED
    BY <1>1, CronInvariance, PTL DEF Spec, RunKeepsOthers
=============================================================================
