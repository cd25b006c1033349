-------------------------------- MODULE Airunner --------------------------------
(***************************************************************************)
(* The airunner of a workspace (src/prj_airunner) and the doer loop around *)
(* it (src/ops/auto_loop.py): ticks that enqueue, start and poll background*)
(* jobs, the smoke processes they start, the lock of the tick and the lock *)
(* of the loop.                                                            *)
(*                                                                         *)
(* A runner is a process that runs one tick (airunner-tick, the watchdog)  *)
(* or a loop of them (auto-loop).  Runners share the files                 *)
(*                                                                         *)
(*   jobs_index.v1.json          index, last    the jobs, the last tick id *)
(*   airunner_lock.v1.json       lock           one tick at a time         *)
(*   airunner_heartbeat.v1.json  beat           the last tick id completed *)
(*   doer_loop_lock.v1.json      doer           one loop at a time         *)
(*   <job>.rc.json               rc             written by a smoke process *)
(*                                                                         *)
(* Both locks are checked and then written, two actions here, and run out  *)
(* after a time.  With Overlap = FALSE no runner is between check and      *)
(* write while another one is, no lock runs out while its owner works, and *)
(* no job is seeded while a tick updates the index: nothing in the code    *)
(* enforces these.                                                         *)
(*                                                                         *)
(* Operators said to be faulty are used by no specification: each is a     *)
(* slip the code could have had in the operator that follows it.           *)
(***************************************************************************)
EXTENDS Naturals, FiniteSets

CONSTANTS
    Runners,
    Loopers,        \* the runners that run auto-loop
    Jobs,           \* every job that can be in the index
    Seeded,         \* the jobs of airunner-jobs-seed; a tick enqueues the others
    TypeOf,         \* of each job
    TickOf,         \* the tick id that enqueues a job, of which its id is a hash
    Rank,           \* the place of a job in the order of _job_sort_key
    Smoke,          \* the types run as a process of their own
    Network,        \* the types that need the network, which is off
    TickIds,        \* tick ids: policy, intake and time window
    NoTick,
    LeaseOf,        \* the runners whose loops have the lease id of a runner's loop
    MaxRunning,     \* job_policy.max_running_jobs
    MaxConcurrent,  \* jobs.smoke_full.max_concurrent
    MaxPoll,        \* jobs.max_poll_per_tick
    MaxKills,       \* bound on the runners killed and the ticks that raise
    Overlap

ASSUME BoundsAssumption ==
    /\ MaxRunning \in Nat \ {0} /\ MaxConcurrent \in Nat \ {0} /\ MaxPoll \in Nat \ {0}
    /\ MaxKills \in Nat
    /\ Overlap \in BOOLEAN

ASSUME JobsAssumption ==
    /\ IsFiniteSet(Jobs) /\ Seeded \subseteq Jobs
    /\ TickOf \in [Jobs \ Seeded -> TickIds] /\ NoTick \notin TickIds
    /\ Rank \in [Jobs -> Nat] /\ \A j, k \in Jobs : Rank[j] = Rank[k] => j = k
    /\ DOMAIN TypeOf = Jobs /\ Smoke \cap Network = {}
    /\ LeaseOf \in [Runners -> SUBSET Runners] /\ \A r \in Runners : r \in LeaseOf[r]

VARIABLES
    index,      \* the status of each job in the index, "" when it is not there
    last,       \* last_tick_id of the index
    beat,       \* last_tick_id of the heartbeat
    lock,       \* the tick's lock
    doer,       \* the loop's lock
    pc,         \* where the tick of each runner is
    loop,       \* where the loop of each runner is
    job,        \* what the tick of each runner keeps in memory
    age,        \* of each job, since it was enqueued or started: 0, past its timeout
                \* (1), past stale_after and the cooldown (2)
    since,      \* of each running job, since its last poll: within the poll interval
                \* (0), past it (1), past stale_after (2)
    alive,      \* the smoke processes of each job
    rc,         \* the result file of each job
    starts,     \* history: the processes started for each job
    lost,       \* history: how often a runner ended before it saved a start
    kills

files == << index, last, beat >>
locks == << lock, doer >>
clocks == << age, since >>
smokes == << alive, rc >>
history == << starts, lost, kills >>
vars == << files, locks, pc, loop, job, clocks, smokes, history >>

-------------------------------------------------------------------------------
NoLock == [by |-> {}, stale |-> FALSE]

\* Faulty: a lock that has run out is still in the way.
Unlocked(l) == l = NoLock

\* _load_lock and _is_stale: a lock that has run out is no lock.
Free(l) == l = NoLock \/ l.stale

Active == {"QUEUED", "RUNNING"}
Terminal == {"PASS", "FAIL", "TIMEOUT", "SKIP"}

NoJob == [index |-> [j \in Jobs |-> ""], todo |-> {}, tick |-> NoTick, forced |-> FALSE,
          pollOnly |-> FALSE, running |-> 0, polled |-> 0, started |-> {}]

Init ==
    /\ index = [j \in Jobs |-> ""]
    /\ last = NoTick
    /\ beat = NoTick
    /\ lock = NoLock
    /\ doer = NoLock
    /\ pc = [r \in Runners |-> "idle"]
    /\ loop = [r \in Runners |-> "none"]
    /\ job = [r \in Runners |-> NoJob]
    /\ age = [j \in Jobs |-> 0]
    /\ since = [j \in Jobs |-> 0]
    /\ alive = [j \in Jobs |-> 0]
    /\ rc = [j \in Jobs |-> "none"]
    /\ starts = [j \in Jobs |-> 0]
    /\ lost = [j \in Jobs |-> 0]
    /\ kills = 0

At(r, label) == pc[r] = label
Goto(r, label) == pc' = [pc EXCEPT ![r] = label]

\* The tick of a runner has loaded the index and not saved it yet.
Updating(r) == pc[r] \in {"visit", "pid", "save"}

-------------------------------------------------------------------------------
\* ---- run_auto_loop: acquire, touch and release the doer-loop lock -----------------
LoopBegin(r) ==
    /\ r \in Loopers
    /\ At(r, "idle") /\ loop[r] = "none"
    /\ Overlap \/ \A s \in Runners : loop[s] # "lock"
    /\ Free(doer)
    /\ doer' = NoLock
    /\ loop' = [loop EXCEPT ![r] = "lock"]
    /\ UNCHANGED << files, lock, pc, job, clocks, smokes, history >>

LoopLock(r) ==
    /\ loop[r] = "lock"
    /\ doer' = [by |-> LeaseOf[r], stale |-> FALSE]
    /\ loop' = [loop EXCEPT ![r] = "run"]
    /\ UNCHANGED << files, lock, pc, job, clocks, smokes, history >>

\* The ticks of the loop are over (any number of them).
LoopEnd(r) ==
    /\ At(r, "idle") /\ loop[r] = "run"
    /\ doer' = IF doer.by = LeaseOf[r] THEN NoLock ELSE doer
    /\ loop' = [loop EXCEPT ![r] = "none"]
    /\ UNCHANGED << files, lock, pc, job, clocks, smokes, history >>

\* A call of the loop raises: there is no finally, the lock stays.
LoopFails(r) ==
    /\ At(r, "idle") /\ loop[r] = "run"
    /\ loop' = [loop EXCEPT ![r] = "none"]
    /\ UNCHANGED << files, locks, pc, job, clocks, smokes, history >>

Loop(r) == LoopBegin(r) \/ LoopLock(r) \/ LoopEnd(r) \/ LoopFails(r)

-------------------------------------------------------------------------------
\* ---- run_airunner_tick, up to the update of the jobs --------------------------------
\* Faulty: the lock is not looked at.
TickBeginAnyway(r) ==
    /\ At(r, "idle") /\ loop[r] # "lock"
    /\ Overlap \/ \A s \in Runners : ~ At(s, "lock")
    /\ job' = [job EXCEPT ![r] = [NoJob EXCEPT !.forced = lock.stale]]
    /\ lock' = NoLock
    /\ Goto(r, "lock")
    /\ UNCHANGED << files, doer, loop, clocks, smokes, history >>

\* A lock in force ends the tick: LOCKED.  One that has run out is removed, and the
\* tick only polls.
TickBegin(r) ==
    /\ At(r, "idle") /\ loop[r] # "lock"
    /\ Overlap \/ \A s \in Runners : ~ At(s, "lock")
    /\ Free(lock)
    /\ job' = [job EXCEPT ![r] = [NoJob EXCEPT !.forced = lock.stale]]
    /\ lock' = NoLock
    /\ Goto(r, "lock")
    /\ UNCHANGED << files, doer, loop, clocks, smokes, history >>

WriteLock(r) ==
    /\ At(r, "lock")
    /\ lock' = [by |-> {r}, stale |-> FALSE]
    /\ Goto(r, "read")
    /\ UNCHANGED << files, doer, loop, job, clocks, smokes, history >>

ActiveJobs(idx) == {j \in Jobs : idx[j] \in Active}

\* The same tick id as the last one that was completed, and nothing to poll.
SameTick(r) ==
    /\ At(r, "read")
    /\ beat # NoTick /\ ActiveJobs(index) = {}
    /\ lock' = NoLock
    /\ job' = [job EXCEPT ![r] = NoJob]
    /\ Goto(r, "idle")
    /\ UNCHANGED << files, doer, loop, clocks, smokes, history >>

ReadTick(r) ==
    /\ At(r, "read")
    /\ \E id \in TickIds :
          /\ id # beat \/ ActiveJobs(index) # {}
          /\ job' = [job EXCEPT ![r].tick = id,
                        ![r].pollOnly = job[r].forced \/ ActiveJobs(index) # {}]
    /\ Goto(r, "load")
    /\ UNCHANGED << files, locks, loop, clocks, smokes, history >>

\* ---- update_jobs: load and enqueue -----------------------------------------------------
RunningOf(idx, types) == {j \in Jobs : idx[j] = "RUNNING" /\ TypeOf[j] \in types}

Types == {TypeOf[j] : j \in Jobs}

\* No smoke job started within the cooldown, and none too many runs.
SmokeDue ==
    /\ \A k \in Jobs : TypeOf[k] \in Smoke /\ index[k] # "" => age[k] = 2
    /\ Cardinality(RunningOf(index, Smoke)) < MaxConcurrent

\* Faulty: an id that is in the index already is enqueued again.
EnqueuedAgain(r) ==
    {j \in Jobs \ Seeded :
        /\ TickOf[j] = job[r].tick /\ last # job[r].tick
        /\ \A k \in ActiveJobs(index) : TypeOf[k] # TypeOf[j]
        /\ TypeOf[j] \in Smoke => SmokeDue}

\* The jobs that a tick id adds to the index: one of each type that is not active, once.
Enqueued(r) ==
    {j \in Jobs \ Seeded :
        /\ TickOf[j] = job[r].tick /\ last # job[r].tick
        /\ index[j] = ""
        /\ \A k \in ActiveJobs(index) : TypeOf[k] # TypeOf[j]
        /\ TypeOf[j] \in Smoke => SmokeDue}

\* Preflight, active hours and the github jobs may keep a tick from enqueueing.
Load(r) ==
    /\ At(r, "load")
    /\ \E enqueue \in IF job[r].pollOnly THEN {{}} ELSE {{}, Enqueued(r)} :
       LET idx == [j \in Jobs |-> IF j \in enqueue THEN "QUEUED" ELSE index[j]] IN
          /\ job' = [job EXCEPT ![r].index = idx, ![r].todo = ActiveJobs(idx),
                        ![r].running = Cardinality(RunningOf(index, Types))]
          /\ age' = [j \in Jobs |-> IF j \in enqueue THEN 0 ELSE age[j]]
    /\ Goto(r, "visit")
    /\ UNCHANGED << files, locks, loop, since, smokes, history >>

\* ---- update_jobs: one job after the other ------------------------------------------------
\* The next job of the tick r is j, with the status st; the tick has polls left.
Visits(r, j, st) ==
    /\ At(r, "visit")
    /\ job[r].polled < MaxPoll
    /\ j \in job[r].todo
    /\ \A k \in job[r].todo : Rank[j] <= Rank[k]
    /\ job[r].index[j] = st

\* The job is left with this status, and the visit counts as a poll.
Visited(r, j, st) ==
    job' = [job EXCEPT ![r].index[j] = st, ![r].todo = @ \ {j}, ![r].polled = @ + 1]

\* Faulty: one too many.
RoomForOneMore(r) == job[r].running <= MaxRunning

Room(r) == job[r].running < MaxRunning

\* A running job within its poll interval, a queued one above the maximum.
PassOver(r) ==
    /\ \E j \in Jobs :
          /\ \/ Visits(r, j, "RUNNING") /\ since[j] = 0
             \/ Visits(r, j, "QUEUED") /\ ~ Room(r)
          /\ job' = [job EXCEPT ![r].todo = @ \ {j}]
    /\ UNCHANGED << files, locks, pc, loop, clocks, smokes, history >>

\* Not polled for so long that it is given up, whatever its process does: STUCK_JOB.
GiveUp(r) ==
    /\ \E j \in Jobs :
          Visits(r, j, "RUNNING") /\ since[j] = 2 /\ Visited(r, j, "SKIP")
    /\ UNCHANGED << files, locks, pc, loop, clocks, smokes, history >>

SkipNetwork(r) ==
    /\ \E j \in Jobs :
          /\ Visits(r, j, "QUEUED") /\ Room(r)
          /\ TypeOf[j] \in Network
          /\ Visited(r, j, "SKIP")
    /\ UNCHANGED << files, locks, pc, loop, clocks, smokes, history >>

\* While anything is active, nothing new is started.
PollQueued(r) ==
    /\ \E j \in Jobs :
          /\ Visits(r, j, "QUEUED") /\ Room(r)
          /\ TypeOf[j] \notin Network /\ job[r].pollOnly
          /\ Visited(r, j, "QUEUED")
    /\ UNCHANGED << files, locks, pc, loop, clocks, smokes, history >>

\* The job runs from now on, and the visit counts as a poll.
Started(r, j) ==
    job' = [job EXCEPT ![r].index[j] = "RUNNING", ![r].todo = @ \ {j}, ![r].polled = @ + 1,
                       ![r].running = @ + 1, ![r].started = @ \cup {j}]

StartSmoke(r) ==
    /\ \E j \in Jobs :
          /\ Visits(r, j, "QUEUED") /\ Room(r)
          /\ TypeOf[j] \in Smoke /\ ~ job[r].pollOnly
          /\ Started(r, j)
          /\ alive' = [alive EXCEPT ![j] = @ + 1]
          /\ starts' = [starts EXCEPT ![j] = @ + 1]
          /\ age' = [age EXCEPT ![j] = 0]
          /\ since' = [since EXCEPT ![j] = 0]
    /\ UNCHANGED << files, locks, pc, loop, rc, lost, kills >>

\* A release is prepared within the tick.
RunInline(r) ==
    /\ \E j \in Jobs, st \in {"PASS", "SKIP", "FAIL"} :
          /\ Visits(r, j, "QUEUED") /\ Room(r)
          /\ TypeOf[j] \notin Smoke \cup Network /\ ~ job[r].pollOnly
          /\ Visited(r, j, st)
    /\ UNCHANGED << files, locks, pc, loop, clocks, smokes, history >>

\* JOB_NO_HANDLER: only a seeded job can be running without a process.
NoHandler(r) ==
    /\ \E j \in Jobs :
          /\ Visits(r, j, "RUNNING") /\ since[j] = 1
          /\ TypeOf[j] \notin Smoke
          /\ Visited(r, j, "FAIL")
    /\ UNCHANGED << files, locks, pc, loop, clocks, smokes, history >>

\* ---- _poll_smoke_full_job -----------------------------------------------------------------
Polls(r, j) == Visits(r, j, "RUNNING") /\ since[j] = 1 /\ TypeOf[j] \in Smoke

\* Faulty: the process is left running.
TimeoutAlone(r) ==
    /\ \E j \in Jobs :
          /\ Polls(r, j) /\ age[j] >= 1
          /\ Visited(r, j, "TIMEOUT")
    /\ UNCHANGED << files, locks, pc, loop, clocks, smokes, history >>

\* The time is looked at before the result; the process is sent a SIGTERM.
PollTimeout(r) ==
    /\ \E j \in Jobs :
          /\ Polls(r, j) /\ age[j] >= 1
          /\ Visited(r, j, "TIMEOUT")
          /\ alive' = [alive EXCEPT ![j] = IF @ > 0 THEN @ - 1 ELSE 0]
    /\ UNCHANGED << files, locks, pc, loop, clocks, rc, history >>

PollResult(r) ==
    /\ \E j \in Jobs :
          /\ Polls(r, j) /\ age[j] = 0
          /\ rc[j] # "none"
          /\ Visited(r, j, IF rc[j] = "ok" THEN "PASS" ELSE "FAIL")
    /\ UNCHANGED << files, locks, pc, loop, clocks, smokes, history >>

\* No result file: the next step asks for the process.
PollNoResult(r) ==
    /\ \E j \in Jobs : Polls(r, j) /\ age[j] = 0 /\ rc[j] = "none"
    /\ Goto(r, "pid")
    /\ UNCHANGED << files, locks, loop, job, clocks, smokes, history >>

\* The process is gone: JOB_NO_RESULT, even if it has written its result by now.
PollPid(r) ==
    /\ At(r, "pid")
    /\ \E j \in job[r].todo :
          /\ \A k \in job[r].todo : Rank[j] <= Rank[k]
          /\ Visited(r, j, IF alive[j] > 0 THEN "RUNNING" ELSE "FAIL")
          /\ since' = IF alive[j] > 0 THEN [since EXCEPT ![j] = 0] ELSE since
    /\ Goto(r, "visit")
    /\ UNCHANGED << files, locks, loop, age, smokes, history >>

VisitsDone(r) ==
    /\ At(r, "visit")
    /\ job[r].todo = {} \/ job[r].polled >= MaxPoll
    /\ Goto(r, "save")
    /\ UNCHANGED << files, locks, loop, job, clocks, smokes, history >>

\* ---- update_jobs: clean up and save -----------------------------------------------------------
\* Faulty: nothing is cleaned up.
NotCleaned(r) == job[r].index

\* Faulty: what has ended is cleaned up as well.
AllCleaned(r) == [j \in Jobs |-> IF age[j] = 2 THEN "SKIP" ELSE job[r].index[j]]

\* Faulty: the clean-up leaves a status that no list of the code has.
CleanedAsStuck(r) ==
    [j \in Jobs |-> IF job[r].index[j] \in Active /\ age[j] = 2 THEN "STUCK_JOB"
                    ELSE job[r].index[j]]

\* cleanup_stuck_jobs: no progress for too long.
Cleaned(r) ==
    [j \in Jobs |-> IF job[r].index[j] \in Active /\ age[j] = 2 THEN "SKIP"
                    ELSE job[r].index[j]]

\* The jobs that have ended in this update.
Ended(r) == {j \in Jobs : index[j] \notin Terminal /\ Cleaned(r)[j] \in Terminal}

\* closeout_jobs moves the files of a job that has ended to the archive, with
\* closeout_ttl_days = 0 in the same update.
Save(r) ==
    /\ At(r, "save")
    /\ index' = Cleaned(r)
    /\ last' = job[r].tick
    /\ rc' = [j \in Jobs |-> IF j \in Ended(r) THEN "none" ELSE rc[j]]
    /\ since' = [j \in Jobs |-> IF j \in Ended(r) THEN 0 ELSE since[j]]
    /\ job' = [job EXCEPT ![r] = [NoJob EXCEPT !.tick = job[r].tick]]
    /\ Goto(r, "end")
    /\ UNCHANGED << beat, locks, loop, age, alive, history >>

\* The heartbeat, and the lock is removed whoever wrote it.
TickEnd(r) ==
    /\ At(r, "end")
    /\ beat' = job[r].tick
    /\ lock' = NoLock
    /\ job' = [job EXCEPT ![r] = NoJob]
    /\ Goto(r, "idle")
    /\ UNCHANGED << index, last, doer, loop, clocks, smokes, history >>

Visit(r) ==
    \/ PassOver(r) \/ GiveUp(r) \/ SkipNetwork(r) \/ PollQueued(r) \/ StartSmoke(r)
    \/ RunInline(r) \/ NoHandler(r) \/ PollTimeout(r) \/ PollResult(r) \/ PollNoResult(r)
    \/ PollPid(r) \/ VisitsDone(r)

Tick(r) ==
    \/ TickBegin(r) \/ WriteLock(r) \/ SameTick(r) \/ ReadTick(r) \/ Load(r) \/ Visit(r)
    \/ Save(r) \/ TickEnd(r)

-------------------------------------------------------------------------------
\* ---- seed_jobs: loads and saves the index without the lock -------------------------
Seed ==
    /\ Overlap \/ \A r \in Runners : ~ Updating(r)
    /\ \E j \in Seeded, st \in Active :
          /\ index[j] = ""
          /\ index' = [index EXCEPT ![j] = st]
          /\ age' = [age EXCEPT ![j] = 0]
          /\ since' = [since EXCEPT ![j] = 0]
    /\ UNCHANGED << last, beat, locks, pc, loop, job, smokes, history >>

\* ---- the smoke processes -------------------------------------------------------------
SmokeEnds(j) ==
    /\ alive[j] > 0
    /\ alive' = [alive EXCEPT ![j] = @ - 1]
    /\ \E res \in {"ok", "bad"} : rc' = [rc EXCEPT ![j] = res]
    /\ UNCHANGED << files, locks, pc, loop, job, clocks, history >>

\* It dies without a result.
SmokeDies(j) ==
    /\ alive[j] > 0
    /\ alive' = [alive EXCEPT ![j] = @ - 1]
    /\ UNCHANGED << files, locks, pc, loop, job, clocks, rc, history >>

-------------------------------------------------------------------------------
\* ---- time and crashes ------------------------------------------------------------------
Ages(j) ==
    /\ index[j] \in Active \/ (index[j] # "" /\ TypeOf[j] \in Smoke)
    /\ age[j] < 2
    /\ age[j] = 1 /\ index[j] = "RUNNING" => since[j] > 0
    /\ age' = [age EXCEPT ![j] = @ + 1]
    /\ UNCHANGED << files, locks, pc, loop, job, since, smokes, history >>

Unpolled(j) ==
    /\ index[j] = "RUNNING"
    /\ since[j] = 0 \/ (since[j] = 1 /\ age[j] = 2)
    /\ since' = [since EXCEPT ![j] = @ + 1]
    /\ UNCHANGED << files, locks, pc, loop, job, age, smokes, history >>

LockExpires ==
    /\ ~ Free(lock)
    /\ Overlap \/ \A r \in lock.by : At(r, "idle")
    /\ lock' = [lock EXCEPT !.stale = TRUE]
    /\ UNCHANGED << files, doer, pc, loop, job, clocks, smokes, history >>

DoerExpires ==
    /\ ~ Free(doer)
    /\ Overlap \/ \A r \in doer.by : loop[r] = "none"
    /\ doer' = [doer EXCEPT !.stale = TRUE]
    /\ UNCHANGED << files, lock, pc, loop, job, clocks, smokes, history >>

\* The starts that were not saved are lost with the copy of the index.
Dropped(r) ==
    /\ kills < MaxKills
    /\ kills' = kills + 1
    /\ lost' = [j \in Jobs |->
                   IF Updating(r) /\ j \in job[r].started THEN lost[j] + 1 ELSE lost[j]]
    /\ job' = [job EXCEPT ![r] = NoJob]
    /\ loop' = [loop EXCEPT ![r] = "none"]
    /\ Goto(r, "idle")

\* A call of the tick raises: the finally removes the lock, the loop ends as well.
TickFails(r) ==
    /\ pc[r] \in {"load", "visit", "pid", "save", "end"}
    /\ Dropped(r)
    /\ lock' = NoLock
    /\ UNCHANGED << files, doer, clocks, smokes, starts >>

\* A runner is killed: its locks stay.
Kill(r) ==
    /\ ~ At(r, "idle") \/ loop[r] # "none"
    /\ Dropped(r)
    /\ UNCHANGED << files, locks, clocks, smokes, starts >>

Next ==
    \/ \E r \in Runners : Loop(r) \/ Tick(r) \/ TickFails(r) \/ Kill(r)
    \/ Seed
    \/ \E j \in Jobs : SmokeEnds(j) \/ SmokeDies(j) \/ Ages(j) \/ Unpolled(j)
    \/ LockExpires \/ DoerExpires

Spec == Init /\ [][Next]_vars

\* The airunner is run again and again, time passes; a smoke process may hang.
FairSpec ==
    /\ Spec
    /\ \A r \in Runners : WF_vars(Tick(r)) /\ WF_vars(LoopLock(r))
    /\ \A j \in Jobs : WF_vars(Ages(j)) /\ WF_vars(Unpolled(j))
    /\ WF_vars(LockExpires)

-------------------------------------------------------------------------------
\* Types of every variable.
TypeOK ==
    /\ index \in [Jobs -> {""} \cup Active \cup Terminal]
    /\ {last, beat} \subseteq TickIds \cup {NoTick}
    /\ lock.by \subseteq Runners /\ doer.by \subseteq Runners
    /\ pc \in [Runners -> {"idle", "lock", "read", "load", "visit", "pid", "save", "end"}]
    /\ loop \in [Runners -> {"none", "lock", "run"}]
    /\ age \in [Jobs -> 0 .. 2] /\ since \in [Jobs -> 0 .. 2]
    /\ rc \in [Jobs -> {"none", "ok", "bad"}]
    /\ \A j \in Jobs : alive[j] \in 0 .. starts[j]

\* A job is started twice only when the tick that started it ended before it saved the
\* index: no two ticks, and no later tick with the same id, start it again.
StartedOnce == \A j \in Jobs : starts[j] <= 1 + lost[j]

\* A smoke process that runs is one that the index, or a tick that updates it, has
\* RUNNING.  The others were started by a tick that ended before it saved, or given up
\* as stuck; a timeout leaves none behind.
ProcessesWatched ==
    \A j \in Jobs : alive[j] > 0 =>
        \/ index[j] = "RUNNING"
        \/ \E r \in Runners : Updating(r) /\ job[r].index[j] = "RUNNING"
        \/ lost[j] > 0
        \/ "SKIP" \in {index[j]} \cup {job[r].index[j] : r \in Runners}

\* No more jobs run than the policy's max_running_jobs allows, those apart that are
\* seeded as running.
RunningBounded ==
    Cardinality({j \in Jobs \ Seeded : index[j] = "RUNNING"}) <= MaxRunning

\* One tick and one loop work in the workspace at a time, and each is covered by its
\* lock until it ends: no tick, loop or clean-up removes the lock of another one.
Covered ==
    /\ \A r \in Runners : pc[r] \notin {"idle", "lock"} => lock = [by |-> {r}, stale |-> FALSE]
    /\ \A r \in Runners : loop[r] = "run" => doer = [by |-> LeaseOf[r], stale |-> FALSE]
    /\ \A r, s \in Runners : loop[r] = "run" /\ loop[s] = "run" => r = s

\* A job in the index only moves forward: what has ended stays as it ended, and what
\* was started is never queued again or forgotten.
ForwardOnly ==
    [][\A j \in Jobs :
          /\ index[j] \in Terminal => index'[j] = index[j]
          /\ index[j] = "RUNNING" => index'[j] \in {"RUNNING"} \cup Terminal]_index

\* Every job ends, whatever hangs, is killed or loses its result.
JobsEnd == \A j \in Jobs : index[j] \in Active ~> index[j] \in Terminal

\* The lock of a tick is never in the way for good, even if its owner was killed.
LockFreed == []<> Free(lock)

===============================================================================
