----------------------------- MODULE Airunner_proofs -----------------------------
(***************************************************************************)
(* Theorems about Airunner for every value of its constants.               *)
(***************************************************************************)
EXTENDS Airunner, FiniteSetTheorems, TLAPS

-------------------------------------------------------------------------------
\* TYPE CORRECTNESS
Status == {""} \cup Active \cup Terminal
Labels == {"idle", "lock", "read", "load", "visit", "pid", "save", "end"}
Lock == [by : SUBSET Runners, stale : BOOLEAN]
Ticks == TickIds \cup {NoTick}

\* What the tick of a runner keeps in memory.
Memory == [index : [Jobs -> Status], todo : SUBSET Jobs, tick : Ticks, forced : BOOLEAN,
           pollOnly : BOOLEAN, running : Nat, polled : Nat, started : SUBSET Jobs]

TypeInv ==
    /\ TypeOK
    /\ lock \in Lock /\ doer \in Lock
    /\ job \in [Runners -> Memory]
    /\ alive \in [Jobs -> Nat] /\ starts \in [Jobs -> Nat] /\ lost \in [Jobs -> Nat]
    /\ kills \in Nat

LEMMA NoJobType == NoJob \in Memory
  BY DEF NoJob, Memory, Status, Ticks

LEMMA RunningType ==
  ASSUME NEW idx, NEW types
  PROVE  Cardinality(RunningOf(idx, types)) \in Nat
<1>1. RunningOf(idx, types) \subseteq Jobs
  BY DEF RunningOf
<1>. QED
  BY <1>1, JobsAssumption, FS_Subset, FS_CardinalityType

\* What a visit does to the memory of the tick, and to nothing else of it.
LEMMA VisitedMemory ==
  ASSUME job \in [Runners -> Memory], NEW r \in Runners, NEW j \in Jobs, NEW st \in Status,
         Visited(r, j, st)
  PROVE  /\ job' \in [Runners -> Memory]
         /\ \A s \in Runners \ {r} : job'[s] = job[s]
         /\ job'[r].index = [job[r].index EXCEPT ![j] = st]
         /\ job'[r].todo = job[r].todo \ {j}
         /\ job'[r].started = job[r].started
         /\ job'[r].running = job[r].running
<1>. DEFINE idx == [job[r].index EXCEPT ![j] = st]
            todo == job[r].todo \ {j}
            n == job[r].polled + 1
            k == [job[r] EXCEPT !.index = idx, !.todo = todo, !.polled = n]
<1>1. idx \in [Jobs -> Status] /\ todo \in SUBSET Jobs /\ n \in Nat /\ job[r] \in Memory
  BY DEF Memory
<1>2. job' = [job EXCEPT ![r] = k]
  BY DEF Visited
<1>3. /\ k \in Memory /\ k.index = idx /\ k.todo = todo
      /\ k.started = job[r].started /\ k.running = job[r].running
  <2>. HIDE DEF idx, todo, n
  <2>. QED
    BY <1>1 DEF Memory
<1>. HIDE DEF k
<1>. QED
  BY <1>2, <1>3

\* The memory of a tick that has started a process.
LEMMA StartedMemory ==
  ASSUME job \in [Runners -> Memory], NEW r \in Runners, NEW j \in Jobs,
         Started(r, j)
  PROVE  /\ job' \in [Runners -> Memory]
         /\ \A s \in Runners \ {r} : job'[s] = job[s]
         /\ job'[r].index = [job[r].index EXCEPT ![j] = "RUNNING"]
         /\ job'[r].todo = job[r].todo \ {j}
         /\ job'[r].started = job[r].started \cup {j}
         /\ job'[r].running = job[r].running + 1
<1>. DEFINE idx == [job[r].index EXCEPT ![j] = "RUNNING"]
            todo == job[r].todo \ {j}
            n == job[r].polled + 1
            m == job[r].running + 1
            started == job[r].started \cup {j}
            k == [job[r] EXCEPT !.index = idx, !.todo = todo, !.polled = n, !.running = m,
                                !.started = started]
<1>0. "RUNNING" \in Status
  BY DEF Status, Active
<1>1. /\ idx \in [Jobs -> Status] /\ todo \in SUBSET Jobs /\ n \in Nat /\ m \in Nat
      /\ started \in SUBSET Jobs /\ job[r] \in Memory
  BY <1>0 DEF Memory
<1>2. job' = [job EXCEPT ![r] = k]
  BY DEF Started
<1>3. /\ k \in Memory /\ k.index = idx /\ k.todo = todo
      /\ k.started = started /\ k.running = m
  <2>. HIDE DEF idx, todo, n, m, started
  <2>. QED
    BY <1>1 DEF Memory
<1>. HIDE DEF k
<1>. QED
  BY <1>2, <1>3

\* The types that arithmetic is done with.
LEMMA NumberTypes ==
  ASSUME TypeInv
  PROVE  /\ age \in [Jobs -> 0 .. 2] /\ since \in [Jobs -> 0 .. 2]
         /\ alive \in [Jobs -> Nat] /\ starts \in [Jobs -> Nat] /\ lost \in [Jobs -> Nat]
         /\ kills \in Nat
         /\ \A j \in Jobs : alive[j] <= starts[j]
<1>1. \A j \in Jobs : alive[j] \in 0 .. starts[j]
  BY DEF TypeInv, TypeOK
<1>2. /\ age \in [Jobs -> 0 .. 2] /\ since \in [Jobs -> 0 .. 2]
      /\ alive \in [Jobs -> Nat] /\ starts \in [Jobs -> Nat] /\ lost \in [Jobs -> Nat]
      /\ kills \in Nat
  BY DEF TypeInv, TypeOK
<1>. QED
  BY <1>1, <1>2

\* The types are kept.
LEMMA TypeStep ==
  ASSUME TypeInv, [Next]_vars
  PROVE  TypeInv'
<1>1. ASSUME NEW r \in Runners, LoopBegin(r) PROVE TypeInv'
  BY <1>1, JobsAssumption
     DEF LoopBegin, NoLock, Lock, TypeInv, TypeOK, files, clocks, smokes, history
<1>2. ASSUME NEW r \in Runners, LoopLock(r) PROVE TypeInv'
  BY <1>2, JobsAssumption DEF LoopLock, Lock, TypeInv, TypeOK, files, clocks, smokes, history
<1>3. ASSUME NEW r \in Runners, LoopEnd(r) PROVE TypeInv'
  BY <1>3
     DEF LoopEnd, NoLock, Lock, TypeInv, TypeOK, files, clocks, smokes, history
<1>4. ASSUME NEW r \in Runners, LoopFails(r) PROVE TypeInv'
  BY <1>4 DEF LoopFails, TypeInv, TypeOK, files, locks, clocks, smokes, history
<1>5. ASSUME NEW r \in Runners, WriteLock(r) PROVE TypeInv'
  BY <1>5 DEF WriteLock, Goto, Lock, TypeInv, TypeOK, files, clocks, smokes, history
<1>6. ASSUME NEW r \in Runners, TickBegin(r) PROVE TypeInv'
  <2>1. job' \in [Runners -> Memory]
    <3>1. [NoJob EXCEPT !.forced = lock.stale] \in Memory
      BY NoJobType DEF Memory, Lock, TypeInv
    <3>. QED
      BY <1>6, <3>1 DEF TickBegin, TypeInv
  <2>. QED
    BY <1>6, <2>1
       DEF TickBegin, NoLock, Goto, Lock, TypeInv, TypeOK, files, clocks, smokes, history
<1>7. ASSUME NEW r \in Runners, SameTick(r) PROVE TypeInv'
  <2>1. job' \in [Runners -> Memory]
    BY <1>7, NoJobType DEF SameTick, TypeInv
  <2>. QED
    BY <1>7, <2>1
       DEF SameTick, NoLock, Goto, Lock, TypeInv, TypeOK, files, clocks, smokes, history
<1>8. ASSUME NEW r \in Runners, ReadTick(r) PROVE TypeInv'
  <2>1. job' \in [Runners -> Memory]
    <3>1. PICK id \in TickIds :
             job' = [job EXCEPT ![r].tick = id,
                        ![r].pollOnly = job[r].forced \/ ActiveJobs(index) # {}]
      BY <1>8 DEF ReadTick
    <3>. DEFINE b == job[r].forced \/ ActiveJobs(index) # {}
    <3>2. b \in BOOLEAN /\ job[r] \in Memory
      BY DEF Memory, TypeInv
    <3>3. job' = [job EXCEPT ![r] = [job[r] EXCEPT !.tick = id, !.pollOnly = b]]
      BY <3>1 DEF TypeInv
    <3>. HIDE DEF b
    <3>. QED
      BY <3>2, <3>3 DEF Memory, Ticks, TypeInv
  <2>. QED
    BY <1>8, <2>1 DEF ReadTick, Goto, TypeInv, TypeOK, files, locks, clocks, smokes, history
<1>9. ASSUME NEW r \in Runners, Load(r) PROVE TypeInv'
  <2>1. PICK enqueue \in IF job[r].pollOnly THEN {{}} ELSE {{}, Enqueued(r)} :
           LET idx == [j \in Jobs |-> IF j \in enqueue THEN "QUEUED" ELSE index[j]] IN
              /\ job' = [job EXCEPT ![r].index = idx, ![r].todo = ActiveJobs(idx),
                            ![r].running = Cardinality(RunningOf(index, Types))]
              /\ age' = [j \in Jobs |-> IF j \in enqueue THEN 0 ELSE age[j]]
    BY <1>9 DEF Load
  <2>. DEFINE idx == [j \in Jobs |-> IF j \in enqueue THEN "QUEUED" ELSE index[j]]
              todo == ActiveJobs(idx)
              n == Cardinality(RunningOf(index, Types))
  <2>2. idx \in [Jobs -> Status] /\ todo \in SUBSET Jobs /\ n \in Nat /\ job[r] \in Memory
    BY RunningType DEF TypeInv, TypeOK, Status, Active, ActiveJobs
  <2>3. job' = [job EXCEPT ![r] = [job[r] EXCEPT !.index = idx, !.todo = todo, !.running = n]]
    BY <2>1 DEF TypeInv
  <2>4. job' \in [Runners -> Memory]
    <3>. DEFINE k == [job[r] EXCEPT !.index = idx, !.todo = todo, !.running = n]
    <3>1. k \in Memory
      <4>. HIDE DEF idx, todo, n
      <4>. QED
        BY <2>2 DEF Memory
    <3>. HIDE DEF k
    <3>. QED
      BY <2>3, <3>1 DEF k, TypeInv
  <2>5. age' \in [Jobs -> 0 .. 2]
    <3>1. age' = [j \in Jobs |-> IF j \in enqueue THEN 0 ELSE age[j]]
      BY <2>1
    <3>. QED
      BY <3>1, NumberTypes
  <2>. QED
    BY <1>9, <2>4, <2>5 DEF Load, Goto, TypeInv, TypeOK, files, locks, smokes, history
<1>10. ASSUME NEW r \in Runners, PassOver(r) PROVE TypeInv'
  <2>1. job' \in [Runners -> Memory]
    <3>1. PICK j \in Jobs : job' = [job EXCEPT ![r].todo = @ \ {j}]
      BY <1>10 DEF PassOver
    <3>. DEFINE todo == job[r].todo \ {j}
    <3>2. todo \in SUBSET Jobs /\ job[r] \in Memory
      BY DEF Memory, TypeInv
    <3>3. job' = [job EXCEPT ![r] = [job[r] EXCEPT !.todo = todo]]
      BY <3>1 DEF TypeInv
    <3>. HIDE DEF todo
    <3>. QED
      BY <3>2, <3>3 DEF Memory, TypeInv
  <2>. QED
    BY <1>10, <2>1 DEF PassOver, TypeInv, TypeOK, files, locks, clocks, smokes, history
<1>11. ASSUME NEW r \in Runners, GiveUp(r) PROVE TypeInv'
  <2>1. job' \in [Runners -> Memory]
    <3>1. PICK j \in Jobs : Visited(r, j, "SKIP")
      BY <1>11 DEF GiveUp
    <3>. QED
      BY <3>1, VisitedMemory DEF TypeInv, Status, Active, Terminal
  <2>. QED
    BY <1>11, <2>1 DEF GiveUp, TypeInv, TypeOK, files, locks, clocks, smokes, history
<1>12. ASSUME NEW r \in Runners, SkipNetwork(r) PROVE TypeInv'
  <2>1. job' \in [Runners -> Memory]
    <3>1. PICK j \in Jobs : Visited(r, j, "SKIP")
      BY <1>12 DEF SkipNetwork
    <3>. QED
      BY <3>1, VisitedMemory DEF TypeInv, Status, Active, Terminal
  <2>. QED
    BY <1>12, <2>1 DEF SkipNetwork, TypeInv, TypeOK, files, locks, clocks, smokes, history
<1>13. ASSUME NEW r \in Runners, PollQueued(r) PROVE TypeInv'
  <2>1. job' \in [Runners -> Memory]
    <3>1. PICK j \in Jobs : Visited(r, j, "QUEUED")
      BY <1>13 DEF PollQueued
    <3>. QED
      BY <3>1, VisitedMemory DEF TypeInv, Status, Active, Terminal
  <2>. QED
    BY <1>13, <2>1 DEF PollQueued, TypeInv, TypeOK, files, locks, clocks, smokes, history
<1>14. ASSUME NEW r \in Runners, NoHandler(r) PROVE TypeInv'
  <2>1. job' \in [Runners -> Memory]
    <3>1. PICK j \in Jobs : Visited(r, j, "FAIL")
      BY <1>14 DEF NoHandler
    <3>. QED
      BY <3>1, VisitedMemory DEF TypeInv, Status, Active, Terminal
  <2>. QED
    BY <1>14, <2>1 DEF NoHandler, TypeInv, TypeOK, files, locks, clocks, smokes, history
<1>15. ASSUME NEW r \in Runners, StartSmoke(r) PROVE TypeInv'
  <2>1. job' \in [Runners -> Memory]
    <3>1. PICK j \in Jobs : Started(r, j)
      BY <1>15 DEF StartSmoke
    <3>. QED
      BY <3>1, StartedMemory DEF TypeInv
  <2>2. PICK j \in Jobs : /\ alive' = [alive EXCEPT ![j] = alive[j] + 1]
                         /\ starts' = [starts EXCEPT ![j] = starts[j] + 1]
                         /\ age' = [age EXCEPT ![j] = 0]
                         /\ since' = [since EXCEPT ![j] = 0]
    BY <1>15 DEF StartSmoke
  <2>3. /\ alive' \in [Jobs -> Nat] /\ starts' \in [Jobs -> Nat]
        /\ \A k \in Jobs : alive'[k] \in 0 .. starts'[k]
    BY <2>2, NumberTypes
  <2>4. age' \in [Jobs -> 0 .. 2] /\ since' \in [Jobs -> 0 .. 2]
    BY <2>2, NumberTypes
  <2>. QED
    BY <1>15, <2>1, <2>3, <2>4 DEF StartSmoke, TypeInv, TypeOK, files, locks
<1>16. ASSUME NEW r \in Runners, RunInline(r) PROVE TypeInv'
  <2>1. job' \in [Runners -> Memory]
    <3>1. PICK j \in Jobs, st \in {"PASS", "SKIP", "FAIL"} : Visited(r, j, st)
      BY <1>16 DEF RunInline
    <3>. QED
      BY <3>1, VisitedMemory DEF TypeInv, Status, Terminal
  <2>. QED
    BY <1>16, <2>1 DEF RunInline, TypeInv, TypeOK, files, locks, clocks, smokes, history
<1>17. ASSUME NEW r \in Runners, PollTimeout(r) PROVE TypeInv'
  <2>1. PICK j \in Jobs : /\ Visited(r, j, "TIMEOUT")
                         /\ alive' = [alive EXCEPT ![j] = IF @ > 0 THEN @ - 1 ELSE 0]
    BY <1>17 DEF PollTimeout
  <2>2. job' \in [Runners -> Memory]
    BY <2>1, VisitedMemory DEF TypeInv, Status, Terminal
  <2>3. alive' = [alive EXCEPT ![j] = IF alive[j] > 0 THEN alive[j] - 1 ELSE 0]
    BY <2>1
  <2>4. alive' \in [Jobs -> Nat] /\ \A k \in Jobs : alive'[k] \in 0 .. starts[k]
    BY <2>3, NumberTypes
  <2>. QED
    BY <1>17, <2>2, <2>4 DEF PollTimeout, TypeInv, TypeOK, files, locks, clocks, history
<1>18. ASSUME NEW r \in Runners, PollResult(r) PROVE TypeInv'
  <2>1. job' \in [Runners -> Memory]
    <3>1. PICK j \in Jobs : Visited(r, j, IF rc[j] = "ok" THEN "PASS" ELSE "FAIL")
      BY <1>18 DEF PollResult
    <3>. QED
      BY <3>1, VisitedMemory DEF TypeInv, Status, Terminal
  <2>. QED
    BY <1>18, <2>1 DEF PollResult, TypeInv, TypeOK, files, locks, clocks, smokes, history
<1>19. ASSUME NEW r \in Runners, PollNoResult(r) PROVE TypeInv'
  BY <1>19 DEF PollNoResult, Goto, TypeInv, TypeOK, files, locks, clocks, smokes, history
<1>20. ASSUME NEW r \in Runners, PollPid(r) PROVE TypeInv'
  <2>1. PICK j \in job[r].todo :
           /\ Visited(r, j, IF alive[j] > 0 THEN "RUNNING" ELSE "FAIL")
           /\ since' = IF alive[j] > 0 THEN [since EXCEPT ![j] = 0] ELSE since
    BY <1>20 DEF PollPid
  <2>2. j \in Jobs
    BY DEF TypeInv, Memory
  <2>3. job' \in [Runners -> Memory]
    BY <2>1, <2>2, VisitedMemory DEF TypeInv, Status, Active, Terminal
  <2>4. since' = [since EXCEPT ![j] = 0] \/ since' = since
    BY <2>1
  <2>5. since' \in [Jobs -> 0 .. 2]
    BY <2>2, <2>4, NumberTypes
  <2>. QED
    BY <1>20, <2>3, <2>5 DEF PollPid, Goto, TypeInv, TypeOK, files, locks, smokes, history
<1>21. ASSUME NEW r \in Runners, VisitsDone(r) PROVE TypeInv'
  BY <1>21 DEF VisitsDone, Goto, TypeInv, TypeOK, files, locks, clocks, smokes, history
<1>22. ASSUME NEW r \in Runners, Save(r) PROVE TypeInv'
  <2>1. job' \in [Runners -> Memory]
    <3>1. [NoJob EXCEPT !.tick = job[r].tick] \in Memory
      BY NoJobType DEF Memory, TypeInv
    <3>. QED
      BY <1>22, <3>1 DEF Save, TypeInv
  <2>2. index' \in [Jobs -> {""} \cup Active \cup Terminal]
    <3>1. job[r].index \in [Jobs -> {""} \cup Active \cup Terminal]
      BY DEF Memory, Status, TypeInv
    <3>2. index' = [j \in Jobs |-> IF job[r].index[j] \in Active /\ age[j] = 2 THEN "SKIP"
                                  ELSE job[r].index[j]]
      BY <1>22 DEF Save, Cleaned
    <3>. QED
      BY <3>1, <3>2 DEF Terminal
  <2>3. last' \in TickIds \cup {NoTick}
    BY <1>22 DEF Save, Memory, Ticks, TypeInv
  <2>4. rc' \in [Jobs -> {"none", "ok", "bad"}]
    BY <1>22 DEF Save, TypeInv, TypeOK
  <2>5. since' \in [Jobs -> 0 .. 2]
    <3>1. since' = [j \in Jobs |-> IF j \in Ended(r) THEN 0 ELSE since[j]]
      BY <1>22 DEF Save
    <3>. QED
      BY <3>1, NumberTypes
  <2>. QED
    BY <1>22, <2>1, <2>2, <2>3, <2>4, <2>5 DEF Save, Goto, TypeInv, TypeOK, locks, history
<1>23. ASSUME NEW r \in Runners, TickEnd(r) PROVE TypeInv'
  <2>1. job' \in [Runners -> Memory]
    BY <1>23, NoJobType DEF TickEnd, TypeInv
  <2>2. beat' \in TickIds \cup {NoTick}
    BY <1>23 DEF TickEnd, Memory, Ticks, TypeInv
  <2>. QED
    BY <1>23, <2>1, <2>2
       DEF TickEnd, NoLock, Goto, Lock, TypeInv, TypeOK, clocks, smokes, history
<1>24. ASSUME NEW r \in Runners, TickFails(r) PROVE TypeInv'
  <2>1. job' \in [Runners -> Memory]
    BY <1>24, NoJobType DEF TickFails, Dropped, TypeInv
  <2>2. lost' = [j \in Jobs |->
                   IF Updating(r) /\ j \in job[r].started THEN lost[j] + 1 ELSE lost[j]]
    BY <1>24 DEF TickFails, Dropped
  <2>3. lost' \in [Jobs -> Nat]
    BY <2>2, NumberTypes
  <2>4. kills' \in Nat
    BY <1>24, NumberTypes DEF TickFails, Dropped
  <2>. QED
    BY <1>24, <2>1, <2>3, <2>4
       DEF TickFails, Dropped, NoLock, Goto, Lock, TypeInv, TypeOK, files, clocks, smokes
<1>25. ASSUME NEW r \in Runners, Kill(r) PROVE TypeInv'
  <2>1. job' \in [Runners -> Memory]
    BY <1>25, NoJobType DEF Kill, Dropped, TypeInv
  <2>2. lost' = [j \in Jobs |->
                   IF Updating(r) /\ j \in job[r].started THEN lost[j] + 1 ELSE lost[j]]
    BY <1>25 DEF Kill, Dropped
  <2>3. lost' \in [Jobs -> Nat]
    BY <2>2, NumberTypes
  <2>4. kills' \in Nat
    BY <1>25, NumberTypes DEF Kill, Dropped
  <2>. QED
    BY <1>25, <2>1, <2>3, <2>4
       DEF Kill, Dropped, Goto, TypeInv, TypeOK, files, locks, clocks, smokes
<1>26. CASE Seed
  <2>1. PICK j \in Seeded, st \in Active : /\ index' = [index EXCEPT ![j] = st]
                                          /\ age' = [age EXCEPT ![j] = 0]
                                          /\ since' = [since EXCEPT ![j] = 0]
    BY <1>26 DEF Seed
  <2>2. j \in Jobs
    BY JobsAssumption
  <2>3. index' \in [Jobs -> {""} \cup Active \cup Terminal]
    BY <2>1, <2>2 DEF TypeInv, TypeOK
  <2>4. age' \in [Jobs -> 0 .. 2] /\ since' \in [Jobs -> 0 .. 2]
    BY <2>1, <2>2, NumberTypes
  <2>. QED
    BY <1>26, <2>3, <2>4 DEF Seed, TypeInv, TypeOK, locks, smokes, history
<1>27. ASSUME NEW j \in Jobs, SmokeEnds(j) PROVE TypeInv'
  <2>1. alive[j] > 0 /\ alive' = [alive EXCEPT ![j] = alive[j] - 1]
    BY <1>27 DEF SmokeEnds
  <2>2. alive' \in [Jobs -> Nat] /\ \A k \in Jobs : alive'[k] \in 0 .. starts[k]
    BY <2>1, NumberTypes
  <2>3. rc' \in [Jobs -> {"none", "ok", "bad"}]
    BY <1>27 DEF SmokeEnds, TypeInv, TypeOK
  <2>. QED
    BY <1>27, <2>2, <2>3 DEF SmokeEnds, TypeInv, TypeOK, files, locks, clocks, history
<1>28. ASSUME NEW j \in Jobs, SmokeDies(j) PROVE TypeInv'
  <2>1. alive[j] > 0 /\ alive' = [alive EXCEPT ![j] = alive[j] - 1]
    BY <1>28 DEF SmokeDies
  <2>2. alive' \in [Jobs -> Nat] /\ \A k \in Jobs : alive'[k] \in 0 .. starts[k]
    BY <2>1, NumberTypes
  <2>. QED
    BY <1>28, <2>2 DEF SmokeDies, TypeInv, TypeOK, files, locks, clocks, history
<1>29. ASSUME NEW j \in Jobs, Ages(j) PROVE TypeInv'
  <2>1. age[j] < 2 /\ age' = [age EXCEPT ![j] = age[j] + 1]
    BY <1>29 DEF Ages
  <2>2. age' \in [Jobs -> 0 .. 2]
    BY <2>1, NumberTypes
  <2>. QED
    BY <1>29, <2>2 DEF Ages, TypeInv, TypeOK, files, locks, smokes, history
<1>30. ASSUME NEW j \in Jobs, Unpolled(j) PROVE TypeInv'
  <2>1. since[j] \in {0, 1} /\ since' = [since EXCEPT ![j] = since[j] + 1]
    BY <1>30 DEF Unpolled
  <2>2. since' \in [Jobs -> 0 .. 2]
    BY <2>1, NumberTypes
  <2>. QED
    BY <1>30, <2>2 DEF Unpolled, TypeInv, TypeOK, files, locks, smokes, history
<1>31. CASE LockExpires \/ DoerExpires
  <2>1. \/ lock' = [lock EXCEPT !.stale = TRUE] /\ doer' = doer
        \/ doer' = [doer EXCEPT !.stale = TRUE] /\ lock' = lock
    BY <1>31 DEF LockExpires, DoerExpires
  <2>2. lock' \in Lock /\ doer' \in Lock
    BY <2>1 DEF Lock, TypeInv
  <2>3. UNCHANGED << files, pc, loop, job, clocks, smokes, history >>
    BY <1>31 DEF LockExpires, DoerExpires
  <2>. QED
    BY <2>2, <2>3 DEF Lock, TypeInv, TypeOK, files, clocks, smokes, history
<1>32. CASE UNCHANGED vars
  BY <1>32 DEF vars, TypeInv, TypeOK, files, locks, clocks, smokes, history
<1>. QED
  BY <1>1, <1>2, <1>3, <1>4, <1>5, <1>6, <1>7, <1>8, <1>9, <1>10, <1>11, <1>12, <1>13,
     <1>14, <1>15, <1>16, <1>17, <1>18, <1>19, <1>20, <1>21, <1>22, <1>23, <1>24, <1>25,
     <1>26, <1>27, <1>28, <1>29, <1>30, <1>31, <1>32
     DEF Next, Loop, Tick, Visit

-------------------------------------------------------------------------------
\* THE INVARIANT
\* The tick of at most one runner works, under its lock, and so does one loop.
Locked ==
    /\ \A r \in Runners : pc[r] \notin {"idle", "lock"} => lock = [by |-> {r}, stale |-> FALSE]
    /\ \A r \in Runners : pc[r] = "lock" => lock = NoLock
    /\ \A r, s \in Runners : pc[r] # "idle" /\ pc[s] # "idle" => r = s
    /\ \A r \in Runners : loop[r] = "run" => doer = [by |-> LeaseOf[r], stale |-> FALSE]
    /\ \A r \in Runners : loop[r] = "lock" => doer = NoLock
    /\ \A r, s \in Runners : loop[r] # "none" /\ loop[s] # "none" => r = s

\* What the status of a job may become from a to b.
Forward(a, b) ==
    \/ a = ""
    \/ a = "QUEUED" /\ b # ""
    \/ a = "RUNNING" /\ b \in {"RUNNING"} \cup Terminal
    \/ a \in Terminal /\ b = a

\* The next job of the tick of r.
NextJob(r, j) == j \in job[r].todo /\ \A k \in job[r].todo : Rank[j] <= Rank[k]

\* The copy of the index that a tick updates is ahead of the index, and has what the tick
\* has started as running.
Copies ==
    /\ \A r \in Runners : ~ Updating(r) => job[r].started = {}
    /\ \A r \in Runners : Updating(r) =>
          /\ \A j \in Jobs : Forward(index[j], job[r].index[j])
          /\ \A j \in job[r].started : job[r].index[j] = "RUNNING" /\ j \notin job[r].todo
    /\ \A r \in Runners : pc[r] = "pid" =>
          \A j \in Jobs : NextJob(r, j) => job[r].index[j] = "RUNNING"

\* A tick has started the job and not saved that yet.
Pending(j) == \E r \in Runners : j \in job[r].started

\* A job that can be started has been started only by ticks that lost it; only such a job
\* has a result while a process of it runs.
CountedJob(j) ==
    /\ starts[j] <= lost[j] + 1
    /\ index[j] \in {"", "QUEUED"} /\ ~ Pending(j) => starts[j] <= lost[j]
    /\ starts[j] > 0 => TypeOf[j] \in Smoke
    /\ rc[j] # "none" /\ lost[j] = 0 => alive[j] = 0 /\ starts[j] = 1

Counted == \A j \in Jobs : CountedJob(j)

\* A process that no runner has lost has a job that runs, or was given up.
WatchedJob(j) ==
    alive[j] > 0 /\ lost[j] = 0 =>
        /\ index[j] \in {"RUNNING", "SKIP"} \/ Pending(j)
        /\ \A r \in Runners : Updating(r) => job[r].index[j] \in {"RUNNING", "SKIP"}

Watched == \A j \in Jobs : WatchedJob(j)

\* The jobs that run in a copy of the index, the seeded ones apart.
Enrolled(idx) == {j \in Jobs \ Seeded : idx[j] = "RUNNING"}

\* A tick counts at least the jobs that run.
Bounded ==
    /\ Cardinality(Enrolled(index)) <= MaxRunning
    /\ \A r \in Runners : Updating(r) =>
          /\ Cardinality(Enrolled(job[r].index)) <= job[r].running
          /\ Cardinality(Enrolled(job[r].index)) <= MaxRunning

-------------------------------------------------------------------------------
\* WHAT THE STEPS DO
\* What each action does to the jobs, as far as the invariant tells it apart.
Others(r) == \A s \in Runners \ {r} : pc'[s] = pc[s] /\ job'[s] = job[s]

Working(r, l) == pc[r] \in {"visit", "pid"} /\ pc'[r] = l /\ Others(r)

\* A visit that leaves every job as it is.
Kept(r) ==
    /\ \E l \in {"visit", "pid", "save"} : Working(r, l)
    /\ UNCHANGED << index, smokes, starts, lost >>
    /\ job'[r].index = job[r].index /\ job'[r].started = job[r].started
    /\ job'[r].running = job[r].running
    /\ job'[r].todo \subseteq job[r].todo
    /\ pc'[r] = "pid" => \A j \in Jobs : NextJob(r, j)' => job'[r].index[j] = "RUNNING"

\* A visit that leaves the job j with the status st.
Marked(r, j, st) ==
    /\ Working(r, "visit")
    /\ UNCHANGED << index, rc, starts, lost >>
    /\ alive' \in [Jobs -> Nat] /\ \A k \in Jobs : alive'[k] <= alive[k]
    /\ j \in job[r].todo /\ job[r].index[j] \in Active
    /\ st \in Active \cup Terminal /\ (st \in Active => st = job[r].index[j])
    /\ st \in Active \cup {"SKIP"} \/ alive'[j] = 0 \/ lost[j] > 0
    /\ job'[r].index = [job[r].index EXCEPT ![j] = st]
    /\ job'[r].todo = job[r].todo \ {j}
    /\ job'[r].started = job[r].started /\ job'[r].running = job[r].running

\* A visit that starts a process for the job j.
Launched(r, j) ==
    /\ Working(r, "visit")
    /\ UNCHANGED << index, rc, lost >>
    /\ alive' = [alive EXCEPT ![j] = alive[j] + 1]
    /\ starts' = [starts EXCEPT ![j] = starts[j] + 1]
    /\ j \in job[r].todo /\ job[r].index[j] = "QUEUED"
    /\ TypeOf[j] \in Smoke /\ job[r].running < MaxRunning
    /\ job'[r].index = [job[r].index EXCEPT ![j] = "RUNNING"]
    /\ job'[r].todo = job[r].todo \ {j}
    /\ job'[r].started = job[r].started \cup {j}
    /\ job'[r].running = job[r].running + 1

Loaded(r) ==
    /\ pc[r] = "load" /\ pc'[r] = "visit" /\ Others(r)
    /\ UNCHANGED << index, smokes, starts, lost >>
    /\ \A j \in Jobs : \/ job'[r].index[j] = index[j]
                       \/ index[j] = "" /\ job'[r].index[j] = "QUEUED"
    /\ job'[r].started = job[r].started
    /\ job'[r].running = Cardinality(RunningOf(index, Types))

Saved(r) ==
    /\ pc[r] = "save" /\ pc'[r] = "end" /\ Others(r)
    /\ UNCHANGED << alive, starts, lost >>
    /\ \A j \in Jobs : \/ index'[j] = job[r].index[j]
                       \/ job[r].index[j] \in Active /\ index'[j] = "SKIP"
    /\ \A j \in Jobs : rc'[j] \in {rc[j], "none"}
    /\ job'[r].started = {}

\* The tick of r ends, and what it has not saved is lost.
Aborted(r) ==
    /\ pc'[r] = "idle" /\ Others(r)
    /\ UNCHANGED << index, smokes, starts >>
    /\ lost' = [j \in Jobs |->
                  IF Updating(r) /\ j \in job[r].started THEN lost[j] + 1 ELSE lost[j]]
    /\ job'[r].started = {}

Sown(j) ==
    /\ \A r \in Runners : ~ Updating(r)
    /\ j \in Seeded /\ index[j] = ""
    /\ \E st \in Active : index' = [index EXCEPT ![j] = st]
    /\ UNCHANGED << pc, job, smokes, starts, lost >>

\* A process of the job j ends.
Exits(j) ==
    /\ alive[j] > 0 /\ alive' = [alive EXCEPT ![j] = alive[j] - 1]
    /\ \A k \in Jobs \ {j} : rc'[k] = rc[k]
    /\ UNCHANGED << index, pc, job, starts, lost >>

\* Nothing happens to the jobs: a tick begins or ends, a lock or a clock changes.
Quiet ==
    /\ UNCHANGED << index, smokes, starts, lost >>
    /\ \A r \in Runners :
          /\ job'[r].started = job[r].started
          /\ \/ pc'[r] = pc[r] /\ job'[r] = job[r]
             \/ pc'[r] \notin {"visit", "pid", "save"} /\ ~ Updating(r)

LEMMA NextJobUnique ==
  ASSUME NEW r \in Runners, job[r].todo \subseteq Jobs, NEW j, NEW k, NextJob(r, j), NextJob(r, k)
  PROVE  j = k
<1>1. j \in Jobs /\ k \in Jobs /\ Rank[j] <= Rank[k] /\ Rank[k] <= Rank[j]
  BY DEF NextJob
<1>. QED
  BY <1>1, JobsAssumption

\* A visit keeps, marks or starts one job of the copy.
LEMMA VisitEffect ==
  ASSUME TypeInv, TypeInv', Copies, Counted, NEW r \in Runners, Visit(r)
  PROVE  \/ Kept(r)
         \/ \E j \in Jobs : Launched(r, j)
         \/ \E j \in Jobs, st \in Status : Marked(r, j, st)
<1>. job \in [Runners -> Memory] /\ pc \in [Runners -> Labels]
  BY DEF TypeInv, TypeOK, Labels
<1>. job[r].todo \subseteq Jobs /\ job[r].index \in [Jobs -> Status]
  BY DEF Memory
<1>. DEFINE Goal == \E j \in Jobs, st \in Status : Marked(r, j, st)
<1>0. /\ "SKIP" \in Status /\ "QUEUED" \in Status /\ "RUNNING" \in Status
      /\ "PASS" \in Status /\ "FAIL" \in Status /\ "TIMEOUT" \in Status
      /\ "QUEUED" \in Active /\ "RUNNING" \in Active
  BY DEF Status, Active, Terminal
<1>1. ASSUME NEW j \in Jobs, NEW st \in Status, Visited(r, j, st), pc[r] \in {"visit", "pid"},
             pc' = [pc EXCEPT ![r] = "visit"], UNCHANGED << index, rc, starts, lost >>,
             j \in job[r].todo, job[r].index[j] \in Active,
             st \in Active \cup Terminal, st \in Active => st = job[r].index[j],
             \A k \in Jobs : alive'[k] <= alive[k],
             st \in Active \cup {"SKIP"} \/ alive'[j] = 0 \/ lost[j] > 0
      PROVE  Goal
  <2>1. alive' \in [Jobs -> Nat]
    BY DEF TypeInv
  <2>2. Marked(r, j, st)
    BY <1>1, <2>1, VisitedMemory DEF Marked, Working, Others
  <2>. QED
    BY <2>2
<1>2. \A j \in Jobs : alive[j] <= lost[j] + 1
  <2>1. \A j \in Jobs : starts[j] <= lost[j] + 1
    BY DEF Counted, CountedJob
  <2>. QED
    BY <2>1, NumberTypes
<1>3. \A j \in Jobs : TypeOf[j] \notin Smoke => alive[j] = 0
  <2>1. \A j \in Jobs : ~ starts[j] > 0 => alive[j] = 0
    BY NumberTypes
  <2>. QED
    BY <2>1 DEF Counted, CountedJob
<1>. alive' = alive => \A j \in Jobs : alive'[j] <= alive[j]
  BY NumberTypes
<1>4. CASE PassOver(r)
  <2>1. PICK j \in Jobs : job' = [job EXCEPT ![r].todo = job[r].todo \ {j}]
    BY <1>4 DEF PassOver
  <2>2. /\ job'[r].index = job[r].index /\ job'[r].started = job[r].started
        /\ job'[r].running = job[r].running /\ job'[r].todo \subseteq job[r].todo
        /\ \A s \in Runners \ {r} : job'[s] = job[s]
    BY <2>1 DEF Memory
  <2>3. pc[r] = "visit" /\ UNCHANGED << pc, index, smokes, starts, lost >>
    BY <1>4 DEF PassOver, Visits, At, files, history
  <2>. QED
    BY <2>2, <2>3 DEF Kept, Working, Others
<1>5. CASE GiveUp(r)
  <2>1. PICK j \in Jobs : Visits(r, j, "RUNNING") /\ Visited(r, j, "SKIP")
    BY <1>5 DEF GiveUp
  <2>2. UNCHANGED << pc, index, alive, rc, starts, lost >>
    BY <1>5 DEF GiveUp, files, smokes, history
  <2>. QED
    BY <1>0, <1>1, <2>1, <2>2 DEF Visits, At, Active, Terminal
<1>6. CASE SkipNetwork(r)
  <2>1. PICK j \in Jobs : Visits(r, j, "QUEUED") /\ Visited(r, j, "SKIP")
    BY <1>6 DEF SkipNetwork
  <2>2. UNCHANGED << pc, index, alive, rc, starts, lost >>
    BY <1>6 DEF SkipNetwork, files, smokes, history
  <2>. QED
    BY <1>0, <1>1, <2>1, <2>2 DEF Visits, At, Active, Terminal
<1>7. CASE PollQueued(r)
  <2>1. PICK j \in Jobs : Visits(r, j, "QUEUED") /\ Visited(r, j, "QUEUED")
    BY <1>7 DEF PollQueued
  <2>2. UNCHANGED << pc, index, alive, rc, starts, lost >>
    BY <1>7 DEF PollQueued, files, smokes, history
  <2>. QED
    BY <1>0, <1>1, <2>1, <2>2 DEF Visits, At, Active, Terminal
<1>8. CASE StartSmoke(r)
  <2>1. PICK j \in Jobs : /\ Visits(r, j, "QUEUED") /\ Room(r) /\ TypeOf[j] \in Smoke
                         /\ Started(r, j)
                         /\ alive' = [alive EXCEPT ![j] = alive[j] + 1]
                         /\ starts' = [starts EXCEPT ![j] = starts[j] + 1]
    BY <1>8 DEF StartSmoke
  <2>2. UNCHANGED << pc, index, rc, lost >>
    BY <1>8 DEF StartSmoke, files
  <2>3. Launched(r, j)
    BY <2>1, <2>2, StartedMemory DEF Launched, Working, Others, Visits, At, Room
  <2>. QED
    BY <2>3
<1>9. CASE RunInline(r)
  <2>1. PICK j \in Jobs, st \in {"PASS", "SKIP", "FAIL"} :
           Visits(r, j, "QUEUED") /\ TypeOf[j] \notin Smoke /\ Visited(r, j, st)
    BY <1>9 DEF RunInline
  <2>2. UNCHANGED << pc, index, alive, rc, starts, lost >>
    BY <1>9 DEF RunInline, files, smokes, history
  <2>3. alive'[j] = 0
    BY <1>3, <2>1, <2>2
  <2>. QED
    BY <1>0, <1>1, <2>1, <2>2, <2>3 DEF Visits, At, Active, Terminal
<1>10. CASE NoHandler(r)
  <2>1. PICK j \in Jobs : /\ Visits(r, j, "RUNNING") /\ TypeOf[j] \notin Smoke
                         /\ Visited(r, j, "FAIL")
    BY <1>10 DEF NoHandler
  <2>2. UNCHANGED << pc, index, alive, rc, starts, lost >>
    BY <1>10 DEF NoHandler, files, smokes, history
  <2>3. alive'[j] = 0
    BY <1>3, <2>1, <2>2
  <2>. QED
    BY <1>0, <1>1, <2>1, <2>2, <2>3 DEF Visits, At, Active, Terminal
<1>11. CASE PollTimeout(r)
  <2>1. PICK j \in Jobs : /\ Visits(r, j, "RUNNING") /\ Visited(r, j, "TIMEOUT")
                         /\ alive' = [alive EXCEPT ![j] = IF @ > 0 THEN @ - 1 ELSE 0]
    BY <1>11 DEF PollTimeout, Polls
  <2>2. UNCHANGED << pc, index, rc, starts, lost >>
    BY <1>11 DEF PollTimeout, files, history
  <2>3. \A k \in Jobs : alive'[k] <= alive[k]
    BY <2>1, NumberTypes
  <2>4. alive'[j] = 0 \/ lost[j] > 0
    <3>1. alive'[j] = IF alive[j] > 0 THEN alive[j] - 1 ELSE 0
      BY <2>1, NumberTypes
    <3>. QED
      BY <1>2, <3>1, NumberTypes
  <2>. QED
    BY <1>0, <1>1, <2>1, <2>2, <2>3, <2>4 DEF Visits, At, Active, Terminal
<1>12. CASE PollResult(r)
  <2>1. PICK j \in Jobs : /\ Visits(r, j, "RUNNING") /\ rc[j] # "none"
                         /\ Visited(r, j, IF rc[j] = "ok" THEN "PASS" ELSE "FAIL")
    BY <1>12 DEF PollResult, Polls
  <2>2. UNCHANGED << pc, index, alive, rc, starts, lost >>
    BY <1>12 DEF PollResult, files, smokes, history
  <2>3. alive'[j] = 0 \/ lost[j] > 0
    <3>1. lost[j] = 0 => alive[j] = 0
      BY <2>1 DEF Counted, CountedJob
    <3>. QED
      BY <2>2, <3>1, NumberTypes
  <2>4. PICK st \in {"PASS", "FAIL"} : Visited(r, j, st)
    BY <2>1
  <2>. QED
    BY <1>0, <1>1, <2>1, <2>2, <2>3, <2>4 DEF Visits, At, Active, Terminal
<1>13. CASE PollNoResult(r)
  <2>1. PICK j \in Jobs : Visits(r, j, "RUNNING")
    BY <1>13 DEF PollNoResult, Polls
  <2>2. pc[r] = "visit" /\ UNCHANGED << job, index, smokes, starts, lost >>
    BY <1>13, <2>1 DEF PollNoResult, Visits, At, files, history
  <2>3. pc' = [pc EXCEPT ![r] = "pid"]
    BY <1>13 DEF PollNoResult, Goto
  <2>4. NextJob(r, j) /\ job[r].index[j] = "RUNNING"
    BY <2>1 DEF Visits, NextJob
  <2>5. \A k \in Jobs : NextJob(r, k)' => job'[r].index[k] = "RUNNING"
    <3>1. SUFFICES ASSUME NEW k \in Jobs, NextJob(r, k)' PROVE job[r].index[k] = "RUNNING"
      BY <2>2
    <3>2. NextJob(r, k)
      BY <2>2, <3>1 DEF NextJob
    <3>. QED
      BY <2>4, <3>2, NextJobUnique
  <2>. QED
    BY <2>2, <2>3, <2>5 DEF Kept, Working, Others
<1>14. CASE PollPid(r)
  <2>1. PICK j \in job[r].todo :
           /\ NextJob(r, j)
           /\ Visited(r, j, IF alive[j] > 0 THEN "RUNNING" ELSE "FAIL")
    BY <1>14 DEF PollPid, NextJob
  <2>2. pc[r] = "pid" /\ pc' = [pc EXCEPT ![r] = "visit"]
    BY <1>14 DEF PollPid, At, Goto
  <2>3. UNCHANGED << index, alive, rc, starts, lost >>
    BY <1>14 DEF PollPid, files, smokes, history
  <2>4. job[r].index[j] = "RUNNING" /\ j \in Jobs
    BY <2>1, <2>2 DEF Copies
  <2>5. CASE alive[j] > 0
    <3>1. Visited(r, j, "RUNNING")
      BY <2>1, <2>5
    <3>. QED
      BY <1>0, <1>1, <2>2, <2>3, <2>4, <3>1 DEF Active
  <2>6. CASE ~ alive[j] > 0
    <3>1. Visited(r, j, "FAIL") /\ alive'[j] = 0
      BY <2>1, <2>3, <2>4, <2>6, NumberTypes
    <3>. QED
      BY <1>0, <1>1, <2>2, <2>3, <2>4, <3>1 DEF Active, Terminal
  <2>. QED
    BY <2>5, <2>6
<1>15. CASE VisitsDone(r)
  <2>1. pc[r] = "visit" /\ pc' = [pc EXCEPT ![r] = "save"]
    BY <1>15 DEF VisitsDone, At, Goto
  <2>2. UNCHANGED << job, index, smokes, starts, lost >>
    BY <1>15 DEF VisitsDone, files, history
  <2>. QED
    BY <2>1, <2>2 DEF Kept, Working, Others
<1>. QED
  BY <1>4, <1>5, <1>6, <1>7, <1>8, <1>9, <1>10, <1>11, <1>12, <1>13, <1>14, <1>15 DEF Visit

-------------------------------------------------------------------------------
\* THE LOCKS
LEMMA VisitLocks ==
  ASSUME NEW r \in Runners, Visit(r)
  PROVE  /\ UNCHANGED << lock, doer, loop >> /\ pc[r] \in {"visit", "pid"}
         /\ \/ pc' = pc
            \/ \E l \in {"visit", "pid", "save"} : pc' = [pc EXCEPT ![r] = l]
<1>1. UNCHANGED << locks, loop >>
  BY DEF Visit, PassOver, GiveUp, SkipNetwork, PollQueued, StartSmoke, RunInline, NoHandler,
         PollTimeout, PollResult, PollNoResult, PollPid, VisitsDone
<1>2. pc[r] \in {"visit", "pid"}
  BY DEF Visit, PassOver, GiveUp, SkipNetwork, PollQueued, StartSmoke, RunInline, NoHandler,
         PollTimeout, PollResult, PollNoResult, PollPid, VisitsDone, Polls, Visits, At
<1>3. \/ pc' = pc
      \/ \E l \in {"visit", "pid", "save"} : pc' = [pc EXCEPT ![r] = l]
  BY DEF Visit, PassOver, GiveUp, SkipNetwork, PollQueued, StartSmoke, RunInline, NoHandler,
         PollTimeout, PollResult, PollNoResult, PollPid, VisitsDone, Goto
<1>. QED
  BY <1>1, <1>2, <1>3 DEF locks

\* No step of a runner, and no lock that runs out, takes the lock from another one.
LEMMA LockedStep ==
  ASSUME ~ Overlap, TypeInv, Locked, [Next]_vars
  PROVE  Locked'
<1>. pc \in [Runners -> Labels] /\ loop \in [Runners -> {"none", "lock", "run"}]
  BY DEF TypeInv, TypeOK, Labels
<1>. /\ LeaseOf \in [Runners -> SUBSET Runners] /\ \A r \in Runners : r \in LeaseOf[r]
  BY JobsAssumption
<1>. /\ \A r \in Runners : [by |-> {r}, stale |-> FALSE] # NoLock
     /\ \A r \in Runners : [by |-> LeaseOf[r], stale |-> FALSE] # NoLock
  BY DEF NoLock
<1>1. ASSUME UNCHANGED << lock, doer, loop >>, NEW r \in Runners,
             pc[r] \notin {"idle", "lock"}, NEW l \in Labels \ {"idle", "lock"},
             pc' = [pc EXCEPT ![r] = l]
      PROVE  Locked'
  BY <1>1 DEF Locked, NoLock
<1>2. ASSUME UNCHANGED << lock, doer, loop, pc >>
      PROVE  Locked'
  BY <1>2 DEF Locked, NoLock
\* The tick of r ends, and perhaps its loop.
<1>3. ASSUME UNCHANGED doer, NEW r \in Runners, pc[r] # "idle" \/ UNCHANGED lock,
             pc' = [pc EXCEPT ![r] = "idle"], loop' = [loop EXCEPT ![r] = "none"] \/ UNCHANGED loop
      PROVE  Locked'
  BY <1>3 DEF Locked
<1>4. ASSUME NEW r \in Runners, LoopBegin(r) PROVE Locked'
  <2>1. /\ UNCHANGED << lock, pc >> /\ doer' = NoLock /\ loop' = [loop EXCEPT ![r] = "lock"]
        /\ \A s \in Runners : loop[s] # "lock"
    BY <1>4 DEF LoopBegin
  <2>2. \A s \in Runners : loop[s] # "run"
    BY <1>4 DEF LoopBegin, Free, Locked
  <2>. QED
    BY <2>1, <2>2 DEF Locked
<1>5. ASSUME NEW r \in Runners, LoopLock(r) PROVE Locked'
  BY <1>5 DEF LoopLock, Locked
<1>6. ASSUME NEW r \in Runners, LoopEnd(r) \/ LoopFails(r) PROVE Locked'
  BY <1>6 DEF LoopEnd, LoopFails, locks, Locked
<1>7. ASSUME NEW r \in Runners, TickBegin(r) PROVE Locked'
  <2>1. /\ UNCHANGED << doer, loop >> /\ lock' = NoLock /\ pc' = [pc EXCEPT ![r] = "lock"]
        /\ pc[r] = "idle" /\ \A s \in Runners : pc[s] # "lock"
    BY <1>7 DEF TickBegin, Goto, At
  <2>2. \A s \in Runners : pc[s] = "idle"
    BY <1>7, <2>1 DEF TickBegin, Free, Locked
  <2>. QED
    BY <2>1, <2>2 DEF Locked
<1>8. ASSUME NEW r \in Runners, WriteLock(r) PROVE Locked'
  BY <1>8 DEF WriteLock, Goto, At, Locked
<1>9. ASSUME NEW r \in Runners, SameTick(r) PROVE Locked'
  BY <1>3, <1>9 DEF SameTick, Goto, At
<1>10. ASSUME NEW r \in Runners, ReadTick(r) PROVE Locked'
  BY <1>1, <1>10 DEF ReadTick, Goto, At, locks, Labels
<1>11. ASSUME NEW r \in Runners, Load(r) PROVE Locked'
  BY <1>1, <1>11 DEF Load, Goto, At, locks, Labels
<1>12. ASSUME NEW r \in Runners, Visit(r) PROVE Locked'
  BY <1>1, <1>2, <1>12, VisitLocks DEF Labels
<1>13. ASSUME NEW r \in Runners, Save(r) PROVE Locked'
  BY <1>1, <1>13 DEF Save, Goto, At, locks, Labels
<1>14. ASSUME NEW r \in Runners, TickEnd(r) PROVE Locked'
  BY <1>3, <1>14 DEF TickEnd, Goto, At
<1>15. ASSUME NEW r \in Runners, TickFails(r) PROVE Locked'
  BY <1>3, <1>15 DEF TickFails, Dropped, Goto
<1>16. ASSUME NEW r \in Runners, Kill(r) PROVE Locked'
  BY <1>3, <1>16 DEF Kill, Dropped, Goto, locks
<1>17. CASE LockExpires
  <2>1. \A r \in Runners : pc[r] \in {"idle", "lock"}
    BY <1>17 DEF LockExpires, Locked, At
  <2>2. \A r \in Runners : pc[r] # "lock"
    BY <1>17 DEF LockExpires, Locked, Free
  <2>3. UNCHANGED << doer, pc, loop >>
    BY <1>17 DEF LockExpires
  <2>. QED
    BY <2>1, <2>2, <2>3 DEF Locked
<1>18. CASE DoerExpires
  <2>1. \A r \in Runners : loop[r] # "run"
    BY <1>18 DEF DoerExpires, Locked
  <2>2. \A r \in Runners : loop[r] # "lock"
    BY <1>18 DEF DoerExpires, Locked, Free
  <2>3. UNCHANGED << lock, pc, loop >>
    BY <1>18 DEF DoerExpires
  <2>. QED
    BY <2>1, <2>2, <2>3 DEF Locked
<1>19. CASE Seed \/ (\E j \in Jobs : SmokeEnds(j) \/ SmokeDies(j) \/ Ages(j) \/ Unpolled(j))
  BY <1>2, <1>19 DEF Seed, SmokeEnds, SmokeDies, Ages, Unpolled, locks
<1>20. CASE UNCHANGED vars
  BY <1>2, <1>20 DEF vars, locks
<1>. QED
  BY <1>4, <1>5, <1>6, <1>7, <1>8, <1>9, <1>10, <1>11, <1>12, <1>13, <1>14, <1>15, <1>16,
     <1>17, <1>18, <1>19, <1>20
     DEF Next, Loop, Tick

-------------------------------------------------------------------------------
\* THE JOBS
JobStep ==
    \/ Quiet
    \/ \E r \in Runners : Kept(r) \/ Loaded(r) \/ Saved(r) \/ Aborted(r)
    \/ \E r \in Runners, j \in Jobs : Launched(r, j)
    \/ \E r \in Runners, j \in Jobs, st \in Status : Marked(r, j, st)
    \/ \E j \in Jobs : Sown(j) \/ Exits(j)

\* Every step is one of those.
LEMMA StepEffect ==
  ASSUME ~ Overlap, TypeInv, TypeInv', Copies, Counted, [Next]_vars
  PROVE  JobStep
<1>. job \in [Runners -> Memory] /\ pc \in [Runners -> Labels] /\ rc \in [Jobs -> {"none", "ok", "bad"}]
  BY DEF TypeInv, TypeOK, Labels
<1>. NoJob.started = {}
  BY DEF NoJob
<1>1. ASSUME NEW r \in Runners, Loop(r) PROVE Quiet
  BY <1>1 DEF Loop, LoopBegin, LoopLock, LoopEnd, LoopFails, Quiet, files, history
<1>2. ASSUME NEW r \in Runners, pc[r] \notin {"visit", "pid", "save"}, NEW l \in Labels,
             l \notin {"visit", "pid", "save"}, pc' = [pc EXCEPT ![r] = l],
             UNCHANGED << index, smokes, starts, lost >>, job'[r].started = {},
             \A s \in Runners \ {r} : job'[s] = job[s]
      PROVE  Quiet
  BY <1>2 DEF Quiet, Copies, Updating
<1>3. ASSUME NEW r \in Runners, TickBegin(r) PROVE Quiet
  <2>1. job' = [job EXCEPT ![r] = [NoJob EXCEPT !.forced = lock.stale]]
    BY <1>3 DEF TickBegin
  <2>2. [NoJob EXCEPT !.forced = lock.stale].started = {}
    BY DEF NoJob
  <2>3. job'[r].started = {} /\ \A s \in Runners \ {r} : job'[s] = job[s]
    BY <2>1, <2>2
  <2>. QED
    BY <1>2, <1>3, <2>3 DEF TickBegin, At, Goto, Labels, files, history
<1>4. ASSUME NEW r \in Runners, WriteLock(r) PROVE Quiet
  BY <1>2, <1>4 DEF WriteLock, At, Goto, Labels, Copies, Updating, files, history
<1>5. ASSUME NEW r \in Runners, SameTick(r) PROVE Quiet
  BY <1>2, <1>5 DEF SameTick, At, Goto, Labels, files, history
<1>6. ASSUME NEW r \in Runners, ReadTick(r) PROVE Quiet
  <2>1. PICK id \in TickIds :
           job' = [job EXCEPT ![r].tick = id,
                      ![r].pollOnly = job[r].forced \/ ActiveJobs(index) # {}]
    BY <1>6 DEF ReadTick
  <2>2. job'[r].started = job[r].started /\ \A s \in Runners \ {r} : job'[s] = job[s]
    BY <2>1 DEF Memory
  <2>. QED
    BY <1>2, <1>6, <2>2 DEF ReadTick, At, Goto, Labels, Copies, Updating, files, history
<1>7. ASSUME NEW r \in Runners, Load(r) PROVE Loaded(r)
  <2>1. PICK enqueue \in IF job[r].pollOnly THEN {{}} ELSE {{}, Enqueued(r)} :
           LET idx == [j \in Jobs |-> IF j \in enqueue THEN "QUEUED" ELSE index[j]] IN
              job' = [job EXCEPT ![r].index = idx, ![r].todo = ActiveJobs(idx),
                            ![r].running = Cardinality(RunningOf(index, Types))]
    BY <1>7 DEF Load
  <2>. DEFINE idx == [j \in Jobs |-> IF j \in enqueue THEN "QUEUED" ELSE index[j]]
              todo == ActiveJobs(idx)
              n == Cardinality(RunningOf(index, Types))
  <2>2. \A j \in Jobs : \/ idx[j] = index[j]
                        \/ index[j] = "" /\ idx[j] = "QUEUED"
    <3>1. enqueue = {} \/ enqueue = Enqueued(r)
      OBVIOUS
    <3>2. \A j \in enqueue : index[j] = ""
      BY <3>1 DEF Enqueued
    <3>. QED
      BY <3>2
  <2>3. job' = [job EXCEPT ![r].index = idx, ![r].todo = todo, ![r].running = n]
    BY <2>1
  <2>4. /\ job'[r].index = idx /\ job'[r].started = job[r].started /\ job'[r].running = n
        /\ \A s \in Runners \ {r} : job'[s] = job[s]
    <3>. HIDE DEF idx, todo, n
    <3>. QED
      BY <2>3 DEF Memory
  <2>. HIDE DEF idx
  <2>. QED
    BY <1>7, <2>2, <2>4 DEF Load, Loaded, Others, At, Goto, files, history
<1>8. ASSUME NEW r \in Runners, Visit(r) PROVE JobStep
  BY <1>8, VisitEffect DEF JobStep
<1>9. ASSUME NEW r \in Runners, Save(r) PROVE Saved(r)
  <2>1. job' = [job EXCEPT ![r] = [NoJob EXCEPT !.tick = job[r].tick]]
    BY <1>9 DEF Save
  <2>2. [NoJob EXCEPT !.tick = job[r].tick].started = {}
    BY DEF NoJob
  <2>3. job'[r].started = {} /\ \A s \in Runners \ {r} : job'[s] = job[s]
    BY <2>1, <2>2
  <2>4. \A j \in Jobs : \/ index'[j] = job[r].index[j]
                        \/ job[r].index[j] \in Active /\ index'[j] = "SKIP"
    BY <1>9 DEF Save, Cleaned
  <2>5. \A j \in Jobs : rc'[j] \in {rc[j], "none"}
    BY <1>9 DEF Save
  <2>. QED
    BY <1>9, <2>3, <2>4, <2>5 DEF Save, Saved, Others, At, Goto, history
<1>10. ASSUME NEW r \in Runners, TickEnd(r) PROVE Quiet
  BY <1>2, <1>10 DEF TickEnd, At, Goto, Labels, history
<1>11. ASSUME NEW r \in Runners, TickFails(r) \/ Kill(r) PROVE Aborted(r)
  <2>1. job' = [job EXCEPT ![r] = NoJob] /\ pc' = [pc EXCEPT ![r] = "idle"]
    BY <1>11 DEF TickFails, Kill, Dropped, Goto
  <2>2. lost' = [j \in Jobs |->
                   IF Updating(r) /\ j \in job[r].started THEN lost[j] + 1 ELSE lost[j]]
    BY <1>11 DEF TickFails, Kill, Dropped
  <2>3. UNCHANGED << index, smokes, starts >>
    BY <1>11 DEF TickFails, Kill, files
  <2>4. pc'[r] = "idle" /\ job'[r].started = {} /\ Others(r)
    BY <2>1 DEF Others
  <2>. QED
    BY <2>2, <2>3, <2>4 DEF Aborted
<1>12. CASE Seed
  <2>1. PICK j \in Seeded, st \in Active : index[j] = "" /\ index' = [index EXCEPT ![j] = st]
    BY <1>12 DEF Seed
  <2>2. Sown(j) /\ j \in Jobs
    BY <1>12, <2>1, JobsAssumption DEF Seed, Sown, history
  <2>. QED
    BY <2>2 DEF JobStep
<1>13. ASSUME NEW j \in Jobs, SmokeEnds(j) \/ SmokeDies(j) PROVE Exits(j)
  <2>1. alive[j] > 0 /\ alive' = [alive EXCEPT ![j] = alive[j] - 1]
    BY <1>13 DEF SmokeEnds, SmokeDies
  <2>2. \A k \in Jobs \ {j} : rc'[k] = rc[k]
    BY <1>13 DEF SmokeEnds, SmokeDies
  <2>3. UNCHANGED << index, pc, job, starts, lost >>
    BY <1>13 DEF SmokeEnds, SmokeDies, files, history
  <2>. QED
    BY <2>1, <2>2, <2>3 DEF Exits
<1>14. ASSUME NEW j \in Jobs, Ages(j) \/ Unpolled(j) PROVE Quiet
  BY <1>14 DEF Ages, Unpolled, Quiet, files, history
<1>15. CASE LockExpires \/ DoerExpires
  <2>1. UNCHANGED << index, smokes, starts, lost, pc, job >>
    BY <1>15 DEF LockExpires, DoerExpires, files, history
  <2>. QED
    BY <2>1 DEF Quiet, JobStep
<1>16. CASE UNCHANGED vars
  <2>1. UNCHANGED << index, smokes, starts, lost, pc, job >>
    BY <1>16 DEF vars, files, history
  <2>. QED
    BY <2>1 DEF Quiet, JobStep
<1>. QED
  BY <1>1, <1>3, <1>4, <1>5, <1>6, <1>7, <1>8, <1>9, <1>10, <1>11, <1>12, <1>13, <1>14,
     <1>15, <1>16
     DEF Next, Tick, JobStep

LEMMA ForwardOn ==
  ASSUME NEW a, NEW b \in Active, NEW c \in Active \cup Terminal, Forward(a, b),
         c \in Active => c = b \/ b = "QUEUED"
  PROVE  Forward(a, c)
  BY DEF Forward, Active, Terminal

\* A copy stays ahead of the index.
LEMMA CopiesStep ==
  ASSUME TypeInv, TypeInv', Locked, Copies, Counted, JobStep
  PROVE  Copies'
<1>. job \in [Runners -> Memory] /\ pc \in [Runners -> Labels] /\ index \in [Jobs -> Status]
  BY DEF TypeInv, TypeOK, Labels, Status
<1>. \A r \in Runners : job[r].index \in [Jobs -> Status]
  BY DEF Memory
<1>. \A r \in Runners : pc'[r] # "pid" \/ Updating(r)'
  BY DEF Updating
\* While the tick of r updates the index, that of no other runner does.
<1>0. ASSUME NEW r \in Runners, pc[r] # "idle", Others(r), NEW s \in Runners \ {r}
      PROVE  ~ Updating(s)' /\ job'[s].started = {} /\ pc'[s] = "idle"
  BY <1>0 DEF Locked, Copies, Others, Updating
\* It is enough to look at the copy of r.
<1>1. ASSUME NEW r \in Runners, pc[r] # "idle", Others(r),
             ~ Updating(r)' => job'[r].started = {},
             Updating(r)' =>
                /\ \A j \in Jobs : Forward(index'[j], job'[r].index[j])
                /\ \A j \in job'[r].started : job'[r].index[j] = "RUNNING" /\ j \notin job'[r].todo,
             pc'[r] = "pid" => \A j \in Jobs : NextJob(r, j)' => job'[r].index[j] = "RUNNING"
      PROVE  Copies'
  BY <1>0, <1>1 DEF Copies
<1>2. CASE Quiet
  BY <1>2 DEF Quiet, Copies, Updating, NextJob
<1>3. ASSUME NEW r \in Runners, Kept(r) PROVE Copies'
  <2>1. Updating(r) /\ pc[r] # "idle" /\ Others(r)
    BY <1>3 DEF Kept, Working, Updating
  <2>. QED
    BY <1>1, <1>3, <2>1 DEF Kept, Copies, Working, Updating
<1>4. ASSUME NEW r \in Runners, Loaded(r) PROVE Copies'
  <2>1. ~ Updating(r) /\ pc[r] # "idle" /\ Others(r) /\ pc'[r] = "visit"
    BY <1>4 DEF Loaded, Updating
  <2>2. job'[r].started = {}
    BY <1>4, <2>1 DEF Loaded, Copies
  <2>3. \A j \in Jobs : Forward(index'[j], job'[r].index[j])
    BY <1>4 DEF Loaded, Forward, Status, Active
  <2>. QED
    BY <1>1, <2>1, <2>2, <2>3
<1>5. ASSUME NEW r \in Runners, Saved(r) PROVE Copies'
  <2>1. pc[r] # "idle" /\ Others(r) /\ ~ Updating(r)' /\ pc'[r] # "pid" /\ job'[r].started = {}
    BY <1>5 DEF Saved, Updating
  <2>. QED
    BY <1>1, <2>1
<1>6. ASSUME NEW r \in Runners, Aborted(r) PROVE Copies'
  <2>1. ~ Updating(r)' /\ pc'[r] # "pid" /\ job'[r].started = {}
    BY <1>6 DEF Aborted, Updating
  <2>. QED
    BY <1>6, <2>1 DEF Aborted, Others, Copies, Updating, NextJob
<1>7. ASSUME NEW r \in Runners, NEW j \in Jobs, Launched(r, j) PROVE Copies'
  <2>1. Updating(r) /\ pc[r] # "idle" /\ Others(r) /\ pc'[r] = "visit"
    BY <1>7 DEF Launched, Working, Updating
  <2>2. /\ job'[r].index = [job[r].index EXCEPT ![j] = "RUNNING"]
        /\ job'[r].todo = job[r].todo \ {j} /\ job'[r].started = job[r].started \cup {j}
        /\ job[r].index[j] = "QUEUED" /\ index' = index
    BY <1>7 DEF Launched
  <2>3. \A k \in Jobs : Forward(index'[k], job'[r].index[k])
    <3>1. ASSUME NEW k \in Jobs PROVE Forward(index[k], job[r].index[k])
      BY <2>1 DEF Copies
    <3>2. Forward(index[j], "RUNNING")
      BY <2>2, <3>1, ForwardOn DEF Active
    <3>. QED
      BY <2>2, <3>1, <3>2
  <2>4. \A k \in job'[r].started : job'[r].index[k] = "RUNNING" /\ k \notin job'[r].todo
    <3>1. job[r].started \subseteq Jobs
      BY DEF Memory
    <3>. QED
      BY <2>1, <2>2, <3>1 DEF Copies
  <2>. QED
    BY <1>1, <2>1, <2>3, <2>4 DEF Updating
<1>8. ASSUME NEW r \in Runners, NEW j \in Jobs, NEW st \in Status, Marked(r, j, st) PROVE Copies'
  <2>1. Updating(r) /\ pc[r] # "idle" /\ Others(r) /\ pc'[r] = "visit"
    BY <1>8 DEF Marked, Working, Updating
  <2>2. /\ job'[r].index = [job[r].index EXCEPT ![j] = st]
        /\ job'[r].todo = job[r].todo \ {j} /\ job'[r].started = job[r].started
        /\ j \in job[r].todo /\ index' = index
    BY <1>8 DEF Marked
  <2>3. /\ job[r].index[j] \in Active /\ st \in Active \cup Terminal
        /\ st \in Active => st = job[r].index[j]
    BY <1>8 DEF Marked
  <2>4. \A k \in Jobs : Forward(index'[k], job'[r].index[k])
    <3>1. ASSUME NEW k \in Jobs PROVE Forward(index[k], job[r].index[k])
      BY <2>1 DEF Copies
    <3>2. Forward(index[j], st)
      BY <2>3, <3>1, ForwardOn
    <3>. QED
      BY <2>2, <3>1, <3>2
  <2>5. \A k \in job'[r].started : job'[r].index[k] = "RUNNING" /\ k \notin job'[r].todo
    <3>1. job[r].started \subseteq Jobs
      BY DEF Memory
    <3>. QED
      BY <2>1, <2>2, <3>1 DEF Copies
  <2>. QED
    BY <1>1, <2>1, <2>4, <2>5 DEF Updating
<1>9. ASSUME NEW j \in Jobs, Sown(j) PROVE Copies'
  BY <1>9 DEF Sown, Copies, Updating
<1>10. ASSUME NEW j \in Jobs, Exits(j) PROVE Copies'
  BY <1>10 DEF Exits, Copies, Updating, NextJob
<1>. QED
  BY <1>2, <1>3, <1>4, <1>5, <1>6, <1>7, <1>8, <1>9, <1>10 DEF JobStep

LEMMA ForwardBack ==
  ASSUME NEW a, NEW b \in {"", "QUEUED"}, Forward(a, b)
  PROVE  a \in {"", "QUEUED"}
  BY DEF Forward, Terminal

\* A started job is pending, running or ended, until the tick that started it loses it.
LEMMA CountedStep ==
  ASSUME TypeInv, TypeInv', Locked, Copies, Counted, JobStep
  PROVE  Counted'
<1>. SUFFICES ASSUME NEW j \in Jobs PROVE CountedJob(j)'
  BY DEF Counted
<1>. /\ starts \in [Jobs -> Nat] /\ lost \in [Jobs -> Nat] /\ alive \in [Jobs -> Nat]
     /\ alive' \in [Jobs -> Nat] /\ alive[j] <= starts[j]
  BY NumberTypes DEF TypeInv
<1>. job \in [Runners -> Memory] /\ index \in [Jobs -> Status]
  BY DEF TypeInv, TypeOK, Status
<1>. CountedJob(j)
  BY DEF Counted
<1>. alive' = alive => alive'[j] <= alive[j]
  OBVIOUS
<1>0. starts[j] <= lost[j] + 1
  BY DEF CountedJob
<1>. DEFINE New(idx) == idx[j] \in {"", "QUEUED"}
\* What is left of the invariant for a job whose counters stay.
<1>1. ASSUME starts'[j] = starts[j], lost'[j] = lost[j],
             rc'[j] \in {rc[j], "none"}, alive'[j] <= alive[j],
             New(index') /\ ~ Pending(j)' => New(index) /\ ~ Pending(j)
      PROVE  CountedJob(j)'
  <2>1. rc'[j] # "none" /\ lost[j] = 0 => alive'[j] = 0 /\ starts[j] = 1
    <3>1. alive'[j] <= alive[j] /\ alive[j] \in Nat /\ alive'[j] \in Nat
      BY <1>1
    <3>2. alive[j] = 0 => alive'[j] = 0
      BY <3>1
    <3>. QED
      BY <1>1, <3>2 DEF CountedJob
  <2>. QED
    BY <1>1, <2>1 DEF CountedJob
<1>2. ASSUME UNCHANGED << index, smokes, starts, lost >>,
             \A r \in Runners : job'[r].started = job[r].started
      PROVE  CountedJob(j)'
  <2>1. alive'[j] <= alive[j] /\ rc' = rc
    BY <1>2 DEF smokes
  <2>2. Pending(j)' <=> Pending(j)
    BY <1>2 DEF Pending
  <2>. QED
    BY <1>1, <1>2, <2>1, <2>2
\* Only the tick of r has started jobs.
<1>3. ASSUME NEW r \in Runners, pc[r] # "idle", NEW s \in Runners \ {r}
      PROVE  job[s].started = {}
  BY <1>3 DEF Locked, Copies, Updating
<1>4. CASE Quiet
  BY <1>2, <1>4 DEF Quiet
<1>5. ASSUME NEW r \in Runners, Kept(r) PROVE CountedJob(j)'
  BY <1>2, <1>5 DEF Kept, Working, Others
<1>6. ASSUME NEW r \in Runners, Loaded(r) PROVE CountedJob(j)'
  BY <1>2, <1>6 DEF Loaded, Others
<1>7. ASSUME NEW r \in Runners, Saved(r) PROVE CountedJob(j)'
  <2>1. Updating(r) /\ pc[r] # "idle"
    BY <1>7 DEF Saved, Updating
  <2>2. starts' = starts /\ lost' = lost /\ rc'[j] \in {rc[j], "none"} /\ alive' = alive
    BY <1>7 DEF Saved
  <2>3. ASSUME New(index') PROVE New(index) /\ ~ Pending(j)
    <3>1. New(job[r].index)
      BY <1>7, <2>3 DEF Saved
    <3>2. Forward(index[j], job[r].index[j])
      BY <2>1 DEF Copies
    <3>3. New(index)
      BY <3>1, <3>2, ForwardBack
    <3>4. j \notin job[r].started
      BY <2>1, <3>1 DEF Copies
    <3>. QED
      BY <1>3, <2>1, <3>3, <3>4 DEF Pending
  <2>. QED
    BY <1>1, <2>2, <2>3
<1>8. ASSUME NEW r \in Runners, Aborted(r) PROVE CountedJob(j)'
  <2>1. UNCHANGED << index, rc, alive, starts >> /\ job'[r].started = {}
    BY <1>8 DEF Aborted, smokes
  <2>2. CASE Updating(r) /\ j \in job[r].started
    <3>1. lost'[j] = lost[j] + 1
      BY <1>8, <2>2 DEF Aborted
    <3>2. starts'[j] <= lost'[j] /\ starts'[j] <= lost'[j] + 1 /\ lost'[j] # 0
      BY <1>0, <2>1, <3>1
    <3>3. starts[j] > 0 => TypeOf[j] \in Smoke
      BY DEF CountedJob
    <3>. QED
      BY <2>1, <3>2, <3>3 DEF CountedJob
  <2>3. CASE ~ (Updating(r) /\ j \in job[r].started)
    <3>1. lost'[j] = lost[j]
      BY <1>8, <2>3 DEF Aborted
    <3>2. j \notin job[r].started
      BY <2>3 DEF Copies
    <3>3. Pending(j) => Pending(j)'
      BY <1>8, <3>2 DEF Aborted, Others, Pending
    <3>. QED
      BY <1>1, <2>1, <3>1, <3>3
  <2>. QED
    BY <2>2, <2>3
<1>9. ASSUME NEW r \in Runners, NEW i \in Jobs, Launched(r, i) PROVE CountedJob(j)'
  <2>1. Updating(r) /\ pc[r] # "idle" /\ Others(r)
    BY <1>9 DEF Launched, Working, Updating
  <2>2. /\ UNCHANGED << index, rc, lost >>
        /\ alive' = [alive EXCEPT ![i] = alive[i] + 1]
        /\ starts' = [starts EXCEPT ![i] = starts[i] + 1]
        /\ job'[r].started = job[r].started \cup {i}
    BY <1>9 DEF Launched
  <2>3. CASE j = i
    <3>1. New(index)
      <4>1. Forward(index[j], job[r].index[j]) /\ job[r].index[j] = "QUEUED"
        BY <1>9, <2>1, <2>3 DEF Copies, Launched
      <4>. QED
        BY <4>1, ForwardBack
    <3>2. ~ Pending(j)
      BY <1>3, <1>9, <2>1, <2>3 DEF Launched, Copies, Pending
    <3>3. starts[j] <= lost[j]
      BY <3>1, <3>2 DEF CountedJob
    <3>4. starts'[j] <= lost'[j] + 1
      BY <2>2, <2>3, <3>3
    <3>5. Pending(j)'
      BY <2>2, <2>3 DEF Pending
    <3>6. TypeOf[j] \in Smoke
      BY <1>9, <2>3 DEF Launched
    <3>7. rc[j] # "none" => lost[j] # 0
      <4>1. ~ (lost[j] = 0 /\ starts[j] = 1)
        BY <3>3
      <4>. QED
        BY <4>1 DEF CountedJob
    <3>. QED
      BY <2>2, <3>4, <3>5, <3>6, <3>7 DEF CountedJob
  <2>4. CASE j # i
    <3>1. starts'[j] = starts[j] /\ alive'[j] <= alive[j]
      BY <2>2, <2>4
    <3>2. Pending(j) => Pending(j)'
      BY <2>1, <2>2 DEF Pending, Others
    <3>. QED
      BY <1>1, <2>2, <3>1, <3>2
  <2>. QED
    BY <2>3, <2>4
<1>10. ASSUME NEW r \in Runners, NEW i \in Jobs, NEW st \in Status, Marked(r, i, st)
       PROVE  CountedJob(j)'
  <2>1. UNCHANGED << index, rc, starts, lost >> /\ alive'[j] <= alive[j]
    BY <1>10 DEF Marked
  <2>2. Pending(j) => Pending(j)'
    BY <1>10 DEF Marked, Working, Others, Pending
  <2>. QED
    BY <1>1, <2>1, <2>2
<1>11. ASSUME NEW i \in Jobs, Sown(i) PROVE CountedJob(j)'
  <2>1. UNCHANGED << job, rc, alive, starts, lost >>
    BY <1>11 DEF Sown, smokes
  <2>2. New(index') => New(index)
    BY <1>11 DEF Sown
  <2>3. Pending(j)' <=> Pending(j)
    BY <2>1 DEF Pending
  <2>. QED
    BY <1>1, <2>1, <2>2, <2>3
<1>12. ASSUME NEW i \in Jobs, Exits(i) PROVE CountedJob(j)'
  <2>1. /\ UNCHANGED << index, job, starts, lost >>
        /\ alive[i] > 0 /\ alive' = [alive EXCEPT ![i] = alive[i] - 1]
        /\ \A k \in Jobs \ {i} : rc'[k] = rc[k]
    BY <1>12 DEF Exits
  <2>2. Pending(j)' <=> Pending(j)
    BY <2>1 DEF Pending
  <2>3. CASE j = i
    <3>1. lost[j] = 0 => alive'[j] = 0 /\ starts[j] = 1
      BY <1>0, <2>1, <2>3
    <3>. QED
      BY <2>1, <2>2, <3>1 DEF CountedJob
  <2>4. CASE j # i
    <3>1. alive'[j] <= alive[j] /\ rc'[j] = rc[j]
      BY <2>1, <2>4
    <3>. QED
      BY <1>1, <2>1, <2>2, <3>1
  <2>. QED
    BY <2>3, <2>4
<1>. QED
  BY <1>4, <1>5, <1>6, <1>7, <1>8, <1>9, <1>10, <1>11, <1>12 DEF JobStep

\* A process leaves the copy and the index only with its job given up.
LEMMA WatchedStep ==
  ASSUME TypeInv, TypeInv', Locked, Copies, Watched, JobStep
  PROVE  Watched'
<1>. SUFFICES ASSUME NEW j \in Jobs, alive'[j] > 0, lost'[j] = 0
              PROVE  /\ index'[j] \in {"RUNNING", "SKIP"} \/ Pending(j)'
                     /\ \A r \in Runners :
                           Updating(r)' => job'[r].index[j] \in {"RUNNING", "SKIP"}
  BY DEF Watched, WatchedJob
<1>. job \in [Runners -> Memory] /\ pc \in [Runners -> Labels] /\ index \in [Jobs -> Status]
  BY DEF TypeInv, TypeOK, Labels, Status
<1>. \A r \in Runners : job[r].index \in [Jobs -> Status] /\ job[r].started \subseteq Jobs
  BY DEF Memory
<1>. DEFINE Fine(a) == a \in {"RUNNING", "SKIP"}
            Goal == /\ Fine(index'[j]) \/ Pending(j)'
                    /\ \A r \in Runners : Updating(r)' => Fine(job'[r].index[j])
<1>. alive[j] \in Nat /\ alive'[j] \in Nat /\ lost[j] \in Nat /\ alive'[j] > 0
  BY NumberTypes DEF TypeInv
<1>1. alive[j] > 0 /\ lost[j] = 0 =>
         /\ Fine(index[j]) \/ Pending(j)
         /\ \A r \in Runners : Updating(r) => Fine(job[r].index[j])
  BY DEF Watched, WatchedJob
\* Only the tick of r has started jobs or updates the index.
<1>2. ASSUME NEW r \in Runners, pc[r] # "idle", Others(r), NEW s \in Runners \ {r}
      PROVE  job[s].started = {} /\ job'[s].started = {} /\ ~ Updating(s) /\ ~ Updating(s)'
  BY <1>2 DEF Locked, Copies, Updating, Others
\* The tick of r goes on.
<1>3. ASSUME NEW r \in Runners, Updating(r), Others(r), UNCHANGED << index, lost >>,
             alive[j] > 0, job[r].started \subseteq job'[r].started,
             Fine(job[r].index[j]) => Fine(job'[r].index[j])
      PROVE  Goal
  <2>1. pc[r] # "idle"
    BY <1>3 DEF Updating
  <2>2. Pending(j) => Pending(j)'
    BY <1>3 DEF Pending, Others
  <2>3. \A s \in Runners \ {r} : ~ Updating(s)'
    BY <1>2, <1>3, <2>1
  <2>. QED
    BY <1>1, <1>3, <2>2, <2>3
<1>4. CASE Quiet
  <2>1. UNCHANGED << index, alive, lost >>
    BY <1>4 DEF Quiet, smokes
  <2>2. Pending(j)' <=> Pending(j)
    BY <1>4 DEF Quiet, Pending
  <2>3. \A r \in Runners : Updating(r)' => Updating(r) /\ job'[r] = job[r]
    BY <1>4 DEF Quiet, Updating
  <2>. QED
    BY <1>1, <2>1, <2>2, <2>3
<1>5. ASSUME NEW r \in Runners, Kept(r) PROVE Goal
  <2>1. Updating(r) /\ Others(r)
    BY <1>5 DEF Kept, Working, Updating
  <2>2. UNCHANGED << index, alive, lost >> /\ job'[r].index = job[r].index
        /\ job'[r].started = job[r].started
    BY <1>5 DEF Kept, smokes
  <2>. QED
    BY <1>3, <2>1, <2>2
<1>6. ASSUME NEW r \in Runners, Loaded(r) PROVE Goal
  <2>1. pc[r] # "idle" /\ Others(r) /\ ~ Updating(r)
    BY <1>6 DEF Loaded, Updating
  <2>2. UNCHANGED << index, alive, lost >>
    BY <1>6 DEF Loaded, smokes
  <2>3. \A s \in Runners : j \notin job[s].started
    BY <1>2, <2>1 DEF Copies
  <2>4. Fine(index[j])
    BY <1>1, <2>2, <2>3 DEF Pending
  <2>5. Fine(job'[r].index[j])
    BY <1>6, <2>4 DEF Loaded
  <2>. QED
    BY <1>2, <2>1, <2>2, <2>4, <2>5
<1>7. ASSUME NEW r \in Runners, Saved(r) PROVE Goal
  <2>1. pc[r] # "idle" /\ Others(r) /\ Updating(r) /\ ~ Updating(r)'
    BY <1>7 DEF Saved, Updating
  <2>2. UNCHANGED << alive, lost >>
    BY <1>7 DEF Saved
  <2>3. Fine(job[r].index[j])
    BY <1>1, <2>1, <2>2
  <2>4. Fine(index'[j])
    BY <1>7, <2>3 DEF Saved
  <2>. QED
    BY <1>2, <2>1, <2>4
<1>8. ASSUME NEW r \in Runners, Aborted(r) PROVE Goal
  <2>1. UNCHANGED << index, alive >> /\ Others(r) /\ ~ Updating(r)'
    BY <1>8 DEF Aborted, smokes, Updating
  <2>2. lost'[j] = IF Updating(r) /\ j \in job[r].started THEN lost[j] + 1 ELSE lost[j]
    BY <1>8 DEF Aborted
  <2>3. lost[j] = 0 /\ ~ (Updating(r) /\ j \in job[r].started)
    BY <2>2
  <2>4. j \notin job[r].started
    BY <2>3 DEF Copies
  <2>5. Pending(j) => Pending(j)'
    BY <2>1, <2>4 DEF Pending, Others
  <2>6. \A s \in Runners : Updating(s)' => Updating(s) /\ job'[s] = job[s]
    BY <2>1 DEF Others, Updating
  <2>. QED
    BY <1>1, <2>1, <2>3, <2>5, <2>6
<1>9. ASSUME NEW r \in Runners, NEW i \in Jobs, Launched(r, i) PROVE Goal
  <2>1. Updating(r) /\ pc[r] # "idle" /\ Others(r)
    BY <1>9 DEF Launched, Working, Updating
  <2>2. /\ UNCHANGED << index, lost >> /\ alive' = [alive EXCEPT ![i] = alive[i] + 1]
        /\ job'[r].started = job[r].started \cup {i}
        /\ job'[r].index = [job[r].index EXCEPT ![i] = "RUNNING"]
    BY <1>9 DEF Launched
  <2>3. CASE j = i
    <3>1. Pending(j)'
      BY <2>2, <2>3 DEF Pending
    <3>2. Fine(job'[r].index[j])
      BY <2>2, <2>3
    <3>. QED
      BY <1>2, <2>1, <3>1, <3>2
  <2>4. CASE j # i
    <3>1. alive[j] > 0 /\ job'[r].index[j] = job[r].index[j]
      BY <2>2, <2>4
    <3>. QED
      BY <1>3, <2>1, <2>2, <3>1
  <2>. QED
    BY <2>3, <2>4
<1>10. ASSUME NEW r \in Runners, NEW i \in Jobs, NEW st \in Status, Marked(r, i, st) PROVE Goal
  <2>1. Updating(r) /\ Others(r)
    BY <1>10 DEF Marked, Working, Updating
  <2>2. /\ UNCHANGED << index, lost >> /\ alive'[j] <= alive[j]
        /\ job'[r].started = job[r].started
        /\ job'[r].index = [job[r].index EXCEPT ![i] = st]
    BY <1>10 DEF Marked
  <2>3. alive[j] > 0
    BY <2>2
  <2>4. Fine(job[r].index[j]) => Fine(job'[r].index[j])
    <3>1. CASE i = j
      <4>1. st \in Active \cup {"SKIP"} /\ (st \in Active => st = job[r].index[j])
        BY <1>10, <2>2, <3>1 DEF Marked
      <4>. QED
        BY <2>2, <3>1, <4>1
    <3>2. CASE i # j
      BY <2>2, <3>2
    <3>. QED
      BY <3>1, <3>2
  <2>. QED
    BY <1>3, <2>1, <2>2, <2>3, <2>4
<1>11. ASSUME NEW i \in Jobs, Sown(i) PROVE Goal
  <2>1. UNCHANGED << pc, job, alive, lost >> /\ \A r \in Runners : ~ Updating(r)
    BY <1>11 DEF Sown, smokes
  <2>2. ~ Pending(j)
    BY <2>1 DEF Pending, Copies
  <2>3. Fine(index[j])
    BY <1>1, <2>1, <2>2
  <2>4. index'[j] = index[j]
    BY <1>11, <2>3 DEF Sown
  <2>. QED
    BY <2>1, <2>3, <2>4 DEF Updating
<1>12. ASSUME NEW i \in Jobs, Exits(i) PROVE Goal
  <2>1. UNCHANGED << index, pc, job, lost >> /\ alive' = [alive EXCEPT ![i] = alive[i] - 1]
    BY <1>12 DEF Exits
  <2>2. alive[j] > 0
    BY <2>1, NumberTypes
  <2>3. (Pending(j)' <=> Pending(j)) /\ \A r \in Runners : Updating(r)' <=> Updating(r)
    BY <2>1 DEF Pending, Updating
  <2>. QED
    BY <1>1, <2>1, <2>2, <2>3
<1>. QED
  BY <1>4, <1>5, <1>6, <1>7, <1>8, <1>9, <1>10, <1>11, <1>12 DEF JobStep

LEMMA EnrolledNumber ==
  ASSUME NEW idx
  PROVE  IsFiniteSet(Enrolled(idx)) /\ Cardinality(Enrolled(idx)) \in Nat
<1>1. Enrolled(idx) \subseteq Jobs
  BY DEF Enrolled
<1>. QED
  BY <1>1, JobsAssumption, FS_Subset, FS_CardinalityType

\* When every job that runs in one copy runs in another one.
LEMMA EnrolledFewer ==
  ASSUME NEW idx, NEW idy, \A j \in Jobs \ Seeded : idx[j] = "RUNNING" => idy[j] = "RUNNING"
  PROVE  Cardinality(Enrolled(idx)) <= Cardinality(Enrolled(idy))
<1>1. Enrolled(idx) \subseteq Enrolled(idy)
  BY DEF Enrolled
<1>. QED
  BY <1>1, EnrolledNumber, FS_Subset

\* When one more runs.
LEMMA EnrolledOneMore ==
  ASSUME NEW idx, NEW idy, NEW i \in Jobs,
         \A j \in Jobs \ Seeded : idx[j] = "RUNNING" => j = i \/ idy[j] = "RUNNING"
  PROVE  Cardinality(Enrolled(idx)) <= Cardinality(Enrolled(idy)) + 1
<1>. DEFINE more == Enrolled(idy) \cup {i}
<1>1. Enrolled(idx) \subseteq more
  BY DEF Enrolled
<1>2. IsFiniteSet(more) /\ Cardinality(more) \in Nat
      /\ Cardinality(more) <= Cardinality(Enrolled(idy)) + 1
  BY EnrolledNumber, FS_AddElement
<1>3. Cardinality(Enrolled(idx)) <= Cardinality(more)
  BY <1>1, <1>2, FS_Subset
<1>. HIDE DEF more
<1>. QED
  BY <1>2, <1>3, EnrolledNumber

\* A tick that starts a job counts it among those that run.
LEMMA BoundedStep ==
  ASSUME TypeInv, Locked, Copies, Bounded, JobStep
  PROVE  Bounded'
<1>. job \in [Runners -> Memory] /\ pc \in [Runners -> Labels] /\ index \in [Jobs -> Status]
  BY DEF TypeInv, TypeOK, Labels, Status
<1>. \A r \in Runners : job[r].index \in [Jobs -> Status] /\ job[r].running \in Nat
  BY DEF Memory
<1>. MaxRunning \in Nat
  BY BoundsAssumption
<1>. DEFINE Size(idx) == Cardinality(Enrolled(idx))
<1>. \A idx : Size(idx) \in Nat
  BY EnrolledNumber
<1>1. /\ Size(index) <= MaxRunning
      /\ \A r \in Runners : Updating(r) => /\ Size(job[r].index) <= job[r].running
                                           /\ Size(job[r].index) <= MaxRunning
  BY DEF Bounded
<1>2. ASSUME NEW r \in Runners, pc[r] # "idle", Others(r), NEW s \in Runners \ {r}
      PROVE  ~ Updating(s)'
  BY <1>2 DEF Locked, Updating, Others
<1>. HIDE DEF Size
\* The tick of r goes on.
<1>3. ASSUME NEW r \in Runners, Updating(r), Others(r), UNCHANGED index,
             Size(job'[r].index) <= job'[r].running, Size(job'[r].index) <= MaxRunning
      PROVE  Bounded'
  <2>1. pc[r] # "idle"
    BY <1>3 DEF Updating
  <2>. QED
    BY <1>1, <1>2, <1>3, <2>1 DEF Bounded, Size
<1>4. CASE Quiet
  <2>1. UNCHANGED index
    BY <1>4 DEF Quiet
  <2>2. \A r \in Runners : Updating(r)' => Updating(r) /\ job'[r] = job[r]
    BY <1>4 DEF Quiet, Updating
  <2>. QED
    BY <1>1, <2>1, <2>2 DEF Bounded, Size
<1>5. ASSUME NEW r \in Runners, Kept(r) PROVE Bounded'
  <2>1. Updating(r) /\ Others(r)
    BY <1>5 DEF Kept, Working, Updating
  <2>2. UNCHANGED index /\ job'[r].index = job[r].index /\ job'[r].running = job[r].running
    BY <1>5 DEF Kept
  <2>. QED
    BY <1>1, <1>3, <2>1, <2>2
<1>6. ASSUME NEW r \in Runners, Loaded(r) PROVE Bounded'
  <2>1. pc[r] # "idle" /\ Others(r) /\ UNCHANGED index
    BY <1>6 DEF Loaded
  <2>2. \A j \in Jobs \ Seeded : job'[r].index[j] = "RUNNING" => index[j] = "RUNNING"
    BY <1>6 DEF Loaded
  <2>3. Size(job'[r].index) <= Size(index)
    BY <2>2, EnrolledFewer DEF Size
  <2>4. Size(index) <= job'[r].running
    <3>1. Enrolled(index) \subseteq RunningOf(index, Types) /\ RunningOf(index, Types) \subseteq Jobs
      BY DEF Enrolled, RunningOf, Types
    <3>2. IsFiniteSet(RunningOf(index, Types))
      BY <3>1, JobsAssumption, FS_Subset
    <3>3. Size(index) <= Cardinality(RunningOf(index, Types))
      BY <3>1, <3>2, FS_Subset DEF Size
    <3>. QED
      BY <1>6, <3>3 DEF Loaded
  <2>5. job'[r].running \in Nat
    BY <1>6, RunningType DEF Loaded
  <2>6. Size(job'[r].index) <= MaxRunning /\ Size(job'[r].index) <= job'[r].running
    BY <1>1, <2>3, <2>4, <2>5
  <2>. QED
    BY <1>1, <1>2, <2>1, <2>6 DEF Bounded, Size
<1>7. ASSUME NEW r \in Runners, Saved(r) PROVE Bounded'
  <2>1. pc[r] # "idle" /\ Others(r) /\ Updating(r) /\ ~ Updating(r)'
    BY <1>7 DEF Saved, Updating
  <2>2. \A j \in Jobs \ Seeded : index'[j] = "RUNNING" => job[r].index[j] = "RUNNING"
    BY <1>7 DEF Saved
  <2>3. Size(index') <= Size(job[r].index)
    BY <2>2, EnrolledFewer DEF Size
  <2>4. Size(index') <= MaxRunning
    BY <1>1, <2>1, <2>3
  <2>. QED
    BY <1>2, <2>1, <2>4 DEF Bounded, Size
<1>8. ASSUME NEW r \in Runners, Aborted(r) PROVE Bounded'
  <2>1. UNCHANGED index /\ Others(r) /\ ~ Updating(r)'
    BY <1>8 DEF Aborted, Updating
  <2>2. \A s \in Runners : Updating(s)' => Updating(s) /\ job'[s] = job[s]
    BY <2>1 DEF Others, Updating
  <2>. QED
    BY <1>1, <2>1, <2>2 DEF Bounded, Size
<1>9. ASSUME NEW r \in Runners, NEW i \in Jobs, Launched(r, i) PROVE Bounded'
  <2>1. Updating(r) /\ Others(r)
    BY <1>9 DEF Launched, Working, Updating
  <2>2. /\ UNCHANGED index /\ job[r].running < MaxRunning
        /\ job'[r].index = [job[r].index EXCEPT ![i] = "RUNNING"]
        /\ job'[r].running = job[r].running + 1
    BY <1>9 DEF Launched
  <2>3. Size(job'[r].index) <= Size(job[r].index) + 1
    BY <2>2, EnrolledOneMore DEF Size
  <2>4. Size(job[r].index) <= job[r].running
    BY <1>1, <2>1
  <2>5. Size(job'[r].index) <= job'[r].running /\ Size(job'[r].index) <= MaxRunning
    BY <2>2, <2>3, <2>4
  <2>. QED
    BY <1>3, <2>1, <2>2, <2>5
<1>10. ASSUME NEW r \in Runners, NEW i \in Jobs, NEW st \in Status, Marked(r, i, st)
       PROVE  Bounded'
  <2>1. Updating(r) /\ Others(r)
    BY <1>10 DEF Marked, Working, Updating
  <2>2. /\ UNCHANGED index /\ job'[r].running = job[r].running
        /\ job'[r].index = [job[r].index EXCEPT ![i] = st]
        /\ st \in Active => st = job[r].index[i]
    BY <1>10 DEF Marked
  <2>3. \A j \in Jobs \ Seeded : job'[r].index[j] = "RUNNING" => job[r].index[j] = "RUNNING"
    BY <2>2 DEF Active
  <2>4. Size(job'[r].index) <= Size(job[r].index)
    BY <2>3, EnrolledFewer DEF Size
  <2>5. Size(job'[r].index) <= job'[r].running /\ Size(job'[r].index) <= MaxRunning
    BY <1>1, <2>1, <2>2, <2>4
  <2>. QED
    BY <1>3, <2>1, <2>2, <2>5
<1>11. ASSUME NEW i \in Jobs, Sown(i) PROVE Bounded'
  <2>1. UNCHANGED pc /\ \A r \in Runners : ~ Updating(r)
    BY <1>11 DEF Sown
  <2>2. \A j \in Jobs \ Seeded : index'[j] = "RUNNING" => index[j] = "RUNNING"
    BY <1>11 DEF Sown
  <2>3. Size(index') <= Size(index)
    BY <2>2, EnrolledFewer DEF Size
  <2>4. Size(index') <= MaxRunning
    BY <1>1, <2>3
  <2>. QED
    BY <2>1, <2>4 DEF Bounded, Size, Updating
<1>12. ASSUME NEW i \in Jobs, Exits(i) PROVE Bounded'
  BY <1>12 DEF Exits, Bounded, Updating
<1>. QED
  BY <1>4, <1>5, <1>6, <1>7, <1>8, <1>9, <1>10, <1>11, <1>12 DEF JobStep

-------------------------------------------------------------------------------
\* THEOREMS
JobsInv == Locked /\ Copies /\ Counted /\ Watched /\ Bounded

LEMMA InitInv ==
  ASSUME Init
  PROVE  TypeInv /\ JobsInv
<1>1. TypeInv
  <2>. DEFINE zero == [j \in Jobs |-> 0]
  <2>1. age = zero /\ since = zero /\ alive = zero /\ starts = zero /\ lost = zero /\ kills = 0
    BY DEF Init
  <2>2. /\ age \in [Jobs -> 0 .. 2] /\ since \in [Jobs -> 0 .. 2] /\ kills \in Nat
        /\ alive \in [Jobs -> Nat] /\ starts \in [Jobs -> Nat] /\ lost \in [Jobs -> Nat]
    BY <2>1
  <2>3. \A j \in Jobs : alive[j] \in 0 .. starts[j]
    BY <2>1
  <2>4. /\ lock \in Lock /\ doer \in Lock /\ job \in [Runners -> Memory]
        /\ lock.by \subseteq Runners /\ doer.by \subseteq Runners
    BY NoJobType DEF Init, NoLock, Lock
  <2>5. /\ index \in [Jobs -> {""} \cup Active \cup Terminal]
        /\ {last, beat} \subseteq TickIds \cup {NoTick}
        /\ rc \in [Jobs -> {"none", "ok", "bad"}]
        /\ pc \in [Runners -> {"idle", "lock", "read", "load", "visit", "pid", "save", "end"}]
        /\ loop \in [Runners -> {"none", "lock", "run"}]
    BY DEF Init
  <2>. QED
    BY <2>2, <2>3, <2>4, <2>5 DEF TypeInv, TypeOK
<1>2. Locked /\ Copies
  BY DEF Init, NoLock, NoJob, Locked, Copies, Updating
<1>3. Counted /\ Watched
  <2>. SUFFICES ASSUME NEW j \in Jobs PROVE CountedJob(j) /\ WatchedJob(j)
    BY DEF Counted, Watched
  <2>1. alive[j] = 0 /\ starts[j] = 0 /\ lost[j] = 0 /\ rc[j] = "none"
    BY DEF Init
  <2>2. starts[j] <= lost[j] + 1 /\ starts[j] <= lost[j] /\ ~ starts[j] > 0 /\ ~ alive[j] > 0
    BY <2>1
  <2>. QED
    BY <2>1, <2>2 DEF CountedJob, WatchedJob
<1>4. Bounded
  <2>1. Enrolled(index) = {}
    BY DEF Init, Enrolled
  <2>2. Cardinality(Enrolled(index)) <= MaxRunning
    BY <2>1, FS_EmptySet, BoundsAssumption
  <2>3. \A r \in Runners : ~ Updating(r)
    BY DEF Init, Updating
  <2>. QED
    BY <2>2, <2>3 DEF Bounded
<1>. QED
  BY <1>1, <1>2, <1>3, <1>4 DEF JobsInv

LEMMA InvStep ==
  ASSUME ~ Overlap, TypeInv, TypeInv', JobsInv, [Next]_vars
  PROVE  JobsInv'
  BY StepEffect, LockedStep, CopiesStep, CountedStep, WatchedStep, BoundedStep DEF JobsInv

\* The types, whatever overlaps: no handler leaves an index, a lock or a clock that another
\* one cannot read, and there are never more processes of a job than were started.
THEOREM TypeCorrect == Spec => []TypeOK
<1>1. Init => TypeInv
  BY InitInv
<1>2. TypeInv /\ [Next]_vars => TypeInv'
  BY TypeStep
<1>3. TypeInv => TypeOK
  BY DEF TypeInv
<1>. QED
  BY <1>1, <1>2, <1>3, PTL DEF Spec

\* The invariant holds when nothing overlaps that the code does not keep apart.
LEMMA Invariant ==
  ASSUME ~ Overlap
  PROVE  Spec => [](TypeInv /\ JobsInv)
<1>1. Init => TypeInv /\ JobsInv
  BY InitInv
<1>2. TypeInv /\ JobsInv /\ [Next]_vars => (TypeInv /\ JobsInv)'
  BY TypeStep, InvStep
<1>. QED
  BY <1>1, <1>2, PTL DEF Spec

\* One tick and one loop work at a time, each under its lock until it ends.
THEOREM WorkCovered ==
  ASSUME ~ Overlap
  PROVE  Spec => []Covered
<1>1. JobsInv => Covered
  BY DEF JobsInv, Locked, Covered
<1>. QED
  BY <1>1, Invariant, PTL

\* A job is started once more only for a tick that ended before it saved the start.
THEOREM JobsStartedOnce ==
  ASSUME ~ Overlap
  PROVE  Spec => []StartedOnce
<1>1. TypeInv /\ JobsInv => StartedOnce
  <2>. SUFFICES ASSUME TypeInv, JobsInv, NEW j \in Jobs PROVE starts[j] <= 1 + lost[j]
    BY DEF StartedOnce
  <2>1. starts[j] <= lost[j] + 1
    BY DEF JobsInv, Counted, CountedJob
  <2>. QED
    BY <2>1, NumberTypes
<1>. QED
  BY <1>1, Invariant, PTL

\* No smoke process runs unwatched, but for those of a tick that ended before it saved and
\* of a job given up as stuck.
THEOREM NoneUnwatched ==
  ASSUME ~ Overlap
  PROVE  Spec => []ProcessesWatched
<1>1. TypeInv /\ JobsInv => ProcessesWatched
  <2>. SUFFICES ASSUME TypeInv, JobsInv, NEW j \in Jobs, alive[j] > 0
                PROVE  \/ index[j] = "RUNNING"
                       \/ \E r \in Runners : Updating(r) /\ job[r].index[j] = "RUNNING"
                       \/ lost[j] > 0
                       \/ "SKIP" \in {index[j]} \cup {job[r].index[j] : r \in Runners}
    BY DEF ProcessesWatched
  <2>1. lost[j] > 0 \/ lost[j] = 0
    BY NumberTypes
  <2>2. CASE lost[j] = 0
    <3>1. index[j] \in {"RUNNING", "SKIP"} \/ Pending(j)
      BY <2>2 DEF JobsInv, Watched, WatchedJob
    <3>2. CASE Pending(j)
      <4>1. PICK r \in Runners : j \in job[r].started
        BY <3>2 DEF Pending
      <4>. QED
        BY <4>1 DEF JobsInv, Copies
    <3>. QED
      BY <3>1, <3>2
  <2>. QED
    BY <2>1, <2>2
<1>. QED
  BY <1>1, Invariant, PTL

\* No tick starts a job above the policy's maximum of running jobs.
THEOREM NeverTooMany ==
  ASSUME ~ Overlap
  PROVE  Spec => []RunningBounded
<1>1. JobsInv => RunningBounded
  BY DEF JobsInv, Bounded, Enrolled, RunningBounded
<1>. QED
  BY <1>1, Invariant, PTL

\* No step takes a job of the index back.
THEOREM JobsMoveForward ==
  ASSUME ~ Overlap
  PROVE  Spec => ForwardOnly
<1>1. TypeInv /\ TypeInv' /\ JobsInv /\ [Next]_vars =>
         [\A j \in Jobs :
             /\ index[j] \in Terminal => index'[j] = index[j]
             /\ index[j] = "RUNNING" => index'[j] \in {"RUNNING"} \cup Terminal]_index
  <2>. SUFFICES ASSUME TypeInv, TypeInv', JobsInv, [Next]_vars, index' # index,
                       NEW j \in Jobs
                PROVE  /\ index[j] \in Terminal => index'[j] = index[j]
                       /\ index[j] = "RUNNING" => index'[j] \in {"RUNNING"} \cup Terminal
    OBVIOUS
  <2>1. JobStep
    BY StepEffect DEF JobsInv
  <2>2. (\E r \in Runners : Saved(r)) \/ (\E i \in Jobs : Sown(i))
    BY <2>1 DEF JobStep, Quiet, Kept, Loaded, Aborted, Launched, Marked, Exits
  <2>3. ASSUME NEW r \in Runners, Saved(r) PROVE Forward(index[j], index'[j])
    <3>1. Forward(index[j], job[r].index[j])
      BY <2>3 DEF Saved, Updating, JobsInv, Copies
    <3>2. \/ index'[j] = job[r].index[j]
          \/ job[r].index[j] \in Active /\ index'[j] = "SKIP"
      BY <2>3 DEF Saved
    <3>3. "SKIP" \in Terminal /\ "SKIP" \notin Active
      BY DEF Active, Terminal
    <3>. QED
      BY <3>1, <3>2, <3>3, ForwardOn
  <2>4. ASSUME NEW i \in Jobs, Sown(i) PROVE index[j] = "" \/ index'[j] = index[j]
    BY <2>4 DEF Sown, TypeInv, TypeOK
  <2>. QED
    BY <2>2, <2>3, <2>4 DEF Forward, Terminal
<1>. QED
  BY <1>1, Invariant, PTL DEF Spec, ForwardOnly

===============================================================================
