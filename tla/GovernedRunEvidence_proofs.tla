---------------------- MODULE GovernedRunEvidence_proofs ----------------------
(***************************************************************************)
(* Theorems about what GovernedRun leaves behind: the evidence of a run,   *)
(* the stores its copies are written back to, and the lifecycle of a run   *)
(* id, for every value of the constants.                                   *)
(***************************************************************************)
EXTENDS GovernedRun_proofs

-------------------------------------------------------------------------------
\* WHAT A STEP OF A PROCESS DOES

\* The order of the steps.
Edges == {
    << "governor", "checks" >>, << "rGovernor", "rChecks" >>, << "checks", "route" >>,
    << "route", "release" >>, << "route", "summary" >>, << "route", "idemLoad" >>,
    << "idemLoad", "idemSave" >>, << "idemSave", "release" >>, << "idemSave", "quotaLoad" >>,
    << "quotaLoad", "charge" >>, << "charge", "autonomy" >>, << "charge", "modA" >>,
    << "modA", "settle" >>, << "modA", "approval" >>, << "approval", "settle" >>,
    << "approval", "modB" >>, << "modB", "settle" >>, << "settle", "autonomy" >>,
    << "settle", "summary" >>, << "autonomy", "summary" >>, << "summary", "closeout" >>,
    << "summary", "manifest" >>, << "closeout", "suspend" >>, << "closeout", "manifest" >>,
    << "suspend", "manifest" >>, << "manifest", "release" >>, << "rChecks", "release" >>,
    << "rChecks", "rModB" >>, << "rModB", "rAutonomy" >>, << "rAutonomy", "autonomy" >>}

\* Which step of a process touches which part of its memory.
Memory(j, k, s, t) ==
    /\ k.req = j.req /\ k.rid = j.rid /\ k.forced = j.forced
    /\ s # "idemLoad" => k.mappings = j.mappings
    /\ s # "quotaLoad" => k.quota = j.quota
    /\ s \notin {"quotaLoad", "rAutonomy"} => k.autonomy = j.autonomy
    /\ s \notin {"modA", "modB"} => k.used = j.used
    /\ s \notin {"approval", "modB"} => k.executed = j.executed
    /\ s \notin {"settle", "rModB"} => k.state = j.state
    /\ << s, t >> \notin {<< "route", "summary" >>, << "charge", "autonomy" >>} => k.path = j.path

Leaves(p) == pc'[p] = "idle" /\ job'[p] = NoJob

Continues(p) == << pc[p], pc'[p] >> \in Edges /\ Memory(job[p], job'[p], pc[p], pc'[p])

\* Which step of a process touches which file and which part of the history.
Untouched(s) ==
    /\ s # "idemSave" => UNCHANGED mappings
    /\ s \notin {"charge", "settle"} => UNCHANGED quota
    /\ s # "autonomy" => UNCHANGED << autonomy, outcomes >>
    /\ s \notin {"route", "charge", "modA", "approval", "modB"} => UNCHANGED envelope
    /\ s \notin {"summary", "closeout", "suspend"} => UNCHANGED evidence
    /\ s # "manifest" => UNCHANGED manifest
    /\ s \notin {"modB", "rModB"} => UNCHANGED effects
    /\ s \notin {"modA", "modB", "rModB"} => UNCHANGED spent
    /\ UNCHANGED << launches, approved >>

\* p alone acts.
Alone(p) ==
    /\ pc[p] # "idle"
    /\ Leaves(p) \/ Continues(p)
    /\ \A q \in Procs \ {p} : pc'[q] = pc[q] /\ job'[q] = job[q]
    /\ Untouched(pc[p])

\* The updates the steps make to the memory of a process.
LEMMA MemoryUpdates ==
  ASSUME NEW j \in Job
  PROVE  /\ \A s, t : Memory(j, j, s, t)
         /\ \A s, t : Memory(j, [j EXCEPT !.locked = TRUE], s, t)
         /\ Memory(j, [j EXCEPT !.path = "denied"], "route", "summary")
         /\ Memory(j, [j EXCEPT !.path = "denied"], "charge", "autonomy")
         /\ \A m, t : Memory(j, [j EXCEPT !.mappings = m], "idemLoad", t)
         /\ \A m, n, g, t : Memory(j, [j EXCEPT !.quota = m, !.autonomy = n, !.gate = g], "quotaLoad", t)
         /\ \A n, t : Memory(j, [j EXCEPT !.used = n], "modA", t)
         /\ \A n, t : Memory(j, [j EXCEPT !.used = n], "modB", t)
         /\ \A n, e, t : Memory(j, [j EXCEPT !.used = n, !.executed = e], "modB", t)
         /\ \A e, t : Memory(j, [j EXCEPT !.executed = e], "approval", t)
         /\ \A e, t : Memory(j, [j EXCEPT !.state = e], "settle", t)
         /\ \A e, t : Memory(j, [j EXCEPT !.state = e], "rModB", t)
         /\ \A n, t : Memory(j, [j EXCEPT !.autonomy = n], "rAutonomy", t)
BY DEF Memory, Job

\* How a step of p writes pc and job.
LEMMA ActsAlone ==
  ASSUME TypeInv, NEW p \in Procs, NEW t, pc' = [pc EXCEPT ![p] = t],
         NEW k, job' = job \/ job' = [job EXCEPT ![p] = k]
  PROVE  /\ pc'[p] = t
         /\ job'[p] = job[p] \/ job'[p] = k
         /\ \A q \in Procs \ {p} : pc'[q] = pc[q] /\ job'[q] = job[q]
BY DEF TypeInv, TypeOK

\* Every step of a process but its start.
LEMMA LocalStep ==
  ASSUME TypeInv, NEW p \in Procs, Run(p) \/ Resume(p) \/ Crash(p)
  PROVE  Alone(p)
<1>0. job \in [Procs -> Job] /\ pc \in [Procs -> Steps] /\ job[p] \in Job
  BY DEF TypeInv, TypeOK
<1>1. ASSUME AcquireLock(p) PROVE Alone(p)
  <2>. DEFINE k == [job[p] EXCEPT !.locked = TRUE]
  <2>1. job' = job \/ job' = [job EXCEPT ![p] = k]
    BY <1>1 DEF AcquireLock, LockFree
  <2>2. Memory(job[p], k, pc[p], pc'[p]) /\ Memory(job[p], job[p], pc[p], pc'[p])
    BY <1>0, <1>1, MemoryUpdates DEF AcquireLock, LockFree, Goto, At
  <2>. HIDE DEF k
  <2>3. Continues(p) /\ \A q \in Procs \ {p} : pc'[q] = pc[q] /\ job'[q] = job[q]
    BY <1>0, <1>1, <2>1, <2>2 DEF AcquireLock, LockFree, Goto, At, Continues, Edges
  <2>4. Untouched(pc[p]) /\ pc[p] # "idle"
    BY <1>1 DEF AcquireLock, LockFree, At, Untouched, files, procs, history
  <2>. QED
    BY <2>3, <2>4 DEF Alone
<1>2. ASSUME LockBusy(p) PROVE Alone(p)
  BY <1>0, <1>2, MemoryUpdates DEF LockBusy, Goto, Exit, At, Alone, Leaves, Continues, Edges, Untouched, files, procs, history
<1>3. ASSUME Block(p) PROVE Alone(p)
  BY <1>0, <1>3, MemoryUpdates DEF Block, Goto, Exit, At, Alone, Leaves, Continues, Edges, Untouched, files, procs, history
<1>4. ASSUME Admit(p) PROVE Alone(p)
  BY <1>0, <1>4, MemoryUpdates DEF Admit, Goto, Exit, At, Alone, Leaves, Continues, Edges, Untouched, files, procs, history
<1>5. ASSUME RouteInvalid(p) PROVE Alone(p)
  BY <1>0, <1>5, MemoryUpdates DEF RouteInvalid, Goto, Exit, At, Alone, Leaves, Continues, Edges, Untouched, files, procs, history
<1>6. ASSUME RouteQuarantined(p) PROVE Alone(p)
  BY <1>0, <1>6, MemoryUpdates DEF RouteQuarantined, Goto, Exit, At, Alone, Leaves, Continues, Edges, Untouched, files, procs, history
<1>7. ASSUME RouteUnknown(p) PROVE Alone(p)
  <2>. DEFINE k == [job[p] EXCEPT !.path = "denied"]
  <2>1. job' = [job EXCEPT ![p] = k]
    BY <1>7 DEF RouteUnknown, WriteRequest
  <2>2. Memory(job[p], k, pc[p], pc'[p])
    BY <1>0, <1>7, MemoryUpdates DEF RouteUnknown, WriteRequest, Goto, At
  <2>. HIDE DEF k
  <2>3. Continues(p) /\ \A q \in Procs \ {p} : pc'[q] = pc[q] /\ job'[q] = job[q]
    BY <1>0, <1>7, <2>1, <2>2 DEF RouteUnknown, WriteRequest, Goto, At, Continues, Edges
  <2>4. Untouched(pc[p]) /\ pc[p] # "idle"
    BY <1>7 DEF RouteUnknown, WriteRequest, At, Untouched, files, procs, history
  <2>. QED
    BY <2>3, <2>4 DEF Alone
<1>8. ASSUME Route(p) PROVE Alone(p)
  BY <1>0, <1>8, MemoryUpdates DEF Route, Goto, Exit, At, Alone, Leaves, Continues, Edges, Untouched, files, procs, history
<1>9. ASSUME LoadMappings(p) PROVE Alone(p)
  <2>. DEFINE k == [job[p] EXCEPT !.mappings = mappings]
  <2>1. job' = [job EXCEPT ![p] = k]
    BY <1>9 DEF LoadMappings
  <2>2. Memory(job[p], k, pc[p], pc'[p])
    BY <1>0, <1>9, MemoryUpdates DEF LoadMappings, Goto, At
  <2>. HIDE DEF k
  <2>3. Continues(p) /\ \A q \in Procs \ {p} : pc'[q] = pc[q] /\ job'[q] = job[q]
    BY <1>0, <1>9, <2>1, <2>2 DEF LoadMappings, Goto, At, Continues, Edges
  <2>4. Untouched(pc[p]) /\ pc[p] # "idle"
    BY <1>9 DEF LoadMappings, At, Untouched, files, procs, history
  <2>. QED
    BY <2>3, <2>4 DEF Alone
<1>10. ASSUME SaveMapping(p) PROVE Alone(p)
  BY <1>0, <1>10, MemoryUpdates DEF SaveMapping, IdempotentHit, Goto, Exit, At, Alone, Leaves, Continues, Edges, Untouched, files, procs, history
<1>11. ASSUME LoadQuota(p) PROVE Alone(p)
  <2>. DEFINE k == [job[p] EXCEPT !.quota = quota, !.autonomy = autonomy, !.gate = GateTriggered(autonomy.mode, job[p].req \in MayWrite)]
  <2>1. job' = [job EXCEPT ![p] = k]
    BY <1>11 DEF LoadQuota
  <2>2. Memory(job[p], k, pc[p], pc'[p])
    <3>1. pc[p] = "quotaLoad"
      BY <1>11 DEF LoadQuota, At
    <3>. QED
      BY <1>0, <3>1 DEF Memory, Job
  <2>. HIDE DEF k
  <2>3. Continues(p) /\ \A q \in Procs \ {p} : pc'[q] = pc[q] /\ job'[q] = job[q]
    BY <1>0, <1>11, <2>1, <2>2 DEF LoadQuota, Goto, At, Continues, Edges
  <2>4. Untouched(pc[p]) /\ pc[p] # "idle"
    BY <1>11 DEF LoadQuota, At, Untouched, files, procs, history
  <2>. QED
    BY <2>3, <2>4 DEF Alone
<1>12. ASSUME Deny(p) PROVE Alone(p)
  <2>. DEFINE k == [job[p] EXCEPT !.path = "denied"]
  <2>1. job' = [job EXCEPT ![p] = k]
    BY <1>12 DEF Deny, WriteRequest
  <2>2. Memory(job[p], k, pc[p], pc'[p])
    BY <1>0, <1>12, MemoryUpdates DEF Deny, WriteRequest, Goto, At
  <2>. HIDE DEF k
  <2>3. Continues(p) /\ \A q \in Procs \ {p} : pc'[q] = pc[q] /\ job'[q] = job[q]
    BY <1>0, <1>12, <2>1, <2>2 DEF Deny, WriteRequest, Goto, At, Continues, Edges
  <2>4. Untouched(pc[p]) /\ pc[p] # "idle"
    BY <1>12 DEF Deny, WriteRequest, At, Untouched, files, procs, history
  <2>. QED
    BY <2>3, <2>4 DEF Alone
<1>13. ASSUME Charge(p) PROVE Alone(p)
  BY <1>0, <1>13, MemoryUpdates DEF Charge, Goto, Exit, At, Alone, Leaves, Continues, Edges, Untouched, files, procs, history
<1>14. ASSUME NodeRaises(p) PROVE Alone(p)
  BY <1>0, <1>14, MemoryUpdates DEF NodeRaises, WriteRequest, Goto, Exit, At, Alone, Leaves, Continues, Edges, Untouched, files, procs, history
<1>15. ASSUME RunModA(p) PROVE Alone(p)
  <2>. DEFINE k == [job[p] EXCEPT !.used = @ + ModATokens]
  <2>1. job' = [job EXCEPT ![p] = k]
    BY <1>15 DEF RunModA, WriteRequest
  <2>2. Memory(job[p], k, pc[p], pc'[p])
    <3>1. pc[p] = "modA"
      BY <1>15 DEF RunModA, At
    <3>. QED
      BY <1>0, <3>1 DEF Memory, Job
  <2>. HIDE DEF k
  <2>3. Continues(p) /\ \A q \in Procs \ {p} : pc'[q] = pc[q] /\ job'[q] = job[q]
    BY <1>0, <1>15, <2>1, <2>2 DEF RunModA, WriteRequest, Goto, At, Continues, Edges
  <2>4. Untouched(pc[p]) /\ pc[p] # "idle"
    BY <1>15 DEF RunModA, WriteRequest, At, Untouched, files, procs, history
  <2>. QED
    BY <2>3, <2>4 DEF Alone
<1>16. ASSUME Suspend(p) PROVE Alone(p)
  <2>. DEFINE k == [job[p] EXCEPT !.executed = "SUSPENDED"]
  <2>1. job' = [job EXCEPT ![p] = k]
    BY <1>16 DEF Suspend
  <2>2. Memory(job[p], k, pc[p], pc'[p])
    BY <1>0, <1>16, MemoryUpdates DEF Suspend, Goto, At
  <2>. HIDE DEF k
  <2>3. Continues(p) /\ \A q \in Procs \ {p} : pc'[q] = pc[q] /\ job'[q] = job[q]
    BY <1>0, <1>16, <2>1, <2>2 DEF Suspend, Goto, At, Continues, Edges
  <2>4. Untouched(pc[p]) /\ pc[p] # "idle"
    BY <1>16 DEF Suspend, At, Untouched, files, procs, history
  <2>. QED
    BY <2>3, <2>4 DEF Alone
<1>17. ASSUME Allow(p) PROVE Alone(p)
  BY <1>0, <1>17, MemoryUpdates DEF Allow, Goto, Exit, At, Alone, Leaves, Continues, Edges, Untouched, files, procs, history
<1>18. ASSUME RefuseModB(p) PROVE Alone(p)
  <2>. DEFINE k == [job[p] EXCEPT !.used = @ + ModBTokens]
  <2>1. job' = [job EXCEPT ![p] = k]
    BY <1>18 DEF RefuseModB
  <2>2. Memory(job[p], k, pc[p], pc'[p])
    BY <1>0, <1>18, MemoryUpdates DEF RefuseModB, Goto, At
  <2>. HIDE DEF k
  <2>3. Continues(p) /\ \A q \in Procs \ {p} : pc'[q] = pc[q] /\ job'[q] = job[q]
    BY <1>0, <1>18, <2>1, <2>2 DEF RefuseModB, Goto, At, Continues, Edges
  <2>4. Untouched(pc[p]) /\ pc[p] # "idle"
    BY <1>18 DEF RefuseModB, At, Untouched, files, procs, history
  <2>. QED
    BY <2>3, <2>4 DEF Alone
<1>19. ASSUME RunModB(p) PROVE Alone(p)
  <2>0. PICK status \in {"COMPLETED", "FAILED"} : job' = [job EXCEPT ![p] = [job[p] EXCEPT !.used = job[p].used + ModBTokens, !.executed = status]]
    BY <1>19 DEF RunModB
  <2>. DEFINE k == [job[p] EXCEPT !.used = job[p].used + ModBTokens, !.executed = status]
  <2>1. job' = [job EXCEPT ![p] = k]
    BY <2>0, <1>19 DEF RunModB, Perform
  <2>2. Memory(job[p], k, pc[p], pc'[p])
    <3>1. pc[p] = "modB"
      BY <1>19 DEF RunModB, At
    <3>. QED
      BY <1>0, <3>1 DEF Memory, Job
  <2>. HIDE DEF k
  <2>3. Continues(p) /\ \A q \in Procs \ {p} : pc'[q] = pc[q] /\ job'[q] = job[q]
    BY <1>0, <1>19, <2>1, <2>2 DEF RunModB, Perform, Goto, At, Continues, Edges
  <2>4. Untouched(pc[p]) /\ pc[p] # "idle"
    BY <1>19 DEF RunModB, Perform, At, Untouched, files, procs, history
  <2>. QED
    BY <2>3, <2>4 DEF Alone
<1>20. ASSUME Settle(p) PROVE Alone(p)
  <2>. DEFINE k == [job[p] EXCEPT !.state = Verdict(job[p].executed)]
  <2>1. job' = [job EXCEPT ![p] = k]
    BY <1>20 DEF Settle, AfterSettle
  <2>2. Memory(job[p], k, pc[p], pc'[p])
    <3>1. pc[p] = "settle"
      BY <1>20 DEF Settle, At
    <3>. QED
      BY <1>0, <3>1 DEF Memory, Job
  <2>. HIDE DEF k
  <2>3. Continues(p) /\ \A q \in Procs \ {p} : pc'[q] = pc[q] /\ job'[q] = job[q]
    BY <1>0, <1>20, <2>1, <2>2 DEF Settle, AfterSettle, Goto, At, Continues, Edges
  <2>4. Untouched(pc[p]) /\ pc[p] # "idle"
    BY <1>20 DEF Settle, AfterSettle, At, Untouched, files, procs, history
  <2>. QED
    BY <2>3, <2>4 DEF Alone
<1>21. ASSUME RecordOutcome(p) PROVE Alone(p)
  BY <1>0, <1>21, MemoryUpdates DEF RecordOutcome, Goto, Exit, At, Alone, Leaves, Continues, Edges, Untouched, files, procs, history
<1>22. ASSUME WriteSummary(p) PROVE Alone(p)
  BY <1>0, <1>22, MemoryUpdates DEF WriteSummary, Goto, Exit, At, Alone, Leaves, Continues, Edges, Untouched, files, procs, history
<1>23. ASSUME WriteCloseout(p) PROVE Alone(p)
  BY <1>0, <1>23, MemoryUpdates DEF WriteCloseout, AfterCloseout, Goto, Exit, At, Alone, Leaves, Continues, Edges, Untouched, files, procs, history
<1>24. ASSUME WriteSuspend(p) PROVE Alone(p)
  BY <1>0, <1>24, MemoryUpdates DEF WriteSuspend, Goto, Exit, At, Alone, Leaves, Continues, Edges, Untouched, files, procs, history
<1>25. ASSUME WriteManifest(p) PROVE Alone(p)
  BY <1>0, <1>25, MemoryUpdates DEF WriteManifest, Goto, Exit, At, Alone, Leaves, Continues, Edges, Untouched, files, procs, history
<1>26. ASSUME Release(p) PROVE Alone(p)
  BY <1>0, <1>26, MemoryUpdates DEF Release, Goto, Exit, At, Alone, Leaves, Continues, Edges, Untouched, files, procs, history
<1>27. ASSUME ResumeQuarantined(p) PROVE Alone(p)
  BY <1>0, <1>27, MemoryUpdates DEF ResumeQuarantined, Goto, Exit, At, Alone, Leaves, Continues, Edges, Untouched, files, procs, history
<1>28. ASSUME ResumeAdmit(p) PROVE Alone(p)
  BY <1>0, <1>28, MemoryUpdates DEF ResumeAdmit, Goto, Exit, At, Alone, Leaves, Continues, Edges, Untouched, files, procs, history
<1>29. ASSUME ResumeModB(p) PROVE Alone(p)
  <2>. DEFINE k == [job[p] EXCEPT !.state = "COMPLETED"]
  <2>1. job' = [job EXCEPT ![p] = k]
    BY <1>29 DEF ResumeModB, Perform
  <2>2. Memory(job[p], k, pc[p], pc'[p])
    <3>1. pc[p] = "rModB"
      BY <1>29 DEF ResumeModB, At
    <3>. QED
      BY <1>0, <3>1 DEF Memory, Job
  <2>. HIDE DEF k
  <2>3. Continues(p) /\ \A q \in Procs \ {p} : pc'[q] = pc[q] /\ job'[q] = job[q]
    BY <1>0, <1>29, <2>1, <2>2 DEF ResumeModB, Perform, Goto, At, Continues, Edges
  <2>4. Untouched(pc[p]) /\ pc[p] # "idle"
    BY <1>29 DEF ResumeModB, Perform, At, Untouched, files, procs, history
  <2>. QED
    BY <2>3, <2>4 DEF Alone
<1>30. ASSUME ResumeFails(p) PROVE Alone(p)
  BY <1>0, <1>30, MemoryUpdates DEF ResumeFails, Goto, Exit, At, Alone, Leaves, Continues, Edges, Untouched, files, procs, history
<1>31. ASSUME ResumeLoadAutonomy(p) PROVE Alone(p)
  <2>. DEFINE k == [job[p] EXCEPT !.autonomy = autonomy]
  <2>1. job' = [job EXCEPT ![p] = k]
    BY <1>31 DEF ResumeLoadAutonomy
  <2>2. Memory(job[p], k, pc[p], pc'[p])
    <3>1. pc[p] = "rAutonomy"
      BY <1>31 DEF ResumeLoadAutonomy, At
    <3>. QED
      BY <1>0, <3>1 DEF Memory, Job
  <2>. HIDE DEF k
  <2>3. Continues(p) /\ \A q \in Procs \ {p} : pc'[q] = pc[q] /\ job'[q] = job[q]
    BY <1>0, <1>31, <2>1, <2>2 DEF ResumeLoadAutonomy, Goto, At, Continues, Edges
  <2>4. Untouched(pc[p]) /\ pc[p] # "idle"
    BY <1>31 DEF ResumeLoadAutonomy, At, Untouched, files, procs, history
  <2>. QED
    BY <2>3, <2>4 DEF Alone
<1>32. ASSUME Crash(p) PROVE Alone(p)
  BY <1>0, <1>32, MemoryUpdates DEF Crash, Goto, Exit, At, Alone, Leaves, Continues, Edges, Untouched, files, procs, history
<1>. QED
  BY <1>1, <1>2, <1>3, <1>4, <1>5, <1>6, <1>7, <1>8, <1>9, <1>10, <1>11, <1>12, <1>13, <1>14, <1>15, <1>16, <1>17, <1>18, <1>19, <1>20, <1>21, <1>22, <1>23, <1>24, <1>25, <1>26, <1>27, <1>28, <1>29, <1>30, <1>31, <1>32 DEF Run, Resume

\* The actions of each step, a kill aside.
LEMMA StepAt ==
  ASSUME NEW p \in Procs, Run(p) \/ Resume(p)
  PROVE  /\ pc[p] = "route" => RouteInvalid(p) \/ RouteQuarantined(p) \/ RouteUnknown(p) \/ Route(p)
         /\ pc[p] = "idemLoad" => LoadMappings(p)
         /\ pc[p] = "idemSave" => SaveMapping(p)
         /\ pc[p] = "quotaLoad" => LoadQuota(p)
         /\ pc[p] = "charge" => Deny(p) \/ Charge(p)
         /\ pc[p] = "modA" => NodeRaises(p) \/ RunModA(p)
         /\ pc[p] = "approval" => NodeRaises(p) \/ Suspend(p) \/ Allow(p)
         /\ pc[p] = "modB" => NodeRaises(p) \/ RefuseModB(p) \/ RunModB(p)
         /\ pc[p] = "settle" => Settle(p)
         /\ pc[p] = "autonomy" => RecordOutcome(p)
         /\ pc[p] = "summary" => WriteSummary(p)
         /\ pc[p] = "closeout" => WriteCloseout(p)
         /\ pc[p] = "suspend" => WriteSuspend(p)
         /\ pc[p] = "manifest" => WriteManifest(p)
         /\ pc[p] = "rModB" => ResumeModB(p) \/ ResumeFails(p)
         /\ pc[p] = "rAutonomy" => ResumeLoadAutonomy(p)
         /\ pc[p] # "manifest" => UNCHANGED torn
         /\ UNCHANGED crashes
BY DEF Run, Resume, At, AcquireLock, LockBusy, Block, Admit, RouteInvalid, RouteQuarantined,
       RouteUnknown, Route, LoadMappings, SaveMapping, LoadQuota, Deny, Charge, NodeRaises,
       RunModA, Suspend, Allow, RefuseModB, RunModB, Settle, RecordOutcome, WriteSummary,
       WriteCloseout, WriteSuspend, WriteManifest, Release, ResumeQuarantined, ResumeAdmit,
       ResumeModB, ResumeFails, ResumeLoadAutonomy, procs, history

\* What a kill leaves.
LEMMA CrashStep ==
  ASSUME TypeInv, NEW p \in Procs, Crash(p)
  PROVE  /\ Leaves(p) /\ Alone(p)
         /\ torn' = torn \cup {job[p].rid}
         /\ crashes' = crashes + 1
         /\ UNCHANGED << files, effects, spent, outcomes, charged, launches >>
BY LocalStep DEF Crash, Exit, Leaves, TypeInv, TypeOK

\* Only the summary step changes what a summary says, and only for its own run.
LEMMA SummaryStep ==
  ASSUME TypeInv, NEW p \in Procs, Run(p) \/ Resume(p), NEW r \in Runs
  PROVE  \/ evidence'[r].summary = evidence[r].summary
         \/ /\ r = job[p].rid /\ pc[p] = "summary"
            /\ evidence'[r].summary = job[p].state
<1>. DEFINE own == job[p].rid
<1>0. /\ evidence \in [Runs -> Evidence] /\ Alone(p) /\ own \in Runs
      /\ evidence[own] \in Evidence
  BY LocalStep DEF TypeInv, TypeOK, Alone
<1>1. CASE pc[p] \notin {"summary", "closeout", "suspend"}
  BY <1>0, <1>1 DEF Alone, Untouched
<1>2. CASE pc[p] = "summary"
  <2>1. evidence' = [evidence EXCEPT ![own] = [evidence[own] EXCEPT !.summary = job[p].state]]
    BY <1>2, StepAt DEF WriteSummary
  <2>. QED
    BY <1>0, <1>2, <2>1 DEF Evidence
<1>3. CASE pc[p] = "closeout"
  <2>1. evidence' = [evidence EXCEPT ![own] = [evidence[own] EXCEPT !.closeout = job[p].state]]
    BY <1>3, StepAt DEF WriteCloseout
  <2>. QED
    BY <1>0, <2>1 DEF Evidence
<1>4. CASE pc[p] = "suspend"
  <2>1. evidence' = [evidence EXCEPT ![own] = [evidence[own] EXCEPT !.suspend = TRUE]]
    BY <1>4, StepAt DEF WriteSuspend
  <2>. QED
    BY <1>0, <2>1 DEF Evidence
<1>. QED
  BY <1>1, <1>2, <1>3, <1>4

\* A process that starts was idle and touches no file.
Starts(p, k, s) ==
    /\ pc[p] = "idle" /\ pc'[p] = s /\ job'[p] = k
    /\ \A q \in Procs \ {p} : pc'[q] = pc[q] /\ job'[q] = job[q]
    /\ launches' = launches + 1
    /\ UNCHANGED << files, effects, spent, outcomes, charged, torn, crashes >>

Launched(p) ==
    \E r \in Requests, forced \in BOOLEAN :
        LET k == [NoJob EXCEPT !.req = r,
                               !.rid = IF forced \/ r \in Unroutable THEN launches + 1 ELSE r,
                               !.forced = forced, !.governor = governor]
        IN  Starts(p, k, "governor")

Resumed(p) ==
    /\ p \in Resumers
    /\ \E r \in Runs :
          LET k == [NoJob EXCEPT !.req = envelope[r], !.rid = r, !.path = "resume",
                                 !.governor = governor]
          IN  Resumable(r) /\ Starts(p, k, "rGovernor")

LEMMA StartStep ==
  ASSUME TypeInv, NEW p \in Procs
  PROVE  /\ Launch(p) => Launched(p) /\ UNCHANGED approved
         /\ StartResume(p) => Resumed(p)
<1>0. job \in [Procs -> Job] /\ pc \in [Procs -> Steps]
  BY DEF TypeInv, TypeOK
<1>1. ASSUME Launch(p) PROVE Launched(p) /\ UNCHANGED approved
  <2>1. PICK r \in Requests, forced \in BOOLEAN :
           job' = [job EXCEPT ![p] =
              [NoJob EXCEPT !.req = r,
                            !.rid = IF forced \/ r \in Unroutable THEN launches + 1 ELSE r,
                            !.forced = forced,
                            !.governor = governor]]
    BY <1>1 DEF Launch
  <2>. DEFINE k == [NoJob EXCEPT !.req = r,
                                 !.rid = IF forced \/ r \in Unroutable THEN launches + 1 ELSE r,
                                 !.forced = forced, !.governor = governor]
  <2>2. job' = [job EXCEPT ![p] = k]
    BY <2>1
  <2>3. Starts(p, k, "governor")
    <3>. HIDE DEF k
    <3>. QED
      BY <1>0, <1>1, <2>2 DEF Launch, At, Goto, Starts, history
  <2>. QED
    BY <1>1, <2>3 DEF Launched, Launch, history
<1>2. ASSUME StartResume(p) PROVE Resumed(p)
  <2>1. PICK r \in Runs :
           /\ Resumable(r)
           /\ job' = [job EXCEPT ![p] =
                 [NoJob EXCEPT !.req = envelope[r], !.rid = r, !.path = "resume",
                               !.governor = governor]]
    BY <1>2 DEF StartResume
  <2>. DEFINE k == [NoJob EXCEPT !.req = envelope[r], !.rid = r, !.path = "resume",
                                 !.governor = governor]
  <2>2. job' = [job EXCEPT ![p] = k]
    BY <2>1
  <2>3. Starts(p, k, "rGovernor")
    <3>. HIDE DEF k
    <3>. QED
      BY <1>0, <1>2, <2>2 DEF StartResume, At, Goto, Starts
  <2>. QED
    BY <1>2, <2>1, <2>3 DEF Resumed, StartResume
<1>. QED
  BY <1>1, <1>2

\* The operator's steps.
Still == UNCHANGED << mappings, quota, autonomy, envelope, evidence, manifest, procs, history >>

\* A process starts, goes on or is killed, or the operator acts.
LEMMA NextStep ==
  ASSUME TypeInv, [Next]_vars
  PROVE  \/ \E p \in Procs : Launch(p) \/ StartResume(p)
         \/ \E p \in Procs : Run(p) \/ Resume(p)
         \/ \E p \in Procs : Crash(p)
         \/ Still
BY DEF Next, ClearLock, Reconfigure, Finished, Still, vars, files

-------------------------------------------------------------------------------
\* THE SEAL
LEMMA SealStep ==
  ASSUME TypeInv, EvidenceSealed, [Next]_vars
  PROVE  EvidenceSealed'
<1>. DEFINE Sealing == {"closeout", "suspend", "manifest"}
            Sealed(r) == \/ manifest[r] = evidence[r]
                         \/ r \in torn
                         \/ \E p \in Procs : job[p].rid = r /\ pc[p] \in Sealing
<1>. SUFFICES ASSUME NEW r \in Runs PROVE Sealed(r)'
  BY DEF EvidenceSealed
<1>0. Sealed(r)
  BY DEF EvidenceSealed
<1>1. ASSUME NEW p \in Procs, Launch(p) \/ StartResume(p) PROVE Sealed(r)'
  BY <1>0, <1>1, StartStep DEF Launched, Resumed, Starts, files
<1>2. ASSUME NEW p \in Procs, Crash(p) PROVE Sealed(r)'
  BY <1>0, <1>2, CrashStep DEF Alone, files
<1>3. ASSUME NEW p \in Procs, Run(p) \/ Resume(p) PROVE Sealed(r)'
  <2>. DEFINE own == job[p].rid
  <2>1. Alone(p) /\ own \in Runs
    BY <1>3, LocalStep DEF Alone, TypeInv, TypeOK
  <2>2. CASE pc[p] = "manifest"
    <3>1. WriteManifest(p)
      BY <1>3, <2>2, StepAt
    <3>2. CASE r = own
      BY <3>1, <3>2 DEF WriteManifest, TypeInv, TypeOK
    <3>3. CASE r # own
      BY <1>0, <2>1, <3>1, <3>3 DEF WriteManifest, TypeInv, TypeOK, Alone
    <3>. QED
      BY <3>2, <3>3
  <2>3. CASE pc[p] \in {"summary", "closeout", "suspend"}
    <3>1. pc'[p] \in Sealing /\ job'[p].rid = own /\ UNCHANGED << torn, manifest >>
      <4>1. ~ Leaves(p)
        BY <1>3, <2>3, StepAt DEF Leaves, WriteSummary, WriteCloseout, WriteSuspend, AfterCloseout, Goto, TypeInv, TypeOK
      <4>. QED
        BY <1>3, <2>1, <2>3, <4>1, StepAt DEF Alone, Continues, Memory, Edges, Untouched
    <3>2. r # own => evidence'[r] = evidence[r]
      BY <1>3, <2>1, <2>3, StepAt DEF WriteSummary, WriteCloseout, WriteSuspend, TypeInv, TypeOK
    <3>. QED
      BY <1>0, <2>1, <3>1, <3>2 DEF Alone
  <2>4. CASE pc[p] \notin {"summary"} \cup Sealing
    BY <1>0, <1>3, <2>1, <2>4, StepAt DEF Alone, Untouched
  <2>. QED
    BY <2>2, <2>3, <2>4
<1>4. CASE Still
  BY <1>0, <1>4 DEF Still, procs, history
<1>. QED
  BY <1>1, <1>2, <1>3, <1>4, NextStep

\* However runs, resumes and kills interleave, several runs in parallel included:
\* the manifest of a run covers its evidence as it stands, but for the time in which
\* the process that changed the evidence is on its way to seal it again, and for a
\* process killed on that way (write_integrity_manifest comes last in
\* execute_and_finalize_stage and in handle_resume).
THEOREM ManifestSeals == Spec => []EvidenceSealed
<1>1. Init => EvidenceSealed
  BY DEF Init, EvidenceSealed
<1>. QED
  BY <1>1, SealStep, TypeInvariant, PTL DEF Spec

-------------------------------------------------------------------------------
\* THE NAMES OF RUNS

\* A process works under the run id of its request, or under a number some launch
\* has drawn, and the envelope stored for its run is its own.
Named(p) ==
    pc[p] # "idle" =>
        /\ job[p].rid \in Requests => job[p].req = job[p].rid /\ ~ job[p].forced
        /\ job[p].rid \notin Requests => job[p].rid =< launches
        /\ pc[p] \in {"governor", "checks", "route"} /\ job[p].rid \in Requests =>
              job[p].req \notin Unroutable
        /\ envelope[job[p].rid] \in {NoRequest, job[p].req}

\* Processes that work on one run work on one request.
NamesAgree ==
    \A p, q \in Procs :
        pc[p] # "idle" /\ pc[q] # "idle" /\ job[p].rid = job[q].rid => job[p].req = job[q].req

EnvelopesNamed ==
    \A r \in Runs : IF r \in Requests THEN envelope[r] \in {NoRequest, r}
                    ELSE r > launches => envelope[r] = NoRequest

NameInv == EnvelopesNamed /\ NamesAgree /\ \A p \in Procs : Named(p)

\* Only the envelope of the process's own run is written.
LEMMA EnvelopeStep ==
  ASSUME TypeInv, NEW p \in Procs, Run(p) \/ Resume(p) \/ Crash(p)
  PROVE  envelope' = envelope \/ envelope' = [envelope EXCEPT ![job[p].rid] = job[p].req]
BY DEF Run, Resume, Crash, AcquireLock, LockBusy, Block, Admit, RouteInvalid, RouteQuarantined,
       RouteUnknown, Route, LoadMappings, SaveMapping, LoadQuota, Deny, Charge, NodeRaises,
       RunModA, Suspend, Allow, RefuseModB, RunModB, Settle, RecordOutcome, WriteSummary,
       WriteCloseout, WriteSuspend, WriteManifest, Release, ResumeQuarantined, ResumeAdmit,
       ResumeModB, ResumeFails, ResumeLoadAutonomy, WriteRequest, files

LEMMA NameStep ==
  ASSUME TypeInv, NameInv, [Next]_vars
  PROVE  NameInv'
<1>0. /\ \A q \in Procs : pc[q] # "idle" => job[q].req \in Requests /\ job[q].rid \in Runs
      /\ envelope \in [Runs -> Requests \cup {NoRequest}] /\ launches \in Nat
      /\ \A r \in Runs \ Requests : r \in Nat
  BY GovernedAssumption DEF TypeInv, TypeOK, Runs
<1>1. ASSUME NEW p \in Procs, Launched(p), launches < MaxLaunches PROVE NameInv'
  <2>1. PICK r \in Requests, forced \in BOOLEAN :
           LET k == [NoJob EXCEPT !.req = r,
                               !.rid = IF forced \/ r \in Unroutable THEN launches + 1 ELSE r,
                               !.forced = forced, !.governor = governor]
           IN  Starts(p, k, "governor")
    BY <1>1 DEF Launched
  <2>. DEFINE rid == IF forced \/ r \in Unroutable THEN launches + 1 ELSE r
  <2>2. /\ job'[p].req = r /\ job'[p].rid = rid /\ job'[p].forced = forced
        /\ pc'[p] = "governor" /\ pc[p] = "idle"
        /\ \A q \in Procs \ {p} : pc'[q] = pc[q] /\ job'[q] = job[q]
        /\ launches' = launches + 1 /\ UNCHANGED envelope
    BY <2>1 DEF Starts, NoJob, files
  <2>3. launches + 1 \in Runs \ Requests /\ r \in Runs
    BY <1>0, <1>1, GovernedAssumption DEF Runs
  <2>. HIDE DEF NameInv
  <2>4. EnvelopesNamed'
    <3>. SUFFICES ASSUME NEW s \in Runs
                  PROVE  IF s \in Requests THEN envelope[s] \in {NoRequest, s}
                         ELSE s > launches' => envelope[s] = NoRequest
      BY <2>2 DEF EnvelopesNamed
    <3>. QED
      BY <1>0, <2>2 DEF NameInv, EnvelopesNamed
  <2>5. Named(p)'
    <3>1. CASE forced \/ r \in Unroutable
      <4>1. rid = launches + 1
        BY <3>1
      <4>2. envelope[launches + 1] = NoRequest
        BY <1>0, <2>3 DEF NameInv, EnvelopesNamed
      <4>3. /\ job'[p].rid = launches + 1 /\ launches + 1 =< launches'
            /\ envelope'[job'[p].rid] = NoRequest
        <5>1. job'[p].rid = launches + 1
          BY <2>2, <4>1
        <5>2. launches' = launches + 1 /\ launches \in Nat /\ envelope' = envelope
          BY <1>0, <2>2
        <5>. QED
          BY <4>2, <5>1, <5>2
      <4>. QED
        BY <2>3, <4>3 DEF Named
    <3>2. CASE ~ forced /\ r \notin Unroutable
      <4>1. rid = r /\ envelope[r] \in {NoRequest, r}
        BY <2>3, <3>2 DEF NameInv, EnvelopesNamed
      <4>. QED
        BY <2>2, <3>2, <4>1 DEF Named
    <3>. QED
      BY <3>1, <3>2
  <2>6. \A q \in Procs \ {p} : Named(q)'
    BY <1>0, <2>2 DEF NameInv, Named
  <2>7. \A q \in Procs \ {p} : pc[q] # "idle" /\ job[q].rid = rid => job[q].req = r
    BY <1>0, <2>3, GovernedAssumption DEF NameInv, Named
  <2>8. NamesAgree'
    <3>1. \A a, b \in Procs \ {p} :
             pc'[a] # "idle" /\ pc'[b] # "idle" /\ job'[a].rid = job'[b].rid => job'[a].req = job'[b].req
      BY <2>2 DEF NameInv, NamesAgree
    <3>. QED
      BY <2>2, <2>7, <3>1 DEF NamesAgree
  <2>. QED
    BY <2>4, <2>5, <2>6, <2>8 DEF NameInv
<1>2. ASSUME NEW p \in Procs, Resumed(p) PROVE NameInv'
  <2>1. PICK r \in Runs :
           LET k == [NoJob EXCEPT !.req = envelope[r], !.rid = r, !.path = "resume",
                                 !.governor = governor]
           IN  Resumable(r) /\ Starts(p, k, "rGovernor")
    BY <1>2 DEF Resumed
  <2>2. /\ job'[p].req = envelope[r] /\ job'[p].rid = r /\ job'[p].forced = FALSE
        /\ pc'[p] = "rGovernor" /\ pc[p] = "idle"
        /\ \A q \in Procs \ {p} : pc'[q] = pc[q] /\ job'[q] = job[q]
        /\ launches' = launches + 1 /\ UNCHANGED envelope
    BY <2>1 DEF Starts, NoJob, files
  <2>3. envelope[r] \in Requests
    BY <2>1 DEF TypeInv, EnvelopeFirst, Resumable
  <2>4. EnvelopesNamed'
    <3>. SUFFICES ASSUME NEW s \in Runs
                  PROVE  IF s \in Requests THEN envelope[s] \in {NoRequest, s}
                         ELSE s > launches' => envelope[s] = NoRequest
      BY <2>2 DEF EnvelopesNamed
    <3>. QED
      BY <1>0, <2>2 DEF NameInv, EnvelopesNamed
  <2>5. Named(p)'
    BY <1>0, <2>2, <2>3, GovernedAssumption DEF NameInv, EnvelopesNamed, Named
  <2>6. \A q \in Procs \ {p} : Named(q)'
    BY <1>0, <2>2 DEF NameInv, Named
  <2>7. \A q \in Procs \ {p} : pc[q] # "idle" /\ job[q].rid = r => job[q].req = envelope[r]
    BY <2>3, GovernedAssumption DEF NameInv, Named
  <2>8. NamesAgree'
    <3>1. \A a, b \in Procs \ {p} :
             pc'[a] # "idle" /\ pc'[b] # "idle" /\ job'[a].rid = job'[b].rid => job'[a].req = job'[b].req
      BY <2>2 DEF NameInv, NamesAgree
    <3>. QED
      BY <2>2, <2>7, <3>1 DEF NamesAgree
  <2>. QED
    BY <2>4, <2>5, <2>6, <2>8 DEF NameInv
<1>3. ASSUME NEW p \in Procs, Run(p) \/ Resume(p) \/ Crash(p) PROVE NameInv'
  <2>1. Alone(p) /\ UNCHANGED launches
    BY <1>3, LocalStep DEF Alone, Untouched
  <2>2. /\ \A q \in Procs : pc'[q] # "idle" => /\ pc[q] # "idle"
                                                /\ job'[q].req = job[q].req
                                                /\ job'[q].rid = job[q].rid
                                                /\ job'[q].forced = job[q].forced
        /\ \A q \in Procs : pc'[q] \in {"governor", "checks", "route"} =>
                               pc[q] \in {"governor", "checks", "route"}
    BY <2>1 DEF Alone, Leaves, Continues, Memory, Edges
  <2>3. NamesAgree'
    BY <2>2 DEF NameInv, NamesAgree
  <2>4. envelope' = envelope \/ envelope' = [envelope EXCEPT ![job[p].rid] = job[p].req]
    BY <1>3, EnvelopeStep
  <2>5. EnvelopesNamed'
    BY <1>0, <2>1, <2>4 DEF NameInv, EnvelopesNamed, Named, Alone
  <2>6. ASSUME NEW q \in Procs PROVE Named(q)'
    <3>1. pc[q] # "idle" => envelope'[job[q].rid] \in {NoRequest, job[q].req}
      BY <1>0, <2>1, <2>4 DEF NameInv, NamesAgree, Named, Alone
    <3>. QED
      BY <2>1, <2>2, <3>1 DEF NameInv, Named
  <2>. QED
    BY <2>3, <2>5, <2>6 DEF NameInv
<1>4. CASE Still
  BY <1>4 DEF Still, procs, NameInv, EnvelopesNamed, NamesAgree, Named
<1>. QED
  BY <1>1, <1>2, <1>3, <1>4, NextStep, StartStep DEF Launch

LEMMA NameInvariant == Spec => []NameInv
<1>1. Init => NameInv
  BY GovernedAssumption DEF Init, NameInv, EnvelopesNamed, NamesAgree, Named
<1>. QED
  BY <1>1, NameStep, TypeInvariant, PTL DEF Spec

\* A run has its envelope before it has a summary and before it is recorded or
\* resumed, so that handle_resume finds what it is to continue.
THEOREM EnvelopesStored == Spec => []EnvelopeFirst
BY TypeCorrect, PTL

-------------------------------------------------------------------------------
\* WHAT COMPLETED MEANS
NormalOnlyEver == \A g \in GovernorConfigs : g.mode = "normal"

\* What a process is to report as COMPLETED it has done.
Performed(p) ==
    /\ pc[p] # "idle"
    /\ "COMPLETED" \in {job[p].executed, job[p].state}
    /\ job[p].req \in MayWrite
    => effects[job[p].rid] > 0

CompletionInv == CompletionHasEffect /\ \A p \in Procs : Performed(p)

\* A process that starts has nothing to report.
LEMMA FreshJob ==
  ASSUME NEW p \in Procs, Launched(p) \/ Resumed(p)
  PROVE  /\ job'[p].executed = "FAILED" /\ job'[p].state = "FAILED" /\ job'[p].used = 0
         /\ job'[p].path # "denied"
         /\ pc[p] = "idle" /\ pc'[p] \in {"governor", "rGovernor"}
         /\ pc'[p] = "rGovernor" => p \in Resumers
         /\ \A q \in Procs \ {p} : pc'[q] = pc[q] /\ job'[q] = job[q]
         /\ launches' = launches + 1
         /\ UNCHANGED << files, effects, spent, outcomes, charged, torn, crashes >>
BY DEF Launched, Resumed, Starts, NoJob

\* Effects are never undone, and whoever has acted, in a run or in a resume, has
\* left an effect if its envelope wants one.
LEMMA PerformedStep ==
  ASSUME TypeInv, NEW p \in Procs, NormalOnlyEver, Perform(p), job[p].rid \in Runs
  PROVE  /\ \A r \in Runs : effects'[r] \in Nat /\ effects'[r] >= effects[r]
         /\ job[p].req \in MayWrite => effects'[job[p].rid] > 0
<1>0. effects \in [Runs -> Nat]
  BY DEF TypeInv, TypeOK
<1>1. job[p].governor.mode = "normal"
  BY DEF NormalOnlyEver, TypeInv, TypeOK, Job
<1>2. CASE job[p].req \in MayWrite
  BY <1>0, <1>1, <1>2 DEF Perform, Writes
<1>3. CASE job[p].req \notin MayWrite
  <2>1. effects' = effects
    BY <1>0, <1>3 DEF Perform, Writes
  <2>. QED
    BY <1>0, <1>3, <2>1
<1>. QED
  BY <1>2, <1>3

LEMMA CompletionStep ==
  ASSUME NormalOnlyEver, TypeInv, NameInv, CompletionInv, [Next]_vars
  PROVE  CompletionInv'
<1>0. /\ \A q \in Procs : pc[q] # "idle" => job[q].req \in Requests /\ job[q].rid \in Runs
      /\ envelope \in [Runs -> Requests \cup {NoRequest}] /\ effects \in [Runs -> Nat]
      /\ evidence \in [Runs -> Evidence] /\ MayWrite \subseteq Requests
      /\ \A r \in Runs : evidence[r].summary = "COMPLETED" /\ envelope[r] \in MayWrite => effects[r] > 0
  BY GovernedAssumption DEF TypeInv, TypeOK, CompletionInv, CompletionHasEffect, NormalOnlyEver
<1>1. ASSUME NEW p \in Procs, Launch(p) \/ StartResume(p) PROVE CompletionInv'
  BY <1>1, StartStep, FreshJob DEF CompletionInv, CompletionHasEffect, Performed, files
<1>2. ASSUME NEW p \in Procs, Crash(p) PROVE CompletionInv'
  <2>1. UNCHANGED << evidence, envelope, effects >>
    BY <1>2, CrashStep DEF files
  <2>2. pc'[p] = "idle" /\ \A q \in Procs \ {p} : pc'[q] = pc[q] /\ job'[q] = job[q]
    BY <1>2, CrashStep DEF Alone, Leaves
  <2>3. CompletionHasEffect'
    BY <2>1 DEF CompletionInv, CompletionHasEffect
  <2>. QED
    BY <2>1, <2>2, <2>3 DEF CompletionInv, Performed
<1>3. ASSUME NEW p \in Procs, Run(p) \/ Resume(p) PROVE CompletionInv'
  <2>. DEFINE own == job[p].rid
  <2>1. Alone(p) /\ own \in Runs /\ job[p].req \in Requests
    BY <1>0, <1>3, LocalStep DEF Alone
  <2>2. /\ \A r \in Runs : effects'[r] \in Nat /\ effects'[r] >= effects[r]
        /\ RunModB(p) \/ ResumeModB(p) => (job[p].req \in MayWrite => effects'[own] > 0)
    <3>1. CASE RunModB(p) \/ ResumeModB(p)
      BY <2>1, <3>1, PerformedStep DEF RunModB, ResumeModB
    <3>2. CASE ~ RunModB(p) /\ ~ ResumeModB(p)
      <4>1. effects' = effects
        BY <1>3, <2>1, <3>2, StepAt DEF Alone, Untouched, NodeRaises, RefuseModB, ResumeFails, history
      <4>. QED
        BY <1>0, <3>2, <4>1
    <3>. QED
      BY <3>1, <3>2
  <2>3. \A q \in Procs \ {p} : Performed(q)'
    <3>. SUFFICES ASSUME NEW q \in Procs \ {p} PROVE Performed(q)'
      OBVIOUS
    <3>1. job'[q] = job[q] /\ pc'[q] = pc[q] /\ Performed(q)
      BY <2>1 DEF Alone, CompletionInv
    <3>2. pc[q] = "idle" \/ job[q].rid \in Runs
      BY <1>0
    <3>. QED
      BY <1>0, <2>2, <3>1, <3>2 DEF Performed
  <2>4. Performed(p)'
    <3>0. Performed(p) /\ pc[p] # "idle"
      BY <2>1 DEF CompletionInv, Alone
    <3>1. CASE Leaves(p)
      BY <3>1 DEF Leaves, Performed
    <3>2. CASE Continues(p)
      <4>0. job'[p].req = job[p].req /\ job'[p].rid = own
        BY <3>2 DEF Continues, Memory
      <4>1. CASE job'[p].executed = job[p].executed /\ job'[p].state = job[p].state
        BY <1>0, <2>1, <2>2, <3>0, <4>0, <4>1 DEF Performed
      <4>2. CASE pc[p] = "approval"
        <5>1. job'[p].executed \in {job[p].executed, "SUSPENDED"} /\ job'[p].state = job[p].state
          BY <1>3, <3>2, <4>2, StepAt DEF NodeRaises, Suspend, Allow, TypeInv, TypeOK, Job, Continues, Memory
        <5>. QED
          BY <1>0, <2>1, <2>2, <3>0, <4>0, <5>1 DEF Performed
      <4>3. CASE pc[p] = "modB"
        <5>1. job'[p].executed = job[p].executed \/ RunModB(p)
          BY <1>3, <4>3, StepAt DEF NodeRaises, RefuseModB, TypeInv, TypeOK, Job
        <5>2. job'[p].state = job[p].state
          BY <3>2, <4>3 DEF Continues, Memory
        <5>. QED
          BY <1>0, <2>1, <2>2, <3>0, <4>0, <5>1, <5>2 DEF Performed
      <4>4. CASE pc[p] = "settle"
        <5>1. job'[p].state = Verdict(job[p].executed)
          <6>1. Settle(p) /\ job[p] \in Job /\ job \in [Procs -> Job]
            BY <1>3, <4>4, StepAt DEF TypeInv, TypeOK
          <6>. QED
            BY <6>1 DEF Settle, Job
        <5>2. job'[p].state = "COMPLETED" => job[p].executed = "COMPLETED"
          BY <5>1 DEF Verdict
        <5>3. job'[p].executed = job[p].executed
          BY <3>2, <4>4 DEF Continues, Memory
        <5>. QED
          BY <1>0, <2>1, <2>2, <3>0, <4>0, <5>2, <5>3 DEF Performed
      <4>5. CASE pc[p] = "rModB"
        <5>1. ResumeModB(p) \/ job' = job
          BY <1>3, <4>5, StepAt DEF ResumeFails
        <5>. QED
          BY <1>0, <2>1, <2>2, <3>0, <4>0, <4>1, <5>1 DEF Performed
      <4>. QED
        BY <3>2, <4>1, <4>2, <4>3, <4>4, <4>5 DEF Continues, Memory
    <3>. QED
      BY <2>1, <3>1, <3>2 DEF Alone
  <2>5. CompletionHasEffect'
    <3>. SUFFICES ASSUME NEW r \in Runs, evidence'[r].summary = "COMPLETED", envelope'[r] \in MayWrite
                  PROVE  effects'[r] > 0
      BY DEF CompletionHasEffect
    <3>1. CASE pc[p] = "summary" /\ r = own
      <4>1. /\ evidence'[own].summary = job[p].state /\ envelope' = envelope
            /\ job[p].req = envelope[own]
        <5>1. WriteSummary(p)
          BY <1>3, <3>1, StepAt
        <5>2. envelope[own] = job[p].req
          BY <1>0, <2>1, <3>1, GovernedAssumption DEF TypeInv, EnvelopeFirst, NameInv, Named, ResumeSteps
        <5>. QED
          BY <1>0, <2>1, <5>1, <5>2 DEF WriteSummary, Evidence
      <4>2. Performed(p)
        BY DEF CompletionInv
      <4>. QED
        BY <1>0, <2>1, <2>2, <3>1, <4>1, <4>2 DEF Performed
    <3>2. CASE evidence'[r].summary = evidence[r].summary
      <4>1. envelope[r] \in Requests
        BY <3>2 DEF TypeInv, EnvelopeFirst
      <4>2. envelope'[r] = envelope[r]
        BY <1>0, <1>3, <2>1, <4>1, EnvelopeStep, GovernedAssumption DEF NameInv, Named, Alone
      <4>. QED
        BY <1>0, <2>2, <3>2, <4>2
    <3>3. \/ pc[p] = "summary" /\ r = own
          \/ evidence'[r].summary = evidence[r].summary
      BY <1>3, SummaryStep
    <3>. QED
      BY <3>1, <3>2, <3>3
  <2>. QED
    BY <2>3, <2>4, <2>5 DEF CompletionInv
<1>4. CASE Still
  BY <1>4 DEF Still, procs, history, CompletionInv, CompletionHasEffect, Performed
<1>. QED
  BY <1>1, <1>2, <1>3, <1>4, NextStep

\* Kills, resumes and parallel runs included: while no configuration says
\* report_only, a run is recorded COMPLETED only after MOD_B has left the effect its
\* envelope asks for, and a resume continues the envelope of the run it completes.
THEOREM CompletionsReal == Spec => []CompletionHasEffect
<1>1. CASE NormalOnlyEver
  <2>1. Init => CompletionInv
    BY DEF Init, CompletionInv, CompletionHasEffect, Performed, NoEvidence
  <2>2. TypeInv /\ NameInv /\ CompletionInv /\ [Next]_vars => CompletionInv'
    BY <1>1, CompletionStep
  <2>3. CompletionInv => CompletionHasEffect
    BY DEF CompletionInv
  <2>. QED
    BY <2>1, <2>2, <2>3, TypeInvariant, NameInvariant, PTL DEF Spec
<1>2. CASE ~ NormalOnlyEver
  <2>1. CompletionHasEffect
    BY <1>2 DEF CompletionHasEffect, NormalOnlyEver
  <2>. QED
    BY <2>1, PTL
<1>. QED
  BY <1>1, <1>2

-------------------------------------------------------------------------------
\* THE STORES WRITTEN BACK FROM A COPY
\* With max_parallel_runs = 1 whoever is past its governor stage is alone there, so
\* the copy it writes back is current.

LEMMA OthersOutside ==
  ASSUME MaxParallel = 1, OneRunAtATime, NEW p \in Procs, Active(p)
  PROVE  \A q \in Procs \ {p} : pc[q] \in Outside
BY DEF OneRunAtATime, Active, Outside

\* Steps past the idempotency stage that come before the summary is written.
PastIdempotency == {"quotaLoad", "charge", "modA", "approval", "modB", "settle",
                    "autonomy", "summary"} \cup ResumeSteps

\* The copy of the idempotency store is current, and whoever is past the
\* idempotency stage has its run id there.
Mapped(p) ==
    /\ pc[p] = "idemSave" => job[p].mappings = mappings
    /\ pc[p] \in PastIdempotency /\ job[p].rid \in Requests => job[p].rid \in mappings

MappingInv == MappingsComplete /\ \A p \in Procs : Mapped(p)

LEMMA MappingStep ==
  ASSUME MaxParallel = 1, TypeInv, OneRunAtATime, NameInv, MappingInv, [Next]_vars
  PROVE  MappingInv'
<1>0. /\ \A q \in Procs : pc[q] # "idle" => job[q].req \in Requests /\ job[q].rid \in Runs
      /\ Requests \subseteq Runs
  BY DEF TypeInv, TypeOK, Runs
<1>1. ASSUME NEW p \in Procs, Launched(p) PROVE MappingInv'
  <2>1. pc'[p] = "governor" /\ UNCHANGED << mappings, evidence >>
        /\ \A q \in Procs \ {p} : pc'[q] = pc[q] /\ job'[q] = job[q]
    BY <1>1 DEF Launched, Starts, files
  <2>. QED
    BY <2>1 DEF MappingInv, MappingsComplete, Mapped, PastIdempotency, ResumeSteps
<1>2. ASSUME NEW p \in Procs, Resumed(p) PROVE MappingInv'
  <2>1. PICK r \in Runs :
           LET k == [NoJob EXCEPT !.req = envelope[r], !.rid = r, !.path = "resume",
                                 !.governor = governor]
           IN  Resumable(r) /\ Starts(p, k, "rGovernor")
    BY <1>2 DEF Resumed
  <2>2. pc'[p] = "rGovernor" /\ UNCHANGED << mappings, evidence >> /\ job'[p].rid = r
        /\ \A q \in Procs \ {p} : pc'[q] = pc[q] /\ job'[q] = job[q]
    BY <2>1 DEF Starts, files, NoJob
  <2>3. r \in Requests => r \in mappings
    BY <2>1 DEF Resumable, MappingInv, MappingsComplete
  <2>. QED
    BY <2>2, <2>3 DEF MappingInv, MappingsComplete, Mapped
<1>3. ASSUME NEW p \in Procs, Crash(p) PROVE MappingInv'
  BY <1>3, CrashStep DEF Alone, Leaves, files, MappingInv, MappingsComplete, Mapped, PastIdempotency, ResumeSteps
<1>4. ASSUME NEW p \in Procs, Run(p) \/ Resume(p) PROVE MappingInv'
  <2>. DEFINE own == job[p].rid
  <2>1. Alone(p) /\ own \in Runs /\ Mapped(p) /\ Named(p)
    BY <1>0, <1>4, LocalStep DEF Alone, MappingInv, NameInv
  <2>2. /\ mappings \subseteq mappings'
        /\ \A q \in Procs \ {p} : pc[q] = "idemSave" => mappings' = mappings
    <3>1. CASE pc[p] = "idemSave"
      <4>1. SaveMapping(p) /\ job[p].mappings = mappings
        BY <1>4, <2>1, <3>1, StepAt DEF Mapped
      <4>2. \A q \in Procs \ {p} : pc[q] # "idemSave"
        BY <3>1, OthersOutside DEF Active, Outside
      <4>. QED
        BY <4>1, <4>2 DEF SaveMapping, SavedMappings
    <3>2. CASE pc[p] # "idemSave"
      BY <2>1, <3>2 DEF Alone, Untouched
    <3>. QED
      BY <3>1, <3>2
  <2>3. \A q \in Procs \ {p} : Mapped(q)'
    BY <2>1, <2>2 DEF Alone, MappingInv, Mapped
  <2>4. Mapped(p)'
    <3>1. CASE Leaves(p)
      BY <3>1 DEF Leaves, Mapped, PastIdempotency, ResumeSteps
    <3>2. CASE Continues(p) /\ pc[p] = "idemSave"
      <4>1. SaveMapping(p) /\ job' = job /\ pc'[p] # "idemSave"
        BY <1>4, <3>2, StepAt DEF SaveMapping, Continues, Edges
      <4>2. own \in Requests => own \in mappings'
        BY <2>1, <3>2, <4>1 DEF SaveMapping, SavedMappings, Mapped, Named
      <4>. QED
        BY <4>1, <4>2 DEF Mapped
    <3>3. CASE Continues(p) /\ pc[p] = "idemLoad"
      <4>1. job'[p].mappings = mappings /\ mappings' = mappings /\ pc'[p] = "idemSave"
        <5>1. LoadMappings(p) /\ job \in [Procs -> Job] /\ job[p] \in Job /\ pc \in [Procs -> Steps]
          BY <1>4, <3>3, StepAt DEF TypeInv, TypeOK
        <5>. QED
          BY <5>1 DEF LoadMappings, Goto, files, Job
      <4>. QED
        BY <4>1 DEF Mapped, PastIdempotency, ResumeSteps
    <3>4. CASE Continues(p) /\ pc[p] = "route"
      <4>1. pc'[p] = "summary" => job[p].req \in Unroutable
        BY <1>4, <3>4, StepAt DEF RouteInvalid, RouteQuarantined, RouteUnknown, Route, Goto, TypeInv, TypeOK
      <4>2. pc'[p] = "summary" => own \notin Requests
        BY <2>1, <3>4, <4>1 DEF Named
      <4>. QED
        BY <3>4, <4>2 DEF Continues, Edges, Memory, Mapped, PastIdempotency, ResumeSteps
    <3>5. CASE Continues(p) /\ pc[p] \notin {"idemLoad", "idemSave", "route"}
      BY <2>1, <2>2, <3>5 DEF Continues, Edges, Memory, Mapped, PastIdempotency, ResumeSteps
    <3>. QED
      BY <2>1, <3>1, <3>2, <3>3, <3>4, <3>5 DEF Alone
  <2>5. MappingsComplete'
    <3>. SUFFICES ASSUME NEW r \in Requests, evidence'[r].summary # "NONE" PROVE r \in mappings'
      BY DEF MappingsComplete
    <3>1. CASE evidence'[r].summary = evidence[r].summary
      BY <2>2, <3>1 DEF MappingInv, MappingsComplete
    <3>2. CASE r = own /\ pc[p] = "summary"
      BY <2>1, <2>2, <3>2 DEF Mapped, PastIdempotency
    <3>. QED
      BY <1>0, <1>4, <3>1, <3>2, SummaryStep
  <2>. QED
    BY <2>3, <2>4, <2>5 DEF MappingInv
<1>5. CASE Still
  BY <1>5 DEF Still, procs, MappingInv, MappingsComplete, Mapped
<1>. QED
  BY <1>1, <1>2, <1>3, <1>4, <1>5, NextStep, StartStep

\* With max_parallel_runs = 1, kills and resumes included: no run id with evidence
\* is ever lost from the idempotency store, although every run replaces the whole
\* store by its own copy (idempotency_stage, save_store).
THEOREM MappingsKept ==
  ASSUME MaxParallel = 1
  PROVE  Spec => []MappingsComplete
<1>1. Init => MappingInv
  BY DEF Init, MappingInv, MappingsComplete, Mapped, NoEvidence, Runs, PastIdempotency, ResumeSteps
<1>2. TypeInv /\ OneRunAtATime /\ NameInv /\ MappingInv /\ [Next]_vars => MappingInv'
  BY MappingStep
<1>3. MappingInv => MappingsComplete
  BY DEF MappingInv
<1>. QED
  BY <1>1, <1>2, <1>3, TypeInvariant, MutualExclusion, NameInvariant, PTL DEF Spec

\* From the read of the autonomy record to its write back the copy is current.
HoldsRecord == {"charge", "modA", "approval", "modB", "settle", "autonomy"}

RecordInv ==
    /\ OutcomesCounted
    /\ \A p \in Procs : pc[p] \in HoldsRecord => job[p].autonomy = autonomy

LEMMA RecordStep ==
  ASSUME MaxParallel = 1, TypeInv, OneRunAtATime, RecordInv, [Next]_vars
  PROVE  RecordInv'
<1>1. ASSUME NEW p \in Procs, Launch(p) \/ StartResume(p) PROVE RecordInv'
  BY <1>1, StartStep, FreshJob DEF files, RecordInv, OutcomesCounted, HoldsRecord
<1>2. ASSUME NEW p \in Procs, Crash(p) PROVE RecordInv'
  BY <1>2, CrashStep DEF Alone, Leaves, files, RecordInv, OutcomesCounted, HoldsRecord
<1>3. ASSUME NEW p \in Procs, Run(p) \/ Resume(p) PROVE RecordInv'
  <2>1. Alone(p)
    BY <1>3, LocalStep
  <2>2. CASE pc[p] = "autonomy"
    <3>1. RecordOutcome(p) /\ job[p].autonomy = autonomy
      BY <1>3, <2>2, StepAt DEF RecordInv, HoldsRecord
    <3>2. autonomy'.samples = autonomy.samples + 1 /\ outcomes' = outcomes + 1
      BY <3>1 DEF RecordOutcome, Recorded, UpdateRecord
    <3>3. pc'[p] = "summary"
      BY <3>1 DEF RecordOutcome, Goto, TypeInv, TypeOK
    <3>4. \A q \in Procs \ {p} : pc'[q] \in Outside
      BY <2>1, <2>2, OthersOutside DEF Alone, Active
    <3>. QED
      BY <3>2, <3>3, <3>4 DEF RecordInv, OutcomesCounted, HoldsRecord, Outside
  <2>3. CASE pc[p] # "autonomy"
    <3>1. UNCHANGED << autonomy, outcomes >>
      BY <2>1, <2>3 DEF Alone, Untouched
    <3>2. pc'[p] \in HoldsRecord => job'[p].autonomy = autonomy
      <4>1. CASE pc[p] \in {"quotaLoad", "rAutonomy"}
        <5>0. job \in [Procs -> Job] /\ job[p] \in Job
          BY DEF TypeInv, TypeOK
        <5>1. CASE pc[p] = "quotaLoad"
          BY <1>3, <5>0, <5>1, StepAt DEF LoadQuota, Job
        <5>2. CASE pc[p] = "rAutonomy"
          BY <1>3, <5>0, <5>2, StepAt DEF ResumeLoadAutonomy, Job
        <5>. QED
          BY <4>1, <5>1, <5>2
      <4>2. CASE pc[p] \notin {"quotaLoad", "rAutonomy"}
        BY <2>1, <2>3, <4>2 DEF Alone, Leaves, Continues, Edges, Memory, HoldsRecord, RecordInv
      <4>. QED
        BY <4>1, <4>2
    <3>. QED
      BY <2>1, <3>1, <3>2 DEF RecordInv, OutcomesCounted, Alone
  <2>. QED
    BY <2>2, <2>3
<1>4. CASE Still
  BY <1>4 DEF Still, procs, history, RecordInv, OutcomesCounted
<1>. QED
  BY <1>1, <1>2, <1>3, <1>4, NextStep

\* With max_parallel_runs = 1, kills and resumes included: the autonomy record has
\* one sample for every outcome reported to it, though the record written back was
\* read before the run was executed (quota_autonomy_stage, update_autonomy).
THEOREM OutcomesKept ==
  ASSUME MaxParallel = 1
  PROVE  Spec => []OutcomesCounted
<1>1. Init => RecordInv
  BY DEF Init, RecordInv, OutcomesCounted, InitialRecord, HoldsRecord
<1>2. TypeInv /\ OneRunAtATime /\ RecordInv /\ [Next]_vars => RecordInv'
  BY RecordStep
<1>3. RecordInv => OutcomesCounted
  BY DEF RecordInv
<1>. QED
  BY <1>1, <1>2, <1>3, TypeInvariant, MutualExclusion, PTL DEF Spec

-------------------------------------------------------------------------------
\* TOKENS
BeforeCharge == {"governor", "checks", "route", "idemLoad", "idemSave", "quotaLoad", "charge"}

\* Nobody was killed and nobody resumes: no token is spent beside the quota store.
Exact == crashes = 0 /\ Resumers = {}

\* Nothing is used before the charge; from then on the stored tokens and those in
\* use are among the spent ones, and are all of them in the exact case.
Accounted(p) ==
    /\ pc[p] \in BeforeCharge => job[p].used = 0
    /\ pc[p] \in Spending =>
          /\ quota.tokens + job[p].used =< spent
          /\ Exact => quota.tokens + job[p].used = spent

NobodyResumes == Resumers = {} => \A p \in Procs : pc[p] \notin ResumeSteps

TokenInv ==
    /\ quota.tokens =< spent
    /\ Exact /\ (\A p \in Procs : pc[p] \notin Spending) => quota.tokens = spent
    /\ NobodyResumes
    /\ \A p \in Procs : Accounted(p)

LEMMA NobodyResumesStep ==
  ASSUME TypeInv, NobodyResumes, [Next]_vars
  PROVE  NobodyResumes'
<1>1. ASSUME NEW p \in Procs, Launch(p) \/ StartResume(p) PROVE NobodyResumes'
  BY <1>1, StartStep, FreshJob DEF NobodyResumes, ResumeSteps
<1>2. ASSUME NEW p \in Procs, Run(p) \/ Resume(p) \/ Crash(p) PROVE NobodyResumes'
  BY <1>2, LocalStep DEF Alone, Leaves, Continues, Edges, NobodyResumes, ResumeSteps
<1>3. CASE Still
  BY <1>3 DEF Still, procs, NobodyResumes
<1>. QED
  BY <1>1, <1>2, <1>3, NextStep

\* What the modules of a run spend they also count in the memory of the process.
LEMMA SpendStep ==
  ASSUME TypeInv, NEW p \in Procs, Run(p) \/ Resume(p), pc[p] \in {"modA", "modB"}
  PROVE  \E n \in Nat : spent' = spent + n /\ job'[p].used = job[p].used + n
<1>0. /\ job \in [Procs -> Job] /\ job[p] \in Job /\ job[p].used \in Nat /\ spent \in Nat
      /\ ModATokens \in Nat /\ ModBTokens \in Nat
  BY GovernedAssumption DEF TypeInv, TypeOK, Job
<1>1. CASE NodeRaises(p)
  <2>1. spent' = spent /\ job' = job
    BY <1>1 DEF NodeRaises, history
  <2>. QED
    BY <1>0, <2>1, spent + 0 = spent, job[p].used + 0 = job[p].used
<1>2. CASE RunModA(p)
  <2>1. spent' = spent + ModATokens /\ job' = [job EXCEPT ![p].used = @ + ModATokens]
    BY <1>2 DEF RunModA
  <2>2. job'[p].used = job[p].used + ModATokens
    BY <1>0, <2>1 DEF Job
  <2>. QED
    BY <1>0, <2>1, <2>2
<1>3. CASE RefuseModB(p)
  <2>1. spent' = spent + ModBTokens /\ job' = [job EXCEPT ![p].used = @ + ModBTokens]
    BY <1>3 DEF RefuseModB
  <2>2. job'[p].used = job[p].used + ModBTokens
    BY <1>0, <2>1 DEF Job
  <2>. QED
    BY <1>0, <2>1, <2>2
<1>4. CASE RunModB(p)
  <2>1. PICK status \in {"COMPLETED", "FAILED"} :
           job' = [job EXCEPT ![p] =
              [job[p] EXCEPT !.used = job[p].used + ModBTokens, !.executed = status]]
    BY <1>4 DEF RunModB
  <2>2. job'[p].used = job[p].used + ModBTokens
    BY <1>0, <2>1 DEF Job
  <2>3. spent' = spent + ModBTokens
    BY <1>4 DEF RunModB
  <2>. QED
    BY <1>0, <2>2, <2>3
<1>. QED
  BY <1>1, <1>2, <1>3, <1>4, StepAt

LEMMA TokenStep ==
  ASSUME MaxParallel = 1, TypeInv, OneRunAtATime, QuotaInv, TokenInv, [Next]_vars
  PROVE  TokenInv'
<1>0. /\ quota \in Quota /\ quota.tokens \in Nat /\ spent \in Nat /\ crashes \in Nat
      /\ \A q \in Procs : job[q].used \in Nat
      /\ NobodyResumes'
  BY NobodyResumesStep DEF TypeInv, TypeOK, Quota, Job, TokenInv
<1>1. ASSUME NEW p \in Procs, Launch(p) \/ StartResume(p) PROVE TokenInv'
  <2>1. /\ job'[p].used = 0 /\ pc[p] \notin Spending /\ pc'[p] \notin Spending
        /\ \A q \in Procs \ {p} : pc'[q] = pc[q] /\ job'[q] = job[q]
        /\ UNCHANGED << quota, spent, crashes >>
    BY <1>1, StartStep, FreshJob DEF Spending, files
  <2>. QED
    BY <1>0, <2>1 DEF TokenInv, Exact, Accounted
<1>2. ASSUME NEW p \in Procs, Crash(p) PROVE TokenInv'
  <2>1. /\ ~ Exact' /\ pc'[p] = "idle"
        /\ \A q \in Procs \ {p} : pc'[q] = pc[q] /\ job'[q] = job[q]
        /\ UNCHANGED << quota, spent >>
    BY <1>0, <1>2, CrashStep DEF Alone, Leaves, files, Exact
  <2>. QED
    BY <1>0, <2>1 DEF TokenInv, Accounted, Spending, BeforeCharge
<1>3. ASSUME NEW p \in Procs, Run(p) \/ Resume(p) PROVE TokenInv'
  <2>1. Alone(p) /\ UNCHANGED crashes /\ Accounted(p) /\ CopyCurrent(p)
    BY <1>3, LocalStep, StepAt DEF TokenInv, QuotaInv
  <2>2. \A q \in Procs \ {p} : pc'[q] = pc[q] /\ job'[q] = job[q]
    BY <2>1 DEF Alone
  <2>3. CASE pc[p] \in {"charge", "modA", "approval", "modB", "settle"}
    <3>1. \A q \in Procs \ {p} : pc[q] \in Outside
      BY <2>3, OthersOutside DEF Active
    <3>2. \A q \in Procs \ {p} : pc[q] \notin Spending /\ pc'[q] \notin Spending
      BY <2>2, <3>1 DEF Outside, Spending
    <3>3. \A q \in Procs \ {p} : Accounted(q)'
      BY <2>2, <3>2 DEF TokenInv, Accounted
    <3>4. CASE pc[p] = "charge"
      <4>1. CASE Deny(p)
        <5>1. UNCHANGED << quota, spent >> /\ pc'[p] = "autonomy"
          BY <4>1 DEF Deny, Goto, history, TypeInv, TypeOK
        <5>. QED
          BY <1>0, <2>1, <3>2, <3>3, <3>4, <5>1 DEF TokenInv, Accounted, Exact, Spending, BeforeCharge
      <4>2. CASE Charge(p)
        <5>1. quota'.tokens = quota.tokens /\ spent' = spent /\ job' = job /\ pc'[p] = "modA"
          BY <2>1, <3>4, <4>2 DEF Charge, Goto, CopyCurrent, TypeInv, TypeOK
        <5>2. job[p].used = 0
          BY <2>1, <3>4 DEF Accounted, BeforeCharge
        <5>3. Exact => quota.tokens = spent
          BY <3>2, <3>4 DEF TokenInv, Spending
        <5>. QED
          BY <1>0, <2>1, <3>2, <3>3, <3>4, <5>1, <5>2, <5>3 DEF TokenInv, Accounted, Exact, Spending, BeforeCharge
      <4>. QED
        BY <1>3, <3>4, <4>1, <4>2, StepAt
    <3>5. CASE pc[p] \in {"modA", "approval", "modB"}
      <4>1. pc'[p] \in Spending \cup {"idle"} /\ quota' = quota
        BY <2>1, <3>5 DEF Alone, Leaves, Continues, Edges, Untouched, Spending
      <4>2. pc'[p] # "idle"
        BY <1>3, <3>5, StepAt DEF NodeRaises, RunModA, Suspend, Allow, RefuseModB, RunModB, Goto, TypeInv, TypeOK
      <4>3. \E n \in Nat : spent' = spent + n /\ job'[p].used = job[p].used + n
        <5>1. CASE pc[p] \in {"modA", "modB"}
          BY <1>3, <5>1, SpendStep
        <5>2. CASE pc[p] = "approval"
          <6>1. spent' = spent /\ job'[p].used = job[p].used
            BY <2>1, <4>2, <5>2 DEF Alone, Leaves, Continues, Memory, Untouched
          <6>. QED
            BY <1>0, <6>1, spent + 0 = spent, job[p].used + 0 = job[p].used
        <5>. QED
          BY <3>5, <5>1, <5>2
      <4>. QED
        BY <1>0, <2>1, <3>3, <3>5, <4>1, <4>2, <4>3 DEF TokenInv, Accounted, Exact, Spending, BeforeCharge
    <3>6. CASE pc[p] = "settle"
      <4>1. /\ quota'.tokens = job[p].quota.tokens + job[p].used
            /\ spent' = spent /\ pc'[p] \notin Spending \cup BeforeCharge
        BY <1>3, <3>6, StepAt DEF Settle, SettledQuota, AfterSettle, Goto, Spending, BeforeCharge, history, TypeInv, TypeOK
      <4>2. job[p].quota.tokens = quota.tokens
        BY <2>1, <3>6 DEF CopyCurrent, Spending
      <4>. QED
        BY <1>0, <2>1, <3>2, <3>3, <3>6, <4>1, <4>2 DEF TokenInv, Accounted, Exact, Spending
    <3>. QED
      BY <2>3, <3>4, <3>5, <3>6
  <2>4. CASE pc[p] \notin {"charge", "modA", "approval", "modB", "settle"}
    <3>1. UNCHANGED quota /\ pc'[p] \notin Spending /\ pc[p] \notin Spending
      BY <2>1, <2>4 DEF Alone, Untouched, Leaves, Continues, Edges, Spending
    <3>2. pc'[p] \in BeforeCharge => job'[p].used = 0
      BY <2>1, <2>4 DEF Alone, Leaves, Continues, Edges, Memory, BeforeCharge, Accounted
    <3>3. /\ spent' >= spent /\ spent' \in Nat
          /\ Resumers = {} => spent' = spent
      <4>1. CASE pc[p] = "rModB"
        <5>1. spent' \in {spent, spent + ModBTokens}
          BY <1>3, <4>1, StepAt DEF ResumeModB, ResumeFails
        <5>2. Resumers # {}
          BY <4>1 DEF TokenInv, NobodyResumes, ResumeSteps
        <5>. QED
          BY <1>0, <5>1, <5>2, GovernedAssumption
      <4>2. CASE pc[p] # "rModB"
        BY <1>0, <2>1, <2>4, <4>2 DEF Alone, Untouched
      <4>. QED
        BY <4>1, <4>2
    <3>4. \A q \in Procs \ {p} : Accounted(q)'
      <4>. SUFFICES ASSUME NEW q \in Procs \ {p} PROVE Accounted(q)'
        OBVIOUS
      <4>1. Accounted(q) /\ pc'[q] = pc[q] /\ job'[q] = job[q] /\ job[q].used \in Nat
        BY <1>0, <2>2 DEF TokenInv
      <4>. QED
        BY <1>0, <2>1, <3>1, <3>3, <4>1 DEF Accounted, Exact
    <3>5. (\A q \in Procs : pc'[q] \notin Spending) => \A q \in Procs : pc[q] \notin Spending
      BY <2>2, <3>1
    <3>. QED
      BY <1>0, <2>1, <3>1, <3>2, <3>3, <3>4, <3>5 DEF TokenInv, Accounted, Exact
  <2>. QED
    BY <2>3, <2>4
<1>4. CASE Still
  BY <1>0, <1>4 DEF Still, procs, history, TokenInv, Accounted, Exact
<1>. QED
  BY <1>1, <1>2, <1>3, <1>4, NextStep

LEMMA TokenInvariant ==
  ASSUME MaxParallel = 1
  PROVE  Spec => [](QuotaInv /\ TokenInv)
<1>1. Init => QuotaInv /\ TokenInv
  BY GovernedAssumption DEF Init, QuotaInv, AdmissionsCounted, CopyCurrent, Spending,
     TokenInv, NobodyResumes, ResumeSteps, Accounted, BeforeCharge
<1>2. TypeInv /\ OneRunAtATime /\ QuotaInv /\ TokenInv /\ [Next]_vars => QuotaInv' /\ TokenInv'
  BY QuotaStepInv, TokenStep
<1>. QED
  BY <1>1, <1>2, TypeInvariant, MutualExclusion, PTL DEF Spec

\* With max_parallel_runs = 1 the tenant is never charged for tokens nobody spent;
\* and unless a process was killed, which loses the tokens of its memory, or runs
\* are resumed, which charges none, an idle workspace has all of them on record
\* (SettledQuota from the copy of quota_autonomy_stage).
THEOREM TokensKept ==
  ASSUME MaxParallel = 1
  PROVE  Spec => []TokensAccounted
<1>1. TokenInv => TokensAccounted
  BY DEF TokenInv, TokensAccounted, Exact, RunnersIdle, At, Spending
<1>. QED
  BY <1>1, TokenInvariant, PTL

\* The daily token quota stands before the effects: with max_parallel_runs = 1,
\* while nobody is killed or resumes, MOD_B acts only within
\* max_est_tokens_per_day, its own tokens included.  Without these premises the
\* copy that BudgetTracker counts from does not hold all that was spent.
THEOREM EffectsWithinQuota ==
  ASSUME MaxParallel = 1, MaxCrashes = 0, Resumers = {}
  PROVE  Spec => TokenQuotaBeforeEffects
<1>1. ASSUME TypeInv, QuotaInv, TokenInv, [Next]_vars, NEW r \in Runs, effects'[r] > effects[r]
      PROVE  spent' =< MaxTokens
  <2>1. PICK p \in Procs : RunModB(p) \/ ResumeModB(p)
    BY <1>1, EffectStep
  <2>2. RunModB(p)
    BY <1>1, <2>1 DEF ResumeModB, At, TokenInv, NobodyResumes, ResumeSteps
  <2>3. crashes = 0 /\ Exact
    BY <1>1 DEF TypeInv, TypeOK, Exact
  <2>4. quota.tokens + job[p].used = spent /\ job[p].quota.tokens = quota.tokens
    BY <1>1, <2>2, <2>3 DEF RunModB, At, TokenInv, Accounted, Spending, QuotaInv, CopyCurrent
  <2>5. spent' = spent + ModBTokens /\ ~ (job[p].quota.tokens + job[p].used + ModBTokens > MaxTokens)
    BY <2>2 DEF RunModB, OverTokenQuota
  <2>6. spent \in Nat /\ ModBTokens \in Nat /\ MaxTokens \in Nat
    BY <1>1, GovernedAssumption DEF TypeInv, TypeOK
  <2>. QED
    BY <2>4, <2>5, <2>6
<1>2. TypeInv /\ QuotaInv /\ TokenInv /\ [Next]_vars =>
         [\A r \in Runs : effects'[r] > effects[r] => spent' =< MaxTokens]_vars
  BY <1>1
<1>. QED
  BY <1>2, TypeInvariant, TokenInvariant, PTL DEF Spec, TokenQuotaBeforeEffects

-------------------------------------------------------------------------------
\* COMPLETED IS FINAL

\* Nobody resumes, or one command line is run at a time: no two processes are
\* about to decide one run.
Undisturbed == Resumers = {} \/ \A p, q \in Procs : p = q

BeforeIdempotency == {"governor", "checks", "route", "idemLoad", "idemSave"}

\* A run with a fresh number has no summary before its own, and whoever is past the
\* idempotency stage works on a run that is not completed.
Unfinished(p) ==
    /\ pc[p] \in BeforeIdempotency /\ job[p].rid \notin Requests =>
          evidence[job[p].rid].summary = "NONE"
    /\ pc[p] \in PastIdempotency => evidence[job[p].rid].summary # "COMPLETED"

NumbersFresh ==
    \A r \in Runs \ Requests : r > launches => evidence[r].summary = "NONE"

\* Nobody works on the number of another process.
NumbersOwned ==
    \A p, q \in Procs :
        /\ pc[p] # "idle" /\ pc[q] # "idle"
        /\ job[p].rid = job[q].rid /\ job[p].rid \notin Requests
        => p = q

FinalInv ==
    /\ NumbersFresh
    /\ NumbersOwned
    /\ NobodyResumes
    /\ \A p \in Procs : Unfinished(p)

\* No other process works on the summary that p is about to write.
LEMMA SoleWriter ==
  ASSUME MaxParallel = 1, Undisturbed, OneRunAtATime, TypeInv, FinalInv,
         NEW p \in Procs, pc[p] = "summary", NEW q \in Procs \ {p}
  PROVE  /\ pc[q] \notin PastIdempotency
         /\ pc[q] # "idle" /\ job[q].rid \notin Requests => job[q].rid # job[p].rid
<1>1. pc[q] \in Outside
  BY OthersOutside DEF Active
<1>2. pc[q] # "rGovernor"
  BY DEF Undisturbed, FinalInv, NobodyResumes, ResumeSteps
<1>. QED
  BY <1>1, <1>2 DEF Outside, PastIdempotency, ResumeSteps, FinalInv, NumbersOwned

LEMMA FinalStep ==
  ASSUME MaxParallel = 1, Undisturbed, TypeInv, OneRunAtATime, NameInv, FinalInv, [Next]_vars
  PROVE  FinalInv'
<1>0. /\ \A q \in Procs : pc[q] # "idle" => job[q].req \in Requests /\ job[q].rid \in Runs
      /\ launches \in Nat /\ NobodyResumes'
      /\ \A r \in Runs \ Requests : r \in Nat
      /\ \A q \in Procs : Named(q) /\ Unfinished(q)
  BY NobodyResumesStep, GovernedAssumption DEF TypeInv, TypeOK, Runs, FinalInv, NameInv
<1>1. ASSUME NEW p \in Procs, Launched(p), launches < MaxLaunches PROVE FinalInv'
  <2>1. PICK r \in Requests, forced \in BOOLEAN :
           LET k == [NoJob EXCEPT !.req = r,
                               !.rid = IF forced \/ r \in Unroutable THEN launches + 1 ELSE r,
                               !.forced = forced, !.governor = governor]
           IN  Starts(p, k, "governor")
    BY <1>1 DEF Launched
  <2>2. /\ job'[p].rid \in {r, launches + 1}
        /\ pc'[p] = "governor" /\ pc[p] = "idle"
        /\ \A q \in Procs \ {p} : pc'[q] = pc[q] /\ job'[q] = job[q]
        /\ launches' = launches + 1 /\ UNCHANGED evidence
    BY <2>1 DEF Starts, NoJob, files
  <2>3. launches + 1 \in Runs \ Requests
    BY <1>0, <1>1, GovernedAssumption DEF Runs
  <2>4. NumbersFresh'
    BY <1>0, <2>2 DEF FinalInv, NumbersFresh
  <2>5. \A q \in Procs \ {p} : Unfinished(q)'
    BY <1>0, <2>2 DEF Unfinished
  <2>6. Unfinished(p)'
    <3>1. evidence[launches + 1].summary = "NONE"
      BY <1>0, <2>3 DEF FinalInv, NumbersFresh
    <3>. QED
      BY <2>2, <3>1 DEF Unfinished, PastIdempotency, ResumeSteps
  <2>7. NumbersOwned'
    <3>1. \A q \in Procs \ {p} : pc[q] # "idle" /\ job[q].rid \notin Requests => job[q].rid # launches + 1
      BY <1>0 DEF Named
    <3>. QED
      BY <2>2, <3>1 DEF FinalInv, NumbersOwned
  <2>. QED
    BY <1>0, <2>4, <2>5, <2>6, <2>7 DEF FinalInv
<1>2. ASSUME NEW p \in Procs, Resumed(p) PROVE FinalInv'
  <2>1. PICK r \in Runs :
           LET k == [NoJob EXCEPT !.req = envelope[r], !.rid = r, !.path = "resume",
                                 !.governor = governor]
           IN  Resumable(r) /\ Starts(p, k, "rGovernor")
    BY <1>2 DEF Resumed
  <2>2. pc'[p] = "rGovernor" /\ UNCHANGED evidence /\ job'[p].rid = r /\ launches' = launches + 1
    BY <2>1 DEF Starts, files, NoJob
  <2>3. \A q \in Procs : q = p
    BY <1>2 DEF Resumed, Undisturbed
  <2>. QED
    BY <1>0, <2>1, <2>2, <2>3 DEF Resumable, FinalInv, NumbersFresh, NumbersOwned, Unfinished, BeforeIdempotency
<1>3. ASSUME NEW p \in Procs, Crash(p) PROVE FinalInv'
  <2>1. /\ UNCHANGED << evidence, launches >> /\ pc'[p] = "idle"
        /\ \A q \in Procs \ {p} : pc'[q] = pc[q] /\ job'[q] = job[q]
    BY <1>3, CrashStep DEF Alone, Leaves, files
  <2>. QED
    BY <1>0, <2>1 DEF FinalInv, NumbersFresh, NumbersOwned, Unfinished, BeforeIdempotency, PastIdempotency, ResumeSteps
<1>4. ASSUME NEW p \in Procs, Run(p) \/ Resume(p) PROVE FinalInv'
  <2>. DEFINE own == job[p].rid
  <2>1. Alone(p) /\ own \in Runs /\ launches' = launches
    BY <1>0, <1>4, LocalStep DEF Alone, Untouched
  <2>2. \A r \in Runs : \/ evidence'[r].summary = evidence[r].summary
                        \/ r = own /\ pc[p] = "summary"
    BY <1>4, SummaryStep
  <2>3. NumbersFresh'
    BY <1>0, <2>1, <2>2 DEF FinalInv, NumbersFresh, Named, Alone
  <2>4. NumbersOwned'
    BY <2>1 DEF Alone, Leaves, Continues, Memory, FinalInv, NumbersOwned
  <2>5. ASSUME NEW q \in Procs \ {p} PROVE Unfinished(q)'
    <3>1. pc'[q] = pc[q] /\ job'[q] = job[q] /\ Unfinished(q) /\ (pc[q] # "idle" => job[q].rid \in Runs)
      BY <1>0, <2>1 DEF Alone
    <3>2. CASE pc[p] = "summary"
      BY <2>2, <3>1, <3>2, SoleWriter DEF Unfinished, BeforeIdempotency, PastIdempotency, ResumeSteps
    <3>3. CASE pc[p] # "summary"
      BY <2>2, <3>1, <3>3 DEF Unfinished, BeforeIdempotency, PastIdempotency, ResumeSteps
    <3>. QED
      BY <3>2, <3>3
  <2>6. Unfinished(p)'
    <3>0. Unfinished(p) /\ Named(p)
      BY <1>0
    <3>1. CASE Leaves(p)
      BY <3>1 DEF Leaves, Unfinished, BeforeIdempotency, PastIdempotency, ResumeSteps
    <3>2. CASE Continues(p) /\ pc[p] = "summary"
      BY <3>2 DEF Continues, Edges, Unfinished, BeforeIdempotency, PastIdempotency, ResumeSteps
    <3>3. CASE Continues(p) /\ pc[p] = "idemSave"
      <4>1. SaveMapping(p) /\ job' = job
        BY <1>4, <3>3, StepAt DEF SaveMapping
      <4>2. evidence'[own].summary = evidence[own].summary
        BY <2>1, <2>2, <3>3
      <4>3. pc'[p] = "quotaLoad" => evidence[own].summary # "COMPLETED"
        <5>1. CASE own \in Requests
          BY <3>0, <3>3, <4>1, <5>1 DEF SaveMapping, IdempotentHit, Goto, Named, TypeInv, TypeOK
        <5>2. CASE own \notin Requests
          BY <3>0, <3>3, <5>2 DEF Unfinished, BeforeIdempotency
        <5>. QED
          BY <5>1, <5>2
      <4>4. pc'[p] \in {"release", "quotaLoad"}
        BY <3>3 DEF Continues, Edges
      <4>. QED
        BY <4>1, <4>2, <4>3, <4>4 DEF Unfinished, BeforeIdempotency, PastIdempotency, ResumeSteps
    <3>4. CASE Continues(p) /\ pc[p] = "route"
      <4>1. pc'[p] = "summary" => job[p].req \in Unroutable
        BY <1>4, <3>4, StepAt DEF RouteInvalid, RouteQuarantined, RouteUnknown, Route, Goto, TypeInv, TypeOK
      <4>2. pc'[p] = "summary" => own \notin Requests
        BY <3>0, <3>4, <4>1 DEF Named
      <4>3. evidence'[own].summary = evidence[own].summary /\ job'[p].rid = own
        BY <2>1, <2>2, <3>4 DEF Continues, Memory
      <4>. QED
        BY <3>0, <3>4, <4>2, <4>3 DEF Continues, Edges, Unfinished, BeforeIdempotency, PastIdempotency, ResumeSteps
    <3>5. CASE Continues(p) /\ pc[p] \notin {"idemSave", "route", "summary"}
      <4>1. evidence'[own].summary = evidence[own].summary /\ job'[p].rid = own
        BY <2>1, <2>2, <3>5 DEF Continues, Memory
      <4>. QED
        BY <3>0, <3>5, <4>1 DEF Continues, Edges, Unfinished, BeforeIdempotency, PastIdempotency, ResumeSteps
    <3>. QED
      BY <2>1, <3>1, <3>2, <3>3, <3>4, <3>5 DEF Alone
  <2>. QED
    BY <1>0, <2>3, <2>4, <2>5, <2>6 DEF FinalInv
<1>5. CASE Still
  BY <1>0, <1>5 DEF Still, procs, FinalInv, NumbersFresh, NumbersOwned, Unfinished
<1>. QED
  BY <1>1, <1>2, <1>3, <1>4, <1>5, NextStep, StartStep DEF Launch

LEMMA FinalInvariant ==
  ASSUME MaxParallel = 1, Undisturbed
  PROVE  Spec => []FinalInv
<1>1. Init => FinalInv
  BY DEF Init, NoEvidence, FinalInv, NumbersFresh, NumbersOwned, NobodyResumes, Unfinished,
         BeforeIdempotency, PastIdempotency, ResumeSteps
<1>2. TypeInv /\ OneRunAtATime /\ NameInv /\ FinalInv /\ [Next]_vars => FinalInv'
  BY FinalStep
<1>. QED
  BY <1>1, <1>2, TypeInvariant, MutualExclusion, NameInvariant, PTL DEF Spec

\* With max_parallel_runs = 1, and as long as nobody resumes runs beside other
\* command lines: a run recorded COMPLETED is never recorded otherwise and never
\* acts again, whatever is killed and launched again (idempotency_stage stops the
\* second launch, handle_resume resumes SUSPENDED runs only).
THEOREM CompletionFinal ==
  ASSUME MaxParallel = 1, Undisturbed
  PROVE  Spec => CompletedIsFinal
<1>. DEFINE Final(r) == evidence[r].summary = "COMPLETED" =>
                           /\ evidence'[r].summary = "COMPLETED"
                           /\ effects'[r] = effects[r]
<1>1. ASSUME TypeInv, OneRunAtATime, FinalInv, [Next]_vars, NEW r \in Runs
      PROVE  Final(r)
  <2>. SUFFICES ASSUME evidence[r].summary = "COMPLETED"
                PROVE  evidence'[r].summary = "COMPLETED" /\ effects'[r] = effects[r]
    OBVIOUS
  <2>0. \A p \in Procs : pc[p] \in PastIdempotency => job[p].rid # r
    BY <1>1 DEF FinalInv, Unfinished
  <2>1. ASSUME NEW p \in Procs, Launch(p) \/ StartResume(p) PROVE UNCHANGED << evidence, effects >>
    BY <1>1, <2>1, StartStep, FreshJob DEF files
  <2>2. ASSUME NEW p \in Procs, Crash(p) PROVE UNCHANGED << evidence, effects >>
    BY <1>1, <2>2, CrashStep DEF files
  <2>3. ASSUME NEW p \in Procs, Run(p) \/ Resume(p)
        PROVE  evidence'[r].summary = "COMPLETED" /\ effects'[r] = effects[r]
    <3>1. evidence'[r].summary = evidence[r].summary
      BY <1>1, <2>0, <2>3, SummaryStep DEF PastIdempotency
    <3>2. CASE pc[p] \in {"modB", "rModB"}
      <4>1. job[p].rid # r
        BY <2>0, <3>2 DEF PastIdempotency, ResumeSteps
      <4>2. effects' = effects \/ Perform(p)
        BY <2>3, <3>2, StepAt DEF NodeRaises, RefuseModB, RunModB, ResumeModB, ResumeFails, history
      <4>. QED
        BY <1>1, <3>1, <4>1, <4>2 DEF Perform, TypeInv, TypeOK
    <3>3. CASE pc[p] \notin {"modB", "rModB"}
      BY <1>1, <2>3, <3>1, <3>3, LocalStep DEF Alone, Untouched
    <3>. QED
      BY <3>2, <3>3
  <2>4. CASE Still
    BY <2>4 DEF Still, history
  <2>. QED
    BY <1>1, <2>1, <2>2, <2>3, <2>4, NextStep
<1>2. TypeInv /\ OneRunAtATime /\ FinalInv /\ [Next]_vars => [\A r \in Runs : Final(r)]_vars
  BY <1>1
<1>. QED
  BY <1>2, TypeInvariant, MutualExclusion, FinalInvariant, PTL DEF Spec, CompletedIsFinal

-------------------------------------------------------------------------------
\* THE LIFECYCLE OF A RUN

\* The steps in which a process executes its run, unless it records a denied one.
ExecutingSteps == {"modA", "approval", "modB", "settle", "rModB", "rAutonomy"}

\* Only a denied run is recorded without being executed, and always as FAILED.
Decided(p) ==
    /\ pc[p] \in RunSteps \cup ResumeSteps => job[p].path # "denied"
    /\ pc[p] \in RunSteps \/ job[p].path = "denied" => job[p].state = "FAILED"

DecidedInv == \A p \in Procs : Decided(p)

\* Once past its checks a process that is not killed goes on to its release.
LEMMA GoesOn ==
  ASSUME TypeInv, NEW p \in Procs, Run(p) \/ Resume(p),
         pc[p] \notin {"governor", "rGovernor", "checks", "release"}
  PROVE  Continues(p)
<1>1. pc'[p] # "idle"
  BY DEF Run, Resume, At, AcquireLock, LockBusy, Block, Admit, RouteInvalid, RouteQuarantined,
         RouteUnknown, Route, LoadMappings, SaveMapping, LoadQuota, Deny, Charge, NodeRaises,
         RunModA, Suspend, Allow, RefuseModB, RunModB, Settle, AfterSettle, RecordOutcome,
         WriteSummary, WriteCloseout, AfterCloseout, WriteSuspend, WriteManifest, Release,
         ResumeQuarantined, ResumeAdmit, ResumeModB, ResumeFails, ResumeLoadAutonomy, Goto,
         TypeInv, TypeOK
<1>. QED
  BY <1>1, LocalStep DEF Alone, Leaves

LEMMA DecidedStep ==
  ASSUME TypeInv, DecidedInv, [Next]_vars
  PROVE  DecidedInv'
<1>1. ASSUME NEW p \in Procs, Launch(p) \/ StartResume(p) PROVE DecidedInv'
  <2>1. /\ job'[p].path # "denied" /\ job'[p].state = "FAILED" /\ pc'[p] # "idle"
        /\ \A q \in Procs \ {p} : pc'[q] = pc[q] /\ job'[q] = job[q]
    BY <1>1, StartStep, FreshJob
  <2>. QED
    BY <2>1 DEF DecidedInv, Decided
<1>2. ASSUME NEW p \in Procs, Run(p) \/ Resume(p) \/ Crash(p) PROVE DecidedInv'
  <2>1. Alone(p) /\ Decided(p)
    BY <1>2, LocalStep DEF DecidedInv
  <2>2. Decided(p)'
    <3>1. CASE Leaves(p)
      BY <3>1 DEF Leaves, Decided, NoJob, RunSteps, ResumeSteps
    <3>2. CASE Continues(p)
      <4>1. pc'[p] # "idle"
        BY <3>2 DEF Continues, Edges
      <4>2. CASE << pc[p], pc'[p] >> \in {<< "route", "summary" >>, << "charge", "autonomy" >>}
        BY <2>1, <3>2, <4>1, <4>2 DEF Continues, Memory, Decided, RunSteps, ResumeSteps
      <4>3. CASE << pc[p], pc'[p] >> \notin {<< "route", "summary" >>, << "charge", "autonomy" >>}
        <5>1. job'[p].path = job[p].path
          BY <3>2, <4>3 DEF Continues, Memory
        <5>. QED
          BY <2>1, <3>2, <4>1, <5>1 DEF Continues, Memory, Edges, Decided, RunSteps, ResumeSteps
      <4>. QED
        BY <4>2, <4>3
    <3>. QED
      BY <2>1, <3>1, <3>2 DEF Alone
  <2>. QED
    BY <2>1, <2>2 DEF Alone, DecidedInv, Decided
<1>3. CASE Still
  BY <1>3 DEF Still, procs, DecidedInv, Decided
<1>. QED
  BY <1>1, <1>2, <1>3, NextStep

LEMMA DecidedInvariant == Spec => []DecidedInv
<1>1. Init => DecidedInv
  BY DEF Init, DecidedInv, Decided, NoJob, RunSteps, ResumeSteps
<1>. QED
  BY <1>1, DecidedStep, TypeInvariant, PTL DEF Spec

\* The refinement mapping of Lifecycle.
Phase(r) == IF \E p \in Procs : Executing(p, r) THEN "RUNNING" ELSE evidence[r].summary

Phases == [r \in Runs |-> Phase(r)]

LEMMA PhaseMoves ==
  ASSUME NEW r \in Runs, NEW v, Phase(r)' = v, \A s \in Runs \ {r} : Phase(s)' = Phase(s)
  PROVE  Phases' = [Phases EXCEPT ![r] = v] /\ Phases[r] = Phase(r)
BY DEF Phases

LEMMA PhasesKept ==
  ASSUME \A r \in Runs : Phase(r)' = Phase(r)
  PROVE  Phases' = Phases
BY DEF Phases

\* A step of a process moves the phase of its own run only, which is not COMPLETED
\* when it is started or rejected, and acts only while that run is RUNNING.
LEMMA ProcessImplements ==
  ASSUME MaxParallel = 1, TypeInv, OneRunAtATime, FinalInv, DecidedInv,
         NEW p \in Procs, Run(p) \/ Resume(p)
  PROVE  Lifecycle!Next \/ UNCHANGED << Phases, effects >>
<1>. SUFFICES ASSUME NEW own \in Runs, job[p].rid = own
              PROVE  Lifecycle!Next \/ UNCHANGED << Phases, effects >>
  BY LocalStep DEF Alone, TypeInv, TypeOK
<1>0. /\ Alone(p) /\ Decided(p) /\ Unfinished(p)
      /\ evidence \in [Runs -> Evidence] /\ evidence[own].summary \in SummaryStates
      /\ effects \in [Runs -> Nat]
  BY LocalStep DEF Alone, TypeInv, TypeOK, FinalInv, DecidedInv, Evidence
<1>1. \A q \in Procs \ {p}, r \in Runs : Executing(q, r)' <=> Executing(q, r)
  BY <1>0 DEF Alone, Executing
<1>2. \A r \in Runs \ {own} : Executing(p, r)' <=> Executing(p, r)
  <2>1. job'[p].rid = own \/ pc'[p] = "idle"
    BY <1>0 DEF Alone, Leaves, Continues, Memory
  <2>. QED
    BY <2>1 DEF Executing
<1>3. \A r \in Runs \ {own} : Phase(r)' = Phase(r)
  BY <1>1, <1>2, SummaryStep DEF Phase
<1>4. CASE ~ Active(p)
  <2>1. ~ Executing(p, own) /\ ~ Executing(p, own)'
    BY <1>0, <1>4 DEF Alone, Leaves, Continues, Edges, Active, Executing
  <2>2. evidence' = evidence /\ effects' = effects
    BY <1>0, <1>4 DEF Alone, Untouched, Active
  <2>3. \A r \in Runs : Phase(r)' = Phase(r)
    BY <1>1, <1>3, <2>1, <2>2 DEF Phase
  <2>. QED
    BY <2>2, <2>3, PhasesKept
<1>5. CASE Active(p)
  <2>1. \A q \in Procs \ {p} : ~ Executing(q, own) /\ ~ Executing(q, own)'
    <3>1. \A q \in Procs \ {p} : ~ Executing(q, own)
      BY <1>5, OthersOutside DEF Outside, Executing
    <3>. QED
      BY <1>0, <1>1, <3>1
  <2>2. /\ Phase(own) = IF Executing(p, own) THEN "RUNNING" ELSE evidence[own].summary
        /\ Phase(own)' = IF Executing(p, own)' THEN "RUNNING" ELSE evidence'[own].summary
    BY <2>1 DEF Phase
  <2>3. CASE pc[p] \in {"charge", "rChecks"}
    <3>1. Continues(p) /\ ~ Executing(p, own) /\ evidence' = evidence /\ effects' = effects
      BY <1>0, <2>3, GoesOn DEF Alone, Untouched, Executing
    <3>2. evidence[own].summary \in {"NONE", "FAILED", "SUSPENDED"}
      BY <1>0, <2>3 DEF Unfinished, PastIdempotency, ResumeSteps, SummaryStates, RunStates
    <3>3. CASE pc'[p] \in {"modA", "rModB"}
      <4>1. Executing(p, own)'
        BY <3>1, <3>3 DEF Continues, Memory, Executing
      <4>2. Phases' = [Phases EXCEPT ![own] = "RUNNING"] /\ Phases[own] \in {"NONE", "FAILED", "SUSPENDED"}
        BY <1>0, <1>3, <2>2, <3>1, <3>2, <4>1, PhaseMoves
      <4>. QED
        BY <1>0, <3>1, <4>2 DEF Lifecycle!Next, Lifecycle!Start, Lifecycle!Startable, Phases, Phase
    <3>4. CASE pc'[p] \notin {"modA", "rModB"}
      <4>1. pc'[p] = "autonomy" => job'[p].path = "denied"
        <5>1. pc'[p] = "autonomy" => Deny(p)
          BY <2>3, <3>1, StepAt DEF Continues, Edges, Charge, Goto, TypeInv, TypeOK
        <5>. QED
          BY <5>1 DEF Deny, TypeInv, TypeOK, Job
      <4>2. ~ Executing(p, own)'
        BY <2>3, <3>1, <3>4, <4>1 DEF Continues, Edges, Executing
      <4>3. \A r \in Runs : Phase(r)' = Phase(r)
        BY <1>3, <2>2, <3>1, <4>2
      <4>. QED
        BY <3>1, <4>3, PhasesKept
    <3>. QED
      BY <3>3, <3>4
  <2>4. CASE pc[p] \in ExecutingSteps
    <3>1. Continues(p) /\ Executing(p, own) /\ evidence' = evidence /\ job[p].path # "denied"
      BY <1>0, <2>4, GoesOn DEF Alone, Untouched, Executing, ExecutingSteps, Decided, RunSteps, ResumeSteps
    <3>2. Executing(p, own)'
      BY <2>4, <3>1 DEF Continues, Edges, Memory, Executing, ExecutingSteps
    <3>3. \A r \in Runs : Phase(r)' = Phase(r)
      BY <1>3, <2>2, <3>1, <3>2
    <3>4. effects' = effects \/ effects' = [effects EXCEPT ![own] = effects[own] + 1]
      <4>1. CASE Perform(p)
        BY <1>0, <4>1 DEF Perform
      <4>2. CASE ~ Perform(p)
        BY <1>0, <2>4, <4>2, StepAt DEF Alone, Untouched, ExecutingSteps, NodeRaises, RefuseModB, RunModB,
           ResumeModB, ResumeFails, history
      <4>. QED
        BY <4>1, <4>2
    <3>5. Phases[own] = "RUNNING" /\ Phases' = Phases
      BY <1>0, <2>2, <3>1, <3>3, PhasesKept DEF Phases
    <3>. QED
      BY <1>0, <3>4, <3>5 DEF Lifecycle!Next, Lifecycle!Act, Phases, Phase
  <2>5. CASE pc[p] = "summary"
    <3>1. Continues(p) /\ ~ Executing(p, own)' /\ effects' = effects
      <4>1. Continues(p)
        BY <2>5, GoesOn
      <4>. QED
        BY <1>0, <2>5, <4>1 DEF Alone, Untouched, Continues, Edges, Executing
    <3>2. evidence'[own].summary = job[p].state
      <4>1. evidence' = [evidence EXCEPT ![own] = [evidence[own] EXCEPT !.summary = job[p].state]]
        BY <2>5, StepAt DEF WriteSummary
      <4>2. evidence[own] \in Evidence
        BY <1>0
      <4>. QED
        BY <1>0, <4>1, <4>2 DEF Evidence
    <3>3. Phases' = [Phases EXCEPT ![own] = job[p].state] /\ Phases[own] = Phase(own)
      BY <1>0, <1>3, <2>2, <3>1, <3>2, PhaseMoves
    <3>4. CASE job[p].path = "denied"
      <4>1. job[p].state = "FAILED" /\ Phase(own) \in {"NONE", "FAILED", "SUSPENDED"}
        BY <1>0, <2>2, <2>5, <3>4 DEF Decided, Executing, Unfinished, PastIdempotency, SummaryStates, RunStates
      <4>. QED
        BY <1>0, <3>1, <3>3, <4>1 DEF Lifecycle!Next, Lifecycle!Reject, Lifecycle!Startable, Phases, Phase
    <3>5. CASE job[p].path # "denied"
      <4>1. Phase(own) = "RUNNING" /\ job[p].state \in {"COMPLETED", "FAILED", "SUSPENDED"}
        BY <2>2, <2>5, <3>5 DEF Executing, TypeInv, TypeOK, Job, RunStates
      <4>2. Phases' \in {[Phases EXCEPT ![own] = s] : s \in {"COMPLETED", "FAILED", "SUSPENDED"}}
        BY <3>3, <4>1
      <4>3. Phases[own] = "RUNNING"
        BY <3>3, <4>1
      <4>. QED
        BY <3>1, <4>2, <4>3 DEF Lifecycle!Next, Lifecycle!Decide, Phases, Phase
    <3>. QED
      BY <3>4, <3>5
  <2>6. CASE pc[p] = "autonomy"
    <3>1. Continues(p) /\ evidence' = evidence /\ effects' = effects
      BY <1>0, <2>6, GoesOn DEF Alone, Untouched
    <3>2. Executing(p, own)' <=> Executing(p, own)
      BY <2>6, <3>1 DEF Continues, Edges, Memory, Executing
    <3>3. \A r \in Runs : Phase(r)' = Phase(r)
      BY <1>3, <2>2, <3>1, <3>2
    <3>. QED
      BY <3>1, <3>3, PhasesKept
  <2>7. CASE pc[p] \notin {"charge", "rChecks", "summary", "autonomy"} \cup ExecutingSteps
    <3>1. ~ Executing(p, own) /\ effects' = effects
      BY <1>0, <2>7 DEF Alone, Untouched, Executing, ExecutingSteps
    <3>2. pc'[p] = "summary" => job'[p].path = "denied"
      <4>1. pc'[p] = "summary" => pc[p] = "route"
        BY <1>0, <2>7 DEF Alone, Leaves, Continues, Edges, ExecutingSteps
      <4>2. pc'[p] = "summary" => RouteUnknown(p)
        BY <4>1, StepAt DEF RouteInvalid, RouteQuarantined, Route, Goto, TypeInv, TypeOK
      <4>. QED
        BY <4>2 DEF RouteUnknown, TypeInv, TypeOK, Job
    <3>3. ~ Executing(p, own)'
      BY <1>0, <2>7, <3>2 DEF Alone, Leaves, Continues, Edges, Executing, ExecutingSteps
    <3>4. evidence'[own].summary = evidence[own].summary
      BY <1>0, <2>7, SummaryStep
    <3>5. \A r \in Runs : Phase(r)' = Phase(r)
      BY <1>3, <2>2, <3>1, <3>3, <3>4
    <3>. QED
      BY <3>1, <3>5, PhasesKept
  <2>. QED
    BY <2>3, <2>4, <2>5, <2>6, <2>7
<1>. QED
  BY <1>4, <1>5

LEMMA NextImplements ==
  ASSUME MaxParallel = 1, MaxCrashes = 0, TypeInv, OneRunAtATime, FinalInv, DecidedInv, [Next]_vars
  PROVE  Lifecycle!Next \/ UNCHANGED << Phases, effects >>
<1>1. ASSUME NEW p \in Procs, Launch(p) \/ StartResume(p)
      PROVE  UNCHANGED << Phases, effects >>
  <2>1. /\ UNCHANGED << evidence, effects >>
        /\ \A q \in Procs \ {p} : pc'[q] = pc[q] /\ job'[q] = job[q]
        /\ pc[p] = "idle" /\ pc'[p] \in {"governor", "rGovernor"}
    BY <1>1, StartStep, FreshJob DEF files
  <2>2. \A q \in Procs, r \in Runs : Executing(q, r)' <=> Executing(q, r)
    BY <2>1 DEF Executing
  <2>3. \A r \in Runs : Phase(r)' = Phase(r)
    BY <2>1, <2>2 DEF Phase
  <2>. QED
    BY <2>1, <2>3, PhasesKept
<1>2. ASSUME NEW p \in Procs PROVE ~ Crash(p)
  BY DEF Crash, TypeInv, TypeOK
<1>3. CASE Still
  BY <1>3 DEF Still, procs, history, Phases, Phase, Executing
<1>. QED
  BY <1>1, <1>2, <1>3, NextStep, ProcessImplements

\* The pipeline implements the lifecycle of a run id: with max_parallel_runs = 1,
\* while no process is killed and nobody resumes beside other command lines, every
\* step starts, rejects, acts in or decides one run, or leaves all of them as they
\* are.
THEOREM LifecycleImplemented ==
  ASSUME MaxParallel = 1, MaxCrashes = 0, Undisturbed
  PROVE  Spec => ImplementsLifecycle
<1>1. Init => Lifecycle!Init
  <2>. SUFFICES ASSUME Init PROVE Lifecycle!Init
    OBVIOUS
  <2>1. \A r \in Runs : Phase(r) = "NONE"
    BY DEF Init, NoEvidence, Phase, Executing
  <2>2. effects = [r \in Runs |-> 0]
    BY DEF Init
  <2>. QED
    BY <2>1, <2>2 DEF Lifecycle!Init, Phase
<1>2. TypeInv /\ OneRunAtATime /\ FinalInv /\ DecidedInv /\ [Next]_vars =>
         [Lifecycle!Next]_<< Phases, effects >>
  BY NextImplements
<1>3. TypeInv /\ OneRunAtATime /\ FinalInv /\ DecidedInv /\ [Next]_vars =>
         [Lifecycle!Next]_(Lifecycle!vars)
  BY <1>2 DEF Lifecycle!vars, Phases, Phase
<1>. QED
  BY <1>1, <1>3, TypeInvariant, MutualExclusion, FinalInvariant, DecidedInvariant, PTL
     DEF Spec, ImplementsLifecycle, Lifecycle!Spec

===============================================================================
