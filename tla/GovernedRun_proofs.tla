-------------------------- MODULE GovernedRun_proofs --------------------------
(***************************************************************************)
(* Theorems about GovernedRun for every value of its constants.            *)
(***************************************************************************)
EXTENDS GovernedRun, TLAPS

LEMMA InitialRecordType == InitialRecord \in AutonomyRecord
  BY AutonomyAssumption DEF InitialRecord, AutonomyRecord, Recent

LEMMA NoJobType == NoJob \in Job
<1>1. (CHOOSE g \in GovernorConfigs : TRUE) \in GovernorConfigs
  BY GovernedAssumption
<1>2. InitialRecord \in AutonomyRecord
  BY InitialRecordType
<1>. QED
  BY <1>1, <1>2 DEF NoJob, Job, Quota, RunStates

LEMMA UpdateRecordType ==
  ASSUME NEW record \in AutonomyRecord, NEW outcome \in Outcomes
  PROVE  UpdateRecord(record, outcome) \in AutonomyRecord
<1>1. Remember(record.recent, outcome) \in Recent
  BY DEF AutonomyRecord, Recent, Remember
<1>2. ASSUME NEW mode \in AutonomyModes, NEW n, NEW k, NEW s
      PROVE  Demoted(Promoted(mode, n, k), s) \in AutonomyModes
  BY DEF Demoted, Promoted, AutonomyModes
<1>. QED
  BY <1>1, <1>2 DEF UpdateRecord, AutonomyRecord, Outcomes

-------------------------------------------------------------------------------
\* TYPE CORRECTNESS
TypeInv == TypeOK /\ EnvelopeFirst

LEMMA PerformType ==
  ASSUME TypeInv, NEW p \in Procs, Perform(p), job[p].rid \in Runs
  PROVE  effects' \in [Runs -> Nat]
<1>1. effects \in [Runs -> Nat]
  BY DEF TypeInv, TypeOK
<1>2. CASE Writes(p)
  <2>1. effects' = [effects EXCEPT ![job[p].rid] = effects[job[p].rid] + 1]
    BY <1>2 DEF Perform
  <2>. QED
    BY <1>1, <2>1, effects[job[p].rid] + 1 \in Nat
<1>3. CASE ~ Writes(p)
  <2>1. effects' = [effects EXCEPT ![job[p].rid] = effects[job[p].rid]]
    BY <1>3 DEF Perform
  <2>. QED
    BY <1>1, <2>1
<1>. QED
  BY <1>2, <1>3

\* Taking the lock changes nothing else in the memory of a process.
LEMMA LockedJobType ==
  ASSUME NEW j \in Job
  PROVE  LET k == [j EXCEPT !.locked = TRUE]
         IN  k \in Job /\ k.req = j.req /\ k.rid = j.rid
BY DEF Job

\* Recording a path, a verdict, a state or an autonomy record keeps the memory of a process well typed.
LEMMA JobUpdates ==
  ASSUME NEW j \in Job
  PROVE  /\ [j EXCEPT !.path = "denied"] \in Job
         /\ \A status \in RunStates : [j EXCEPT !.executed = status] \in Job
         /\ \A status \in RunStates : [j EXCEPT !.state = status] \in Job
         /\ \A record \in AutonomyRecord : [j EXCEPT !.autonomy = record] \in Job
<1>1. [j EXCEPT !.path = "denied"] \in Job
  BY DEF Job
<1>2. ASSUME NEW status \in RunStates PROVE [j EXCEPT !.executed = status] \in Job
  BY DEF Job
<1>3. ASSUME NEW status \in RunStates PROVE [j EXCEPT !.state = status] \in Job
  BY DEF Job
<1>4. ASSUME NEW record \in AutonomyRecord PROVE [j EXCEPT !.autonomy = record] \in Job
  BY DEF Job
<1>. QED
  BY <1>1, <1>2, <1>3, <1>4

\* What MOD_B leaves fits the state of a process.
LEMMA ExecutedJobType ==
  ASSUME NEW j \in Job, NEW n \in Nat, NEW status \in RunStates
  PROVE  LET k == [j EXCEPT !.used = n, !.executed = status]
         IN  k \in Job /\ k.req = j.req /\ k.rid = j.rid
BY DEF Job

LEMMA TypeInvariant == Spec => []TypeInv
<1>1. Init => TypeInv
  <2>. SUFFICES ASSUME Init PROVE TypeInv
    OBVIOUS
  <2>1. autonomy \in AutonomyRecord
    BY InitialRecordType DEF Init
  <2>2. evidence \in [Runs -> Evidence] /\ manifest \in [Runs -> Evidence]
    BY DEF Init, Evidence, NoEvidence, SummaryStates
  <2>3. pc \in [Procs -> Steps] /\ job \in [Procs -> Job] /\ \A p \in Procs : pc[p] = "idle"
    BY NoJobType DEF Init, Steps
  <2>4. \A r \in Runs : evidence[r].summary = "NONE"
    BY DEF Init, NoEvidence
  <2>5. quota \in Quota /\ envelope \in [Runs -> Requests \cup {NoRequest}]
    BY DEF Init, Quota
  <2>6. /\ effects \in [Runs -> Nat] /\ launches \in 0 .. MaxLaunches
        /\ crashes \in 0 .. MaxCrashes
    BY GovernedAssumption DEF Init
  <2>7. TypeOK
    BY <2>1, <2>2, <2>3, <2>5, <2>6 DEF Init, TypeOK
  <2>. QED
    BY <2>3, <2>4, <2>7 DEF TypeInv, EnvelopeFirst, ResumeSteps
<1>2. TypeInv /\ [Next]_vars => TypeInv'
  <2>. SUFFICES ASSUME TypeInv, [Next]_vars
                PROVE  TypeInv'
    OBVIOUS
  <2>1. ASSUME NEW p \in Procs, Launch(p) PROVE TypeInv'
    <3>1. PICK r \in Requests, forced \in BOOLEAN :
             job' = [job EXCEPT ![p] =
                [NoJob EXCEPT !.req = r,
                              !.rid = IF forced \/ r \in Unroutable THEN launches + 1 ELSE r,
                              !.forced = forced,
                              !.governor = governor]]
      BY <2>1 DEF Launch
    <3>2. launches + 1 \in Runs /\ r \in Runs
      BY <2>1, GovernedAssumption DEF Launch, Runs, TypeInv, TypeOK
    <3>. DEFINE j == [NoJob EXCEPT !.req = r,
                              !.rid = IF forced \/ r \in Unroutable THEN launches + 1 ELSE r,
                              !.forced = forced,
                              !.governor = governor]
    <3>3. j \in Job /\ j.req \in Requests /\ j.rid \in Runs
      BY <3>2, NoJobType DEF Job, TypeInv, TypeOK
    <3>4. job' = [job EXCEPT ![p] = j]
      BY <3>1
    <3>. HIDE DEF j
    <3>5. job' \in [Procs -> Job]
      BY <3>3, <3>4 DEF TypeInv, TypeOK
    <3>6. /\ launches' \in 0 .. MaxLaunches
          /\ pc' = [pc EXCEPT ![p] = "governor"]
          /\ UNCHANGED << files, history, crashes >>
      BY <2>1, GovernedAssumption DEF Launch, Goto, TypeInv, TypeOK
    <3>. QED
      BY <3>3, <3>4, <3>5, <3>6 DEF TypeInv, TypeOK, EnvelopeFirst, Goto, At, Exit, files, procs, history, Steps, RunSteps, ResumeSteps, RecordSteps
  <2>2. ASSUME NEW p \in Procs, StartResume(p) PROVE TypeInv'
    <3>1. PICK r \in Runs :
             /\ Resumable(r)
             /\ approved' = approved \cup {r}
             /\ job' = [job EXCEPT ![p] =
                   [NoJob EXCEPT !.req = envelope[r], !.rid = r, !.path = "resume",
                                 !.governor = governor]]
      BY <2>2 DEF StartResume, Resumable
    <3>2. envelope[r] \in Requests
      BY <3>1 DEF TypeInv, EnvelopeFirst, Resumable
    <3>. DEFINE j == [NoJob EXCEPT !.req = envelope[r], !.rid = r, !.path = "resume",
                                 !.governor = governor]
    <3>3. j \in Job /\ j.req \in Requests /\ j.rid = r
      BY <3>2, NoJobType DEF Job, TypeInv, TypeOK
    <3>4. job' = [job EXCEPT ![p] = j]
      BY <3>1
    <3>. HIDE DEF j
    <3>5. job' \in [Procs -> Job]
      BY <3>3, <3>4 DEF TypeInv, TypeOK
    <3>. QED
      BY <2>2, <3>1, <3>2, <3>3, <3>4, <3>5, GovernedAssumption DEF StartResume, Resumable, TypeInv, TypeOK, EnvelopeFirst, Goto, At, Exit, files, procs, history, Steps, RunSteps, ResumeSteps, RecordSteps
  <2>3. ASSUME NEW p \in Procs, AcquireLock(p) PROVE TypeInv'
    <3>1. job' \in [Procs -> Job] /\ lockFile' \in BOOLEAN
          /\ \A x \in Procs : job'[x].req = job[x].req /\ job'[x].rid = job[x].rid
      <4>1. CASE MaxParallel > 1
        BY <2>3, <4>1 DEF AcquireLock, LockFree, TypeInv, TypeOK
      <4>2. CASE MaxParallel = 1
        <5>1. job' = [job EXCEPT ![p] = [job[p] EXCEPT !.locked = TRUE]] /\ lockFile' = TRUE
          BY <2>3, <4>2 DEF AcquireLock, LockFree
        <5>. DEFINE k == [job[p] EXCEPT !.locked = TRUE]
        <5>2. job' = [job EXCEPT ![p] = k]
          BY <5>1
        <5>3. job[p] \in Job /\ job \in [Procs -> Job]
          BY DEF TypeInv, TypeOK
        <5>4. k \in Job /\ k.req = job[p].req /\ k.rid = job[p].rid
          BY <5>3, LockedJobType
        <5>. HIDE DEF k
        <5>. QED
          BY <5>1, <5>2, <5>3, <5>4
      <4>. QED
        BY <2>3, <4>1, <4>2 DEF AcquireLock, LockFree
    <3>2. pc' \in [Procs -> Steps]
      BY <2>3 DEF AcquireLock, LockFree, TypeInv, TypeOK, Goto, Steps, RunSteps, ResumeSteps, RecordSteps
    <3>3. pc'[p] \in {"checks", "rChecks"} /\ (pc'[p] = "rChecks" => pc[p] = "rGovernor")
      BY <2>3 DEF AcquireLock, LockFree, TypeInv, TypeOK, Goto, At
    <3>. QED
      BY <2>3, <3>1, <3>2, <3>3 DEF AcquireLock, LockFree, TypeInv, TypeOK, EnvelopeFirst, Goto, At, Exit, files, procs, history, ResumeSteps
  <2>4. ASSUME NEW p \in Procs, LockBusy(p) PROVE TypeInv'
    <3>1. job' \in [Procs -> Job]
      BY <2>4, NoJobType DEF LockBusy, TypeInv, TypeOK, At, Exit, files, procs, history, Job
    <3>. QED
      BY <2>4, <3>1, NoJobType DEF LockBusy, TypeInv, TypeOK, EnvelopeFirst, Goto, At, Exit, files, procs, history, Steps, RunSteps, ResumeSteps, RecordSteps
  <2>5. ASSUME NEW p \in Procs, Block(p) PROVE TypeInv'
    <3>1. job' \in [Procs -> Job]
      BY <2>5, NoJobType DEF Block, TypeInv, TypeOK, At, Exit, files, procs, history, Job
    <3>. QED
      BY <2>5, <3>1, NoJobType DEF Block, TypeInv, TypeOK, EnvelopeFirst, Goto, At, Exit, files, procs, history, Steps, RunSteps, ResumeSteps, RecordSteps
  <2>6. ASSUME NEW p \in Procs, Admit(p) PROVE TypeInv'
    BY <2>6 DEF Admit, TypeInv, TypeOK, EnvelopeFirst, Goto, At, Exit, files, procs, history, Steps, RunSteps, ResumeSteps, RecordSteps
  <2>7. ASSUME NEW p \in Procs, RouteQuarantined(p) PROVE TypeInv'
    BY <2>7 DEF RouteQuarantined, TypeInv, TypeOK, EnvelopeFirst, Goto, At, Exit, files, procs, history, Steps, RunSteps, ResumeSteps, RecordSteps
  <2>8. ASSUME NEW p \in Procs, RouteUnknown(p) PROVE TypeInv'
    <3>1. job' \in [Procs -> Job]
      <4>. DEFINE j == [job[p] EXCEPT !.path = "denied"]
      <4>1. job' = [job EXCEPT ![p] = j]
        BY <2>8 DEF RouteUnknown
      <4>2. job \in [Procs -> Job] /\ job[p] \in Job
        BY DEF TypeInv, TypeOK
      <4>3. j \in Job
        BY <4>2, JobUpdates
      <4>. HIDE DEF j
      <4>. QED
        BY <4>1, <4>2, <4>3
    <3>. QED
      BY <2>8, <3>1 DEF RouteUnknown, WriteRequest, TypeInv, TypeOK, EnvelopeFirst, Goto, At, Exit, files, procs, history, Steps, RunSteps, ResumeSteps, RecordSteps
  <2>9. ASSUME NEW p \in Procs, Route(p) PROVE TypeInv'
    BY <2>9 DEF Route, TypeInv, TypeOK, EnvelopeFirst, Goto, At, Exit, files, procs, history, Steps, RunSteps, ResumeSteps, RecordSteps
  <2>10. ASSUME NEW p \in Procs, LoadMappings(p) PROVE TypeInv'
    <3>1. job' \in [Procs -> Job]
      BY <2>10 DEF LoadMappings, TypeInv, TypeOK, At, Exit, files, procs, history, Job
    <3>. QED
      BY <2>10, <3>1 DEF LoadMappings, TypeInv, TypeOK, EnvelopeFirst, Goto, At, Exit, files, procs, history, Steps, RunSteps, ResumeSteps, RecordSteps
  <2>11. ASSUME NEW p \in Procs, SaveMapping(p) PROVE TypeInv'
    <3>1. mappings' \in SUBSET Requests
      BY <2>11 DEF SaveMapping, SavedMappings, IdempotentHit, TypeInv, TypeOK, Job, At
    <3>2. pc' \in [Procs -> Steps] /\ pc'[p] \in {"release", "quotaLoad"}
      BY <2>11 DEF SaveMapping, SavedMappings, IdempotentHit, TypeInv, TypeOK, Goto, Steps, RunSteps, ResumeSteps, RecordSteps
    <3>. QED
      BY <2>11, <3>1, <3>2 DEF SaveMapping, SavedMappings, IdempotentHit, TypeInv, TypeOK, EnvelopeFirst, Goto, At, Exit, files, procs, history, ResumeSteps
  <2>12. ASSUME NEW p \in Procs, LoadQuota(p) PROVE TypeInv'
    <3>. DEFINE g == GateTriggered(autonomy.mode, job[p].req \in MayWrite)
                j == [job[p] EXCEPT !.quota = quota, !.autonomy = autonomy, !.gate = g]
    <3>1. g \in BOOLEAN
      BY DEF GateTriggered
    <3>2. job' = [job EXCEPT ![p] = j]
      BY <2>12 DEF LoadQuota, TypeInv, TypeOK
    <3>. HIDE DEF g
    <3>3. j \in Job /\ j.req = job[p].req /\ j.rid = job[p].rid
      <4>1. job[p] \in Job /\ quota \in Quota /\ autonomy \in AutonomyRecord
        BY DEF TypeInv, TypeOK
      <4>. QED
        BY <3>1, <4>1 DEF Job
    <3>. HIDE DEF j
    <3>4. job' \in [Procs -> Job]
      BY <3>2, <3>3 DEF TypeInv, TypeOK
    <3>. QED
      BY <2>12, <3>2, <3>3, <3>4 DEF LoadQuota, TypeInv, TypeOK, EnvelopeFirst, Goto, At, Exit, files, procs, history, Steps, RunSteps, ResumeSteps, RecordSteps
  <2>13. ASSUME NEW p \in Procs, Deny(p) PROVE TypeInv'
    <3>1. job' \in [Procs -> Job]
      BY <2>13 DEF Deny, WriteRequest, TypeInv, TypeOK, At, Exit, files, procs, history, Job
    <3>. QED
      BY <2>13, <3>1 DEF Deny, WriteRequest, TypeInv, TypeOK, EnvelopeFirst, Goto, At, Exit, files, procs, history, Steps, RunSteps, ResumeSteps, RecordSteps
  <2>14. ASSUME NEW p \in Procs, Charge(p) PROVE TypeInv'
    BY <2>14 DEF Charge, TypeInv, TypeOK, EnvelopeFirst, Goto, At, Exit, files, procs, history, Steps, RunSteps, ResumeSteps, RecordSteps, Job, Quota
  <2>15. ASSUME NEW p \in Procs, NodeRaises(p) PROVE TypeInv'
    BY <2>15 DEF NodeRaises, WriteRequest, TypeInv, TypeOK, EnvelopeFirst, Goto, At, Exit, files, procs, history, Steps, RunSteps, ResumeSteps, RecordSteps
  <2>16. ASSUME NEW p \in Procs, RunModA(p) PROVE TypeInv'
    <3>1. job' \in [Procs -> Job]
      BY <2>16, GovernedAssumption DEF RunModA, WriteRequest, TypeInv, TypeOK, At, Exit, files, procs, history, Job
    <3>. QED
      BY <2>16, <3>1, GovernedAssumption DEF RunModA, WriteRequest, TypeInv, TypeOK, EnvelopeFirst, Goto, At, Exit, files, procs, history, Steps, RunSteps, ResumeSteps, RecordSteps
  <2>17. ASSUME NEW p \in Procs, Suspend(p) PROVE TypeInv'
    <3>1. job' \in [Procs -> Job]
      <4>. DEFINE j == [job[p] EXCEPT !.executed = "SUSPENDED"]
      <4>1. job' = [job EXCEPT ![p] = j]
        BY <2>17 DEF Suspend
      <4>2. job \in [Procs -> Job] /\ job[p] \in Job
        BY DEF TypeInv, TypeOK
      <4>3. j \in Job
        BY <4>2, JobUpdates DEF RunStates
      <4>. HIDE DEF j
      <4>. QED
        BY <4>1, <4>2, <4>3
    <3>. QED
      BY <2>17, <3>1 DEF Suspend, TypeInv, TypeOK, EnvelopeFirst, Goto, At, Exit, files, procs, history, Steps, RunSteps, ResumeSteps, RecordSteps, RunStates
  <2>18. ASSUME NEW p \in Procs, Allow(p) PROVE TypeInv'
    BY <2>18 DEF Allow, TypeInv, TypeOK, EnvelopeFirst, Goto, At, Exit, files, procs, history, Steps, RunSteps, ResumeSteps, RecordSteps
  <2>19. ASSUME NEW p \in Procs, RefuseModB(p) PROVE TypeInv'
    <3>1. job' \in [Procs -> Job]
      BY <2>19, GovernedAssumption DEF RefuseModB, TypeInv, TypeOK, At, Exit, files, procs, history, Job
    <3>. QED
      BY <2>19, <3>1, GovernedAssumption DEF RefuseModB, TypeInv, TypeOK, EnvelopeFirst, Goto, At, Exit, files, procs, history, Steps, RunSteps, ResumeSteps, RecordSteps
  <2>20. ASSUME NEW p \in Procs, RunModB(p) PROVE TypeInv'
    <3>0. job[p] \in Job /\ job \in [Procs -> Job]
      BY DEF TypeInv, TypeOK
    <3>1. PICK status \in {"COMPLETED", "FAILED"}, n \in Nat :
             job' = [job EXCEPT ![p] = [@ EXCEPT !.used = n, !.executed = status]]
      <4>1. job[p].used + ModBTokens \in Nat
        BY <3>0, GovernedAssumption DEF Job
      <4>. QED
        BY <2>20, <4>1 DEF RunModB
    <3>. DEFINE j == [job[p] EXCEPT !.used = n, !.executed = status]
    <3>2. job' = [job EXCEPT ![p] = j]
      BY <3>1
    <3>3. j \in Job /\ j.req = job[p].req /\ j.rid = job[p].rid
      <4>1. ASSUME NEW m \in Job
            PROVE  LET k == [m EXCEPT !.used = n, !.executed = status]
                   IN  k \in Job /\ k.req = m.req /\ k.rid = m.rid
        BY status \in RunStates, ExecutedJobType DEF RunStates
      <4>. QED
        BY <3>0, <4>1
    <3>. HIDE DEF j
    <3>4. job' \in [Procs -> Job]
      BY <3>2, <3>3 DEF TypeInv, TypeOK
    <3>5. effects' \in [Runs -> Nat]
      BY <2>20, PerformType DEF RunModB, TypeInv, TypeOK, At
    <3>. QED
      BY <2>20, <3>2, <3>3, <3>4, <3>5, GovernedAssumption DEF RunModB, TypeInv, TypeOK, EnvelopeFirst, Goto, At, Exit, files, procs, history, Steps, RunSteps, ResumeSteps, RecordSteps
  <2>21. ASSUME NEW p \in Procs, Settle(p) PROVE TypeInv'
    <3>. DEFINE verdict == Verdict(job[p].executed)
    <3>1. verdict \in RunStates
      BY DEF Verdict, TypeInv, TypeOK, Job, RunStates
    <3>2. job' = [job EXCEPT ![p].state = verdict]
      BY <2>21 DEF Settle, SettledQuota, AfterSettle
    <3>3. pc' \in [Procs -> Steps] /\ pc'[p] \in {"summary", "autonomy"}
      BY <2>21 DEF Settle, SettledQuota, AfterSettle, TypeInv, TypeOK, Goto, Steps, RunSteps, ResumeSteps, RecordSteps
    <3>4. quota' \in Quota
      BY <2>21 DEF Settle, SettledQuota, AfterSettle, TypeInv, TypeOK, Job, Quota
    <3>. HIDE DEF verdict
    <3>5. job' \in [Procs -> Job]
      <4>. DEFINE j == [job[p] EXCEPT !.state = verdict]
      <4>1. job' = [job EXCEPT ![p] = j]
        BY <3>2
      <4>2. job \in [Procs -> Job] /\ job[p] \in Job
        BY DEF TypeInv, TypeOK
      <4>3. j \in Job
        BY <3>1, <4>2, JobUpdates
      <4>. HIDE DEF j
      <4>. QED
        BY <4>1, <4>2, <4>3
    <3>. QED
      BY <2>21, <3>2, <3>3, <3>4, <3>5 DEF Settle, SettledQuota, AfterSettle, TypeInv, TypeOK, EnvelopeFirst, Goto, At, Exit, files, procs, history, ResumeSteps
  <2>22. ASSUME NEW p \in Procs, RecordOutcome(p) PROVE TypeInv'
    BY <2>22, UpdateRecordType DEF RecordOutcome, Recorded, OutcomeOf, TypeInv, TypeOK, EnvelopeFirst, Goto, At, Exit, files, procs, history, Steps, RunSteps, ResumeSteps, RecordSteps, Outcomes, Job
  <2>23. ASSUME NEW p \in Procs, WriteSummary(p) PROVE TypeInv'
    <3>1. evidence' = [evidence EXCEPT ![job[p].rid] = [evidence[job[p].rid] EXCEPT !.summary = job[p].state]]
      BY <2>23 DEF WriteSummary
    <3>2. [evidence[job[p].rid] EXCEPT !.summary = job[p].state] \in Evidence
      <4>1. evidence[job[p].rid] \in Evidence /\ job[p].state \in SummaryStates
        BY <2>23 DEF WriteSummary, At, TypeInv, TypeOK, Job, SummaryStates
      <4>. QED
        BY <4>1 DEF Evidence
    <3>3. evidence' \in [Runs -> Evidence]
      BY <3>1, <3>2 DEF TypeInv, TypeOK
    <3>. QED
      BY <2>23, <3>1, <3>3 DEF WriteSummary, TypeInv, TypeOK, EnvelopeFirst, Goto, At, Exit, files, procs, history, Steps, RunSteps, ResumeSteps, RecordSteps, Evidence
  <2>24. ASSUME NEW p \in Procs, WriteCloseout(p) PROVE TypeInv'
    <3>1. evidence' = [evidence EXCEPT ![job[p].rid] = [evidence[job[p].rid] EXCEPT !.closeout = job[p].state]]
      BY <2>24 DEF WriteCloseout, AfterCloseout
    <3>2. [evidence[job[p].rid] EXCEPT !.closeout = job[p].state] \in Evidence
      <4>1. evidence[job[p].rid] \in Evidence /\ job[p].state \in SummaryStates
        BY <2>24 DEF WriteCloseout, AfterCloseout, At, TypeInv, TypeOK, Job, SummaryStates
      <4>. QED
        BY <4>1 DEF Evidence
    <3>3. evidence' \in [Runs -> Evidence]
      BY <3>1, <3>2 DEF TypeInv, TypeOK
    <3>. QED
      BY <2>24, <3>1, <3>3 DEF WriteCloseout, AfterCloseout, TypeInv, TypeOK, EnvelopeFirst, Goto, At, Exit, files, procs, history, Steps, RunSteps, ResumeSteps, RecordSteps, Evidence
  <2>25. ASSUME NEW p \in Procs, WriteSuspend(p) PROVE TypeInv'
    <3>1. evidence' = [evidence EXCEPT ![job[p].rid] = [evidence[job[p].rid] EXCEPT !.suspend = TRUE]]
      BY <2>25 DEF WriteSuspend
    <3>2. [evidence[job[p].rid] EXCEPT !.suspend = TRUE] \in Evidence
      <4>1. evidence[job[p].rid] \in Evidence /\ job[p].state \in SummaryStates
        BY <2>25 DEF WriteSuspend, At, TypeInv, TypeOK, Job, SummaryStates
      <4>. QED
        BY <4>1 DEF Evidence
    <3>3. evidence' \in [Runs -> Evidence]
      BY <3>1, <3>2 DEF TypeInv, TypeOK
    <3>. QED
      BY <2>25, <3>1, <3>3 DEF WriteSuspend, TypeInv, TypeOK, EnvelopeFirst, Goto, At, Exit, files, procs, history, Steps, RunSteps, ResumeSteps, RecordSteps, Evidence
  <2>26. ASSUME NEW p \in Procs, WriteManifest(p) PROVE TypeInv'
    BY <2>26 DEF WriteManifest, TypeInv, TypeOK, EnvelopeFirst, Goto, At, Exit, files, procs, history, Steps, RunSteps, ResumeSteps, RecordSteps
  <2>27. ASSUME NEW p \in Procs, Release(p) PROVE TypeInv'
    <3>1. job' \in [Procs -> Job]
      BY <2>27, NoJobType DEF Release, LockKept, TypeInv, TypeOK, At, Exit, files, procs, history, Job
    <3>. QED
      BY <2>27, <3>1, NoJobType DEF Release, LockKept, TypeInv, TypeOK, EnvelopeFirst, Goto, At, Exit, files, procs, history, Steps, RunSteps, ResumeSteps, RecordSteps
  <2>28. ASSUME NEW p \in Procs, ResumeQuarantined(p) PROVE TypeInv'
    BY <2>28 DEF ResumeQuarantined, TypeInv, TypeOK, EnvelopeFirst, Goto, At, Exit, files, procs, history, Steps, RunSteps, ResumeSteps, RecordSteps
  <2>29. ASSUME NEW p \in Procs, ResumeAdmit(p) PROVE TypeInv'
    BY <2>29 DEF ResumeAdmit, TypeInv, TypeOK, EnvelopeFirst, Goto, At, Exit, files, procs, history, Steps, RunSteps, ResumeSteps, RecordSteps
  <2>30. ASSUME NEW p \in Procs, ResumeModB(p) PROVE TypeInv'
    <3>1. job' \in [Procs -> Job]
      <4>. DEFINE j == [job[p] EXCEPT !.state = "COMPLETED"]
      <4>1. job' = [job EXCEPT ![p] = j]
        BY <2>30 DEF ResumeModB
      <4>2. job \in [Procs -> Job] /\ job[p] \in Job
        BY DEF TypeInv, TypeOK
      <4>3. j \in Job
        BY <4>2, JobUpdates DEF RunStates
      <4>. HIDE DEF j
      <4>. QED
        BY <4>1, <4>2, <4>3
    <3>. QED
      BY <2>30, <3>1, GovernedAssumption DEF ResumeModB, TypeInv, TypeOK, EnvelopeFirst, Goto, At, Exit, files, procs, history, Steps, RunSteps, ResumeSteps, RecordSteps, Perform, RunStates
  <2>31. ASSUME NEW p \in Procs, ResumeFails(p) PROVE TypeInv'
    BY <2>31, GovernedAssumption DEF ResumeFails, TypeInv, TypeOK, EnvelopeFirst, Goto, At, Exit, files, procs, history, Steps, RunSteps, ResumeSteps, RecordSteps
  <2>32. ASSUME NEW p \in Procs, ResumeLoadAutonomy(p) PROVE TypeInv'
    <3>1. job' \in [Procs -> Job]
      <4>. DEFINE j == [job[p] EXCEPT !.autonomy = autonomy]
      <4>1. job' = [job EXCEPT ![p] = j]
        BY <2>32 DEF ResumeLoadAutonomy
      <4>2. job \in [Procs -> Job] /\ job[p] \in Job /\ autonomy \in AutonomyRecord
        BY DEF TypeInv, TypeOK
      <4>3. j \in Job
        BY <4>2, JobUpdates
      <4>. HIDE DEF j
      <4>. QED
        BY <4>1, <4>2, <4>3
    <3>. QED
      BY <2>32, <3>1 DEF ResumeLoadAutonomy, TypeInv, TypeOK, EnvelopeFirst, Goto, At, Exit, files, procs, history, Steps, RunSteps, ResumeSteps, RecordSteps
  <2>33. ASSUME NEW p \in Procs, Crash(p) PROVE TypeInv'
    <3>1. job' \in [Procs -> Job] /\ torn' \in SUBSET Runs
      BY <2>33, NoJobType DEF Crash, TypeInv, TypeOK, At, Exit
    <3>. QED
      BY <2>33, <3>1, GovernedAssumption DEF Crash, TypeInv, TypeOK, EnvelopeFirst, Goto, At, Exit, files, procs, history, Steps, RunSteps, ResumeSteps, RecordSteps
  <2>34. CASE ClearLock
    BY <2>34 DEF ClearLock, RunnersIdle, TypeInv, TypeOK, EnvelopeFirst, Goto, At, Exit, files, procs, history
  <2>35. CASE Reconfigure
    BY <2>35 DEF Reconfigure, TypeInv, TypeOK, EnvelopeFirst, Goto, At, Exit, files, procs, history
  <2>36. CASE UNCHANGED vars
    BY <2>36 DEF vars, TypeInv, TypeOK, EnvelopeFirst, Goto, At, Exit, files, procs, history
  <2>37. ASSUME NEW p \in Procs, RouteInvalid(p) PROVE TypeInv'
    BY <2>37 DEF RouteInvalid, TypeInv, TypeOK, EnvelopeFirst, Goto, At, Exit, files, procs, history, Steps, RunSteps, ResumeSteps, RecordSteps
  <2>. QED
    BY <2>1, <2>2, <2>3, <2>4, <2>5, <2>6, <2>7, <2>8, <2>9, <2>10, <2>11, <2>12, <2>13, <2>14, <2>15, <2>16, <2>17, <2>18, <2>19, <2>20, <2>21, <2>22, <2>23, <2>24, <2>25, <2>26, <2>27, <2>28, <2>29, <2>30, <2>31, <2>32, <2>33, <2>34, <2>35, <2>36, <2>37
       DEF Next, Run, Resume, Finished
<1>. QED
  BY <1>1, <1>2, PTL DEF Spec

\* Every step of every process, the operator and a kill included, keeps the types
\* of the shared files and of the memory of the processes, and a resume always
\* finds a stored envelope (evidence.write_request precedes every summary).
THEOREM TypeCorrect == Spec => [](TypeOK /\ EnvelopeFirst)
BY TypeInvariant, PTL DEF TypeInv

-------------------------------------------------------------------------------
\* MUTUAL EXCLUSION
Outside == {"idle", "governor", "rGovernor"}

\* A step of a process that is inside already, or that ends outside, and leaves
\* the lock file alone.
LEMMA StepKeepsExclusion ==
  ASSUME TypeInv, OneRunAtATime, NEW p \in Procs, NEW s, Goto(p, s),
         Active(p) \/ s \in Outside, UNCHANGED lockFile
  PROVE  OneRunAtATime'
<1>1. \A q \in Procs : Active(q)' => Active(q)
  BY DEF TypeInv, TypeOK, Goto, Active, Outside
<1>. QED
  BY <1>1 DEF OneRunAtATime

LEMMA InsideStep ==
  ASSUME TypeInv, NEW p \in Procs
  PROVE  Run(p) \/ Resume(p) =>
            \/ AcquireLock(p) \/ LockBusy(p) \/ Release(p)
            \/ Active(p) /\ UNCHANGED lockFile /\ \E s : Goto(p, s)
<1>1. Block(p) => Active(p) /\ UNCHANGED lockFile /\ \E s : Goto(p, s)
  BY DEF Block, Active, At, Goto, Exit, files
<1>2. Admit(p) => Active(p) /\ UNCHANGED lockFile /\ \E s : Goto(p, s)
  BY DEF Admit, Active, At, Goto, Exit, files
<1>3. RouteQuarantined(p) => Active(p) /\ UNCHANGED lockFile /\ \E s : Goto(p, s)
  BY DEF RouteQuarantined, Active, At, Goto, Exit, files
<1>4. RouteUnknown(p) => Active(p) /\ UNCHANGED lockFile /\ \E s : Goto(p, s)
  BY DEF RouteUnknown, WriteRequest, Active, At, Goto, Exit, files
<1>5. Route(p) => Active(p) /\ UNCHANGED lockFile /\ \E s : Goto(p, s)
  BY DEF Route, Active, At, Goto, Exit, files
<1>6. LoadMappings(p) => Active(p) /\ UNCHANGED lockFile /\ \E s : Goto(p, s)
  BY DEF LoadMappings, Active, At, Goto, Exit, files
<1>7. SaveMapping(p) => Active(p) /\ UNCHANGED lockFile /\ \E s : Goto(p, s)
  BY DEF SaveMapping, SavedMappings, IdempotentHit, Active, At, Goto, Exit, files
<1>8. LoadQuota(p) => Active(p) /\ UNCHANGED lockFile /\ \E s : Goto(p, s)
  BY DEF LoadQuota, Active, At, Goto, Exit, files
<1>9. Deny(p) => Active(p) /\ UNCHANGED lockFile /\ \E s : Goto(p, s)
  BY DEF Deny, WriteRequest, Active, At, Goto, Exit, files
<1>10. Charge(p) => Active(p) /\ UNCHANGED lockFile /\ \E s : Goto(p, s)
  BY DEF Charge, Active, At, Goto, Exit, files
<1>11. NodeRaises(p) => Active(p) /\ UNCHANGED lockFile /\ \E s : Goto(p, s)
  BY DEF NodeRaises, WriteRequest, Active, At, Goto, Exit, files
<1>12. RunModA(p) => Active(p) /\ UNCHANGED lockFile /\ \E s : Goto(p, s)
  BY DEF RunModA, WriteRequest, Active, At, Goto, Exit, files
<1>13. Suspend(p) => Active(p) /\ UNCHANGED lockFile /\ \E s : Goto(p, s)
  BY DEF Suspend, Active, At, Goto, Exit, files
<1>14. Allow(p) => Active(p) /\ UNCHANGED lockFile /\ \E s : Goto(p, s)
  BY DEF Allow, Active, At, Goto, Exit, files
<1>15. RefuseModB(p) => Active(p) /\ UNCHANGED lockFile /\ \E s : Goto(p, s)
  BY DEF RefuseModB, Active, At, Goto, Exit, files
<1>16. RunModB(p) => Active(p) /\ UNCHANGED lockFile /\ \E s : Goto(p, s)
  BY DEF RunModB, Active, At, Goto, Exit, files
<1>17. Settle(p) => Active(p) /\ UNCHANGED lockFile /\ \E s : Goto(p, s)
  BY DEF Settle, SettledQuota, AfterSettle, Active, At, Goto, Exit, files
<1>18. RecordOutcome(p) => Active(p) /\ UNCHANGED lockFile /\ \E s : Goto(p, s)
  BY DEF RecordOutcome, Recorded, OutcomeOf, Active, At, Goto, Exit, files
<1>19. WriteSummary(p) => Active(p) /\ UNCHANGED lockFile /\ \E s : Goto(p, s)
  BY DEF WriteSummary, Active, At, Goto, Exit, files
<1>20. WriteCloseout(p) => Active(p) /\ UNCHANGED lockFile /\ \E s : Goto(p, s)
  BY DEF WriteCloseout, AfterCloseout, Active, At, Goto, Exit, files
<1>21. WriteSuspend(p) => Active(p) /\ UNCHANGED lockFile /\ \E s : Goto(p, s)
  BY DEF WriteSuspend, Active, At, Goto, Exit, files
<1>22. WriteManifest(p) => Active(p) /\ UNCHANGED lockFile /\ \E s : Goto(p, s)
  BY DEF WriteManifest, Active, At, Goto, Exit, files
<1>23. ResumeQuarantined(p) => Active(p) /\ UNCHANGED lockFile /\ \E s : Goto(p, s)
  BY DEF ResumeQuarantined, Active, At, Goto, Exit, files
<1>24. ResumeAdmit(p) => Active(p) /\ UNCHANGED lockFile /\ \E s : Goto(p, s)
  BY DEF ResumeAdmit, Active, At, Goto, Exit, files
<1>25. ResumeModB(p) => Active(p) /\ UNCHANGED lockFile /\ \E s : Goto(p, s)
  BY DEF ResumeModB, Active, At, Goto, Exit, files
<1>26. ResumeFails(p) => Active(p) /\ UNCHANGED lockFile /\ \E s : Goto(p, s)
  BY DEF ResumeFails, Active, At, Goto, Exit, files
<1>27. ResumeLoadAutonomy(p) => Active(p) /\ UNCHANGED lockFile /\ \E s : Goto(p, s)
  BY DEF ResumeLoadAutonomy, Active, At, Goto, Exit, files
<1>28. RouteInvalid(p) => Active(p) /\ UNCHANGED lockFile /\ \E s : Goto(p, s)
  BY DEF RouteInvalid, Active, At, Goto, Exit, files
<1>. QED
  BY <1>1, <1>2, <1>3, <1>4, <1>5, <1>6, <1>7, <1>8, <1>9, <1>10, <1>11, <1>12, <1>13, <1>14, <1>15, <1>16, <1>17, <1>18, <1>19, <1>20, <1>21, <1>22, <1>23, <1>24, <1>25, <1>26, <1>27, <1>28 DEF Run, Resume

\* With max_parallel_runs = 1 the lock file excludes every second run or resume,
\* whatever is killed and whenever the operator cleans up.
THEOREM MutualExclusion == Spec => []OneRunAtATime
<1>1. Init => OneRunAtATime
  BY DEF Init, OneRunAtATime, Active
<1>2. TypeInv /\ OneRunAtATime /\ [Next]_vars => OneRunAtATime'
  <2>. SUFFICES ASSUME TypeInv, OneRunAtATime, [Next]_vars
                PROVE  OneRunAtATime'
    OBVIOUS
  <2>1. ASSUME NEW p \in Procs, Launch(p) \/ StartResume(p) PROVE OneRunAtATime'
    <3>1. UNCHANGED lockFile /\ (Goto(p, "governor") \/ Goto(p, "rGovernor"))
      BY <2>1 DEF Launch, StartResume, Resumable, files
    <3>. QED
      BY <3>1, StepKeepsExclusion DEF Outside
  <2>2. ASSUME NEW p \in Procs, AcquireLock(p) PROVE OneRunAtATime'
    <3>1. CASE MaxParallel = 1
      <4>1. ~ lockFile /\ lockFile'
        BY <2>2, <3>1 DEF AcquireLock, LockFree
      <4>2. \A q \in Procs : ~ Active(q)
        BY <3>1, <4>1 DEF OneRunAtATime
      <4>3. \A q \in Procs \ {p} : ~ Active(q)'
        BY <2>2, <4>2 DEF AcquireLock, LockFree, Goto, Active, TypeInv, TypeOK
      <4>. QED
        BY <4>1, <4>3 DEF OneRunAtATime
    <3>2. CASE MaxParallel # 1
      BY <3>2 DEF OneRunAtATime
    <3>. QED
      BY <3>1, <3>2
  <2>3. ASSUME NEW p \in Procs, LockBusy(p) \/ Crash(p) PROVE OneRunAtATime'
    <3>1. UNCHANGED lockFile /\ Goto(p, "idle")
      BY <2>3 DEF LockBusy, Crash, Exit, Goto, files
    <3>. QED
      BY <3>1, StepKeepsExclusion DEF Outside
  <2>4. ASSUME NEW p \in Procs, Release(p) PROVE OneRunAtATime'
    <3>1. MaxParallel = 1 => \A q \in Procs : ~ Active(q)'
      BY <2>4 DEF Release, LockKept, Exit, At, Active, OneRunAtATime, TypeInv, TypeOK
    <3>. QED
      BY <3>1 DEF OneRunAtATime
  <2>5. ASSUME NEW p \in Procs, Run(p) \/ Resume(p) PROVE OneRunAtATime'
    <3>1. CASE Active(p) /\ UNCHANGED lockFile /\ \E s : Goto(p, s)
      BY <3>1, StepKeepsExclusion
    <3>. QED
      BY <2>2, <2>3, <2>4, <2>5, <3>1, InsideStep
  <2>6. CASE ClearLock
    BY <2>6 DEF ClearLock, RunnersIdle, At, procs, OneRunAtATime, Active
  <2>7. CASE Reconfigure \/ Finished \/ UNCHANGED vars
    BY <2>7 DEF Reconfigure, Finished, vars, files, procs, OneRunAtATime, Active
  <2>. QED
    BY <2>1, <2>3, <2>5, <2>6, <2>7 DEF Next
<1>. QED
  BY <1>1, <1>2, TypeInvariant, PTL DEF Spec

-------------------------------------------------------------------------------
\* SIDE EFFECTS
PastChecks == {"route", "idemLoad", "idemSave", "quotaLoad", "charge", "modA", "approval", "modB"}
PastRoute == PastChecks \ {"route"}
PastGate == {"charge", "modA", "approval", "modB"}

\* What a process has established when it reaches a step: it is not quarantined
\* or denied, it has the gate its autonomy record gives, it need not wait, or a
\* human has approved the run it resumes.
Cleared(p) ==
    /\ pc[p] \in PastChecks => job[p].req \notin StrictDeny \cup job[p].governor.intents
    /\ pc[p] \in PastRoute => job[p].req \notin job[p].governor.workflows
    /\ pc[p] \in PastGate =>
          job[p].gate = GateTriggered(job[p].autonomy.mode, job[p].req \in MayWrite)
    /\ pc[p] = "modB" => ~ MustWait(p)
    /\ pc[p] \in ResumeSteps => job[p].rid \in approved
    /\ pc[p] = "rModB" => job[p].req \notin job[p].governor.intents \cup job[p].governor.workflows

EffectInv == \A p \in Procs : Cleared(p)

\* A side effect is governed: every step keeps what it has established.
LEMMA EffectStepInv == TypeInv /\ EffectInv /\ [Next]_vars => EffectInv'
<1>. SUFFICES ASSUME TypeInv, EffectInv, [Next]_vars
              PROVE  EffectInv'
  OBVIOUS
<1>1. ASSUME NEW p \in Procs, Launch(p) PROVE EffectInv'
  <2>1. \A q \in Procs \ {p} : Cleared(q)'
    BY <1>1 DEF Launch, Goto, Exit, files, procs, history, TypeInv, TypeOK, EffectInv, Cleared, MustWait
  <2>2. Cleared(p)'
    BY <1>1 DEF Launch, Goto, Exit, At, files, procs, history, TypeInv, TypeOK, EffectInv, Cleared, MustWait, PastChecks, PastRoute, PastGate, ResumeSteps
  <2>. QED
    BY <2>1, <2>2 DEF EffectInv
<1>2. ASSUME NEW p \in Procs, StartResume(p) PROVE EffectInv'
  <2>1. \A q \in Procs \ {p} : Cleared(q)'
    BY <1>2 DEF StartResume, Resumable, Goto, Exit, files, procs, history, TypeInv, TypeOK, EffectInv, Cleared, MustWait
  <2>2. Cleared(p)'
    BY <1>2 DEF StartResume, Resumable, Goto, Exit, At, files, procs, history, TypeInv, TypeOK, EffectInv, Cleared, MustWait, PastChecks, PastRoute, PastGate, ResumeSteps
  <2>. QED
    BY <2>1, <2>2 DEF EffectInv
<1>3. ASSUME NEW p \in Procs, AcquireLock(p) PROVE EffectInv'
  <2>1. \A q \in Procs \ {p} : Cleared(q)'
    BY <1>3 DEF AcquireLock, LockFree, Goto, Exit, files, procs, history, TypeInv, TypeOK, EffectInv, Cleared, MustWait
  <2>2. /\ pc'[p] \in {"checks", "rChecks"}
        /\ pc'[p] = "rChecks" => pc[p] = "rGovernor"
        /\ job'[p].rid = job[p].rid
    <3>1. pc'[p] = IF At(p, "governor") THEN "checks" ELSE "rChecks"
      BY <1>3 DEF AcquireLock, LockFree, Goto, TypeInv, TypeOK
    <3>2. job' = job \/ job' = [job EXCEPT ![p] = [job[p] EXCEPT !.locked = TRUE]]
      BY <1>3 DEF AcquireLock, LockFree
    <3>3. job'[p].rid = job[p].rid
      BY <3>2 DEF TypeInv, TypeOK, Job
    <3>. QED
      BY <1>3, <3>1, <3>3 DEF AcquireLock, LockFree, At
  <2>3. Cleared(p)'
    <3>1. job[p].rid \in approved' \/ pc'[p] # "rChecks"
      BY <1>3, <2>2 DEF AcquireLock, LockFree, history, EffectInv, Cleared, ResumeSteps
    <3>. QED
      BY <2>2, <3>1 DEF Cleared, PastChecks, PastRoute, PastGate, ResumeSteps
  <2>. QED
    BY <2>1, <2>3 DEF EffectInv
<1>4. ASSUME NEW p \in Procs, LockBusy(p) PROVE EffectInv'
  <2>1. \A q \in Procs \ {p} : Cleared(q)'
    BY <1>4 DEF LockBusy, Goto, Exit, files, procs, history, TypeInv, TypeOK, EffectInv, Cleared, MustWait
  <2>2. Cleared(p)'
    BY <1>4 DEF LockBusy, Goto, Exit, At, files, procs, history, TypeInv, TypeOK, EffectInv, Cleared, MustWait, PastChecks, PastRoute, PastGate, ResumeSteps
  <2>. QED
    BY <2>1, <2>2 DEF EffectInv
<1>5. ASSUME NEW p \in Procs, Block(p) PROVE EffectInv'
  <2>1. \A q \in Procs \ {p} : Cleared(q)'
    BY <1>5 DEF Block, Goto, Exit, files, procs, history, TypeInv, TypeOK, EffectInv, Cleared, MustWait
  <2>2. Cleared(p)'
    BY <1>5 DEF Block, Goto, Exit, At, files, procs, history, TypeInv, TypeOK, EffectInv, Cleared, MustWait, PastChecks, PastRoute, PastGate, ResumeSteps
  <2>. QED
    BY <2>1, <2>2 DEF EffectInv
<1>6. ASSUME NEW p \in Procs, Admit(p) PROVE EffectInv'
  <2>1. \A q \in Procs \ {p} : Cleared(q)'
    BY <1>6 DEF Admit, Goto, Exit, files, procs, history, TypeInv, TypeOK, EffectInv, Cleared, MustWait
  <2>2. Cleared(p)'
    BY <1>6 DEF Admit, Goto, Exit, At, files, procs, history, TypeInv, TypeOK, EffectInv, Cleared, MustWait, PastChecks, PastRoute, PastGate, ResumeSteps
  <2>. QED
    BY <2>1, <2>2 DEF EffectInv
<1>7. ASSUME NEW p \in Procs, RouteQuarantined(p) PROVE EffectInv'
  <2>1. \A q \in Procs \ {p} : Cleared(q)'
    BY <1>7 DEF RouteQuarantined, Goto, Exit, files, procs, history, TypeInv, TypeOK, EffectInv, Cleared, MustWait
  <2>2. Cleared(p)'
    BY <1>7 DEF RouteQuarantined, Goto, Exit, At, files, procs, history, TypeInv, TypeOK, EffectInv, Cleared, MustWait, PastChecks, PastRoute, PastGate, ResumeSteps
  <2>. QED
    BY <2>1, <2>2 DEF EffectInv
<1>8. ASSUME NEW p \in Procs, RouteUnknown(p) PROVE EffectInv'
  <2>1. \A q \in Procs \ {p} : Cleared(q)'
    BY <1>8 DEF RouteUnknown, WriteRequest, Goto, Exit, files, procs, history, TypeInv, TypeOK, EffectInv, Cleared, MustWait
  <2>2. Cleared(p)'
    BY <1>8 DEF RouteUnknown, WriteRequest, Goto, Exit, At, files, procs, history, TypeInv, TypeOK, EffectInv, Cleared, MustWait, PastChecks, PastRoute, PastGate, ResumeSteps
  <2>. QED
    BY <2>1, <2>2 DEF EffectInv
<1>9. ASSUME NEW p \in Procs, Route(p) PROVE EffectInv'
  <2>1. \A q \in Procs \ {p} : Cleared(q)'
    BY <1>9 DEF Route, Goto, Exit, files, procs, history, TypeInv, TypeOK, EffectInv, Cleared, MustWait
  <2>2. Cleared(p)'
    BY <1>9 DEF Route, Goto, Exit, At, files, procs, history, TypeInv, TypeOK, EffectInv, Cleared, MustWait, PastChecks, PastRoute, PastGate, ResumeSteps
  <2>. QED
    BY <2>1, <2>2 DEF EffectInv
<1>10. ASSUME NEW p \in Procs, LoadMappings(p) PROVE EffectInv'
  <2>1. \A q \in Procs \ {p} : Cleared(q)'
    BY <1>10 DEF LoadMappings, Goto, Exit, files, procs, history, TypeInv, TypeOK, EffectInv, Cleared, MustWait
  <2>2. Cleared(p)'
    BY <1>10 DEF LoadMappings, Goto, Exit, At, files, procs, history, TypeInv, TypeOK, EffectInv, Cleared, MustWait, PastChecks, PastRoute, PastGate, ResumeSteps
  <2>. QED
    BY <2>1, <2>2 DEF EffectInv
<1>11. ASSUME NEW p \in Procs, SaveMapping(p) PROVE EffectInv'
  <2>1. \A q \in Procs \ {p} : Cleared(q)'
    BY <1>11 DEF SaveMapping, SavedMappings, IdempotentHit, Goto, Exit, files, procs, history, TypeInv, TypeOK, EffectInv, Cleared, MustWait
  <2>2. Cleared(p)'
    BY <1>11 DEF SaveMapping, SavedMappings, IdempotentHit, Goto, Exit, At, files, procs, history, TypeInv, TypeOK, EffectInv, Cleared, MustWait, PastChecks, PastRoute, PastGate, ResumeSteps
  <2>. QED
    BY <2>1, <2>2 DEF EffectInv
<1>12. ASSUME NEW p \in Procs, LoadQuota(p) PROVE EffectInv'
  <2>1. \A q \in Procs \ {p} : Cleared(q)'
    BY <1>12 DEF LoadQuota, Goto, Exit, files, procs, history, TypeInv, TypeOK, EffectInv, Cleared, MustWait
  <2>2. Cleared(p)'
    BY <1>12 DEF LoadQuota, Goto, Exit, At, files, procs, history, TypeInv, TypeOK, EffectInv, Cleared, MustWait, PastChecks, PastRoute, PastGate, ResumeSteps
  <2>. QED
    BY <2>1, <2>2 DEF EffectInv
<1>13. ASSUME NEW p \in Procs, Deny(p) PROVE EffectInv'
  <2>1. \A q \in Procs \ {p} : Cleared(q)'
    BY <1>13 DEF Deny, WriteRequest, Goto, Exit, files, procs, history, TypeInv, TypeOK, EffectInv, Cleared, MustWait
  <2>2. Cleared(p)'
    BY <1>13 DEF Deny, WriteRequest, Goto, Exit, At, files, procs, history, TypeInv, TypeOK, EffectInv, Cleared, MustWait, PastChecks, PastRoute, PastGate, ResumeSteps
  <2>. QED
    BY <2>1, <2>2 DEF EffectInv
<1>14. ASSUME NEW p \in Procs, Charge(p) PROVE EffectInv'
  <2>1. \A q \in Procs \ {p} : Cleared(q)'
    BY <1>14 DEF Charge, Goto, Exit, files, procs, history, TypeInv, TypeOK, EffectInv, Cleared, MustWait
  <2>2. Cleared(p)'
    BY <1>14 DEF Charge, Goto, Exit, At, files, procs, history, TypeInv, TypeOK, EffectInv, Cleared, MustWait, PastChecks, PastRoute, PastGate, ResumeSteps
  <2>. QED
    BY <2>1, <2>2 DEF EffectInv
<1>15. ASSUME NEW p \in Procs, NodeRaises(p) PROVE EffectInv'
  <2>1. \A q \in Procs \ {p} : Cleared(q)'
    BY <1>15 DEF NodeRaises, WriteRequest, Goto, Exit, files, procs, history, TypeInv, TypeOK, EffectInv, Cleared, MustWait
  <2>2. Cleared(p)'
    BY <1>15 DEF NodeRaises, WriteRequest, Goto, Exit, At, files, procs, history, TypeInv, TypeOK, EffectInv, Cleared, MustWait, PastChecks, PastRoute, PastGate, ResumeSteps
  <2>. QED
    BY <2>1, <2>2 DEF EffectInv
<1>16. ASSUME NEW p \in Procs, RunModA(p) PROVE EffectInv'
  <2>1. \A q \in Procs \ {p} : Cleared(q)'
    BY <1>16 DEF RunModA, WriteRequest, Goto, Exit, files, procs, history, TypeInv, TypeOK, EffectInv, Cleared, MustWait
  <2>2. Cleared(p)'
    BY <1>16 DEF RunModA, WriteRequest, Goto, Exit, At, files, procs, history, TypeInv, TypeOK, EffectInv, Cleared, MustWait, PastChecks, PastRoute, PastGate, ResumeSteps
  <2>. QED
    BY <2>1, <2>2 DEF EffectInv
<1>17. ASSUME NEW p \in Procs, Suspend(p) PROVE EffectInv'
  <2>1. \A q \in Procs \ {p} : Cleared(q)'
    BY <1>17 DEF Suspend, Goto, Exit, files, procs, history, TypeInv, TypeOK, EffectInv, Cleared, MustWait
  <2>2. Cleared(p)'
    BY <1>17 DEF Suspend, Goto, Exit, At, files, procs, history, TypeInv, TypeOK, EffectInv, Cleared, MustWait, PastChecks, PastRoute, PastGate, ResumeSteps
  <2>. QED
    BY <2>1, <2>2 DEF EffectInv
<1>18. ASSUME NEW p \in Procs, Allow(p) PROVE EffectInv'
  <2>1. \A q \in Procs \ {p} : Cleared(q)'
    BY <1>18 DEF Allow, Goto, Exit, files, procs, history, TypeInv, TypeOK, EffectInv, Cleared, MustWait
  <2>2. Cleared(p)'
    BY <1>18 DEF Allow, Goto, Exit, At, files, procs, history, TypeInv, TypeOK, EffectInv, Cleared, MustWait, PastChecks, PastRoute, PastGate, ResumeSteps
  <2>. QED
    BY <2>1, <2>2 DEF EffectInv
<1>19. ASSUME NEW p \in Procs, RefuseModB(p) PROVE EffectInv'
  <2>1. \A q \in Procs \ {p} : Cleared(q)'
    BY <1>19 DEF RefuseModB, Goto, Exit, files, procs, history, TypeInv, TypeOK, EffectInv, Cleared, MustWait
  <2>2. Cleared(p)'
    BY <1>19 DEF RefuseModB, Goto, Exit, At, files, procs, history, TypeInv, TypeOK, EffectInv, Cleared, MustWait, PastChecks, PastRoute, PastGate, ResumeSteps
  <2>. QED
    BY <2>1, <2>2 DEF EffectInv
<1>20. ASSUME NEW p \in Procs, RunModB(p) PROVE EffectInv'
  <2>1. \A q \in Procs \ {p} : Cleared(q)'
    BY <1>20 DEF RunModB, Goto, Exit, files, procs, history, TypeInv, TypeOK, EffectInv, Cleared, MustWait
  <2>2. Cleared(p)'
    BY <1>20 DEF RunModB, Goto, Exit, At, files, procs, history, TypeInv, TypeOK, EffectInv, Cleared, MustWait, PastChecks, PastRoute, PastGate, ResumeSteps
  <2>. QED
    BY <2>1, <2>2 DEF EffectInv
<1>21. ASSUME NEW p \in Procs, Settle(p) PROVE EffectInv'
  <2>1. \A q \in Procs \ {p} : Cleared(q)'
    BY <1>21 DEF Settle, SettledQuota, AfterSettle, Goto, Exit, files, procs, history, TypeInv, TypeOK, EffectInv, Cleared, MustWait
  <2>2. Cleared(p)'
    BY <1>21 DEF Settle, SettledQuota, AfterSettle, Goto, Exit, At, files, procs, history, TypeInv, TypeOK, EffectInv, Cleared, MustWait, PastChecks, PastRoute, PastGate, ResumeSteps
  <2>. QED
    BY <2>1, <2>2 DEF EffectInv
<1>22. ASSUME NEW p \in Procs, RecordOutcome(p) PROVE EffectInv'
  <2>1. \A q \in Procs \ {p} : Cleared(q)'
    BY <1>22 DEF RecordOutcome, Recorded, OutcomeOf, Goto, Exit, files, procs, history, TypeInv, TypeOK, EffectInv, Cleared, MustWait
  <2>2. Cleared(p)'
    BY <1>22 DEF RecordOutcome, Recorded, OutcomeOf, Goto, Exit, At, files, procs, history, TypeInv, TypeOK, EffectInv, Cleared, MustWait, PastChecks, PastRoute, PastGate, ResumeSteps
  <2>. QED
    BY <2>1, <2>2 DEF EffectInv
<1>23. ASSUME NEW p \in Procs, WriteSummary(p) PROVE EffectInv'
  <2>1. \A q \in Procs \ {p} : Cleared(q)'
    BY <1>23 DEF WriteSummary, Goto, Exit, files, procs, history, TypeInv, TypeOK, EffectInv, Cleared, MustWait
  <2>2. Cleared(p)'
    BY <1>23 DEF WriteSummary, Goto, Exit, At, files, procs, history, TypeInv, TypeOK, EffectInv, Cleared, MustWait, PastChecks, PastRoute, PastGate, ResumeSteps
  <2>. QED
    BY <2>1, <2>2 DEF EffectInv
<1>24. ASSUME NEW p \in Procs, WriteCloseout(p) PROVE EffectInv'
  <2>1. \A q \in Procs \ {p} : Cleared(q)'
    BY <1>24 DEF WriteCloseout, AfterCloseout, Goto, Exit, files, procs, history, TypeInv, TypeOK, EffectInv, Cleared, MustWait
  <2>2. Cleared(p)'
    BY <1>24 DEF WriteCloseout, AfterCloseout, Goto, Exit, At, files, procs, history, TypeInv, TypeOK, EffectInv, Cleared, MustWait, PastChecks, PastRoute, PastGate, ResumeSteps
  <2>. QED
    BY <2>1, <2>2 DEF EffectInv
<1>25. ASSUME NEW p \in Procs, WriteSuspend(p) PROVE EffectInv'
  <2>1. \A q \in Procs \ {p} : Cleared(q)'
    BY <1>25 DEF WriteSuspend, Goto, Exit, files, procs, history, TypeInv, TypeOK, EffectInv, Cleared, MustWait
  <2>2. Cleared(p)'
    BY <1>25 DEF WriteSuspend, Goto, Exit, At, files, procs, history, TypeInv, TypeOK, EffectInv, Cleared, MustWait, PastChecks, PastRoute, PastGate, ResumeSteps
  <2>. QED
    BY <2>1, <2>2 DEF EffectInv
<1>26. ASSUME NEW p \in Procs, WriteManifest(p) PROVE EffectInv'
  <2>1. \A q \in Procs \ {p} : Cleared(q)'
    BY <1>26 DEF WriteManifest, Goto, Exit, files, procs, history, TypeInv, TypeOK, EffectInv, Cleared, MustWait
  <2>2. Cleared(p)'
    BY <1>26 DEF WriteManifest, Goto, Exit, At, files, procs, history, TypeInv, TypeOK, EffectInv, Cleared, MustWait, PastChecks, PastRoute, PastGate, ResumeSteps
  <2>. QED
    BY <2>1, <2>2 DEF EffectInv
<1>27. ASSUME NEW p \in Procs, Release(p) PROVE EffectInv'
  <2>1. \A q \in Procs \ {p} : Cleared(q)'
    BY <1>27 DEF Release, LockKept, Goto, Exit, files, procs, history, TypeInv, TypeOK, EffectInv, Cleared, MustWait
  <2>2. Cleared(p)'
    BY <1>27 DEF Release, LockKept, Goto, Exit, At, files, procs, history, TypeInv, TypeOK, EffectInv, Cleared, MustWait, PastChecks, PastRoute, PastGate, ResumeSteps
  <2>. QED
    BY <2>1, <2>2 DEF EffectInv
<1>28. ASSUME NEW p \in Procs, ResumeQuarantined(p) PROVE EffectInv'
  <2>1. \A q \in Procs \ {p} : Cleared(q)'
    BY <1>28 DEF ResumeQuarantined, Goto, Exit, files, procs, history, TypeInv, TypeOK, EffectInv, Cleared, MustWait
  <2>2. Cleared(p)'
    BY <1>28 DEF ResumeQuarantined, Goto, Exit, At, files, procs, history, TypeInv, TypeOK, EffectInv, Cleared, MustWait, PastChecks, PastRoute, PastGate, ResumeSteps
  <2>. QED
    BY <2>1, <2>2 DEF EffectInv
<1>29. ASSUME NEW p \in Procs, ResumeAdmit(p) PROVE EffectInv'
  <2>1. \A q \in Procs \ {p} : Cleared(q)'
    BY <1>29 DEF ResumeAdmit, Goto, Exit, files, procs, history, TypeInv, TypeOK, EffectInv, Cleared, MustWait
  <2>2. Cleared(p)'
    BY <1>29 DEF ResumeAdmit, Goto, Exit, At, files, procs, history, TypeInv, TypeOK, EffectInv, Cleared, MustWait, PastChecks, PastRoute, PastGate, ResumeSteps
  <2>. QED
    BY <2>1, <2>2 DEF EffectInv
<1>30. ASSUME NEW p \in Procs, ResumeModB(p) PROVE EffectInv'
  <2>1. \A q \in Procs \ {p} : Cleared(q)'
    BY <1>30 DEF ResumeModB, Goto, Exit, files, procs, history, TypeInv, TypeOK, EffectInv, Cleared, MustWait
  <2>2. Cleared(p)'
    BY <1>30 DEF ResumeModB, Goto, Exit, At, files, procs, history, TypeInv, TypeOK, EffectInv, Cleared, MustWait, PastChecks, PastRoute, PastGate, ResumeSteps
  <2>. QED
    BY <2>1, <2>2 DEF EffectInv
<1>31. ASSUME NEW p \in Procs, ResumeFails(p) PROVE EffectInv'
  <2>1. \A q \in Procs \ {p} : Cleared(q)'
    BY <1>31 DEF ResumeFails, Goto, Exit, files, procs, history, TypeInv, TypeOK, EffectInv, Cleared, MustWait
  <2>2. Cleared(p)'
    BY <1>31 DEF ResumeFails, Goto, Exit, At, files, procs, history, TypeInv, TypeOK, EffectInv, Cleared, MustWait, PastChecks, PastRoute, PastGate, ResumeSteps
  <2>. QED
    BY <2>1, <2>2 DEF EffectInv
<1>32. ASSUME NEW p \in Procs, ResumeLoadAutonomy(p) PROVE EffectInv'
  <2>1. \A q \in Procs \ {p} : Cleared(q)'
    BY <1>32 DEF ResumeLoadAutonomy, Goto, Exit, files, procs, history, TypeInv, TypeOK, EffectInv, Cleared, MustWait
  <2>2. Cleared(p)'
    BY <1>32 DEF ResumeLoadAutonomy, Goto, Exit, At, files, procs, history, TypeInv, TypeOK, EffectInv, Cleared, MustWait, PastChecks, PastRoute, PastGate, ResumeSteps
  <2>. QED
    BY <2>1, <2>2 DEF EffectInv
<1>33. ASSUME NEW p \in Procs, Crash(p) PROVE EffectInv'
  <2>1. \A q \in Procs \ {p} : Cleared(q)'
    BY <1>33 DEF Crash, Goto, Exit, files, procs, history, TypeInv, TypeOK, EffectInv, Cleared, MustWait
  <2>2. Cleared(p)'
    BY <1>33 DEF Crash, Goto, Exit, At, files, procs, history, TypeInv, TypeOK, EffectInv, Cleared, MustWait, PastChecks, PastRoute, PastGate, ResumeSteps
  <2>. QED
    BY <2>1, <2>2 DEF EffectInv
<1>34. CASE ClearLock \/ Reconfigure \/ Finished \/ UNCHANGED vars
  BY <1>34 DEF ClearLock, RunnersIdle, Reconfigure, Finished, vars, procs, history, EffectInv, Cleared, MustWait
<1>35. ASSUME NEW p \in Procs, RouteInvalid(p) PROVE EffectInv'
  <2>1. \A q \in Procs \ {p} : Cleared(q)'
    BY <1>35 DEF RouteInvalid, Goto, files, history, TypeInv, TypeOK, EffectInv, Cleared, MustWait
  <2>2. Cleared(p)'
    BY <1>35 DEF RouteInvalid, Goto, files, history, TypeInv, TypeOK, Cleared, PastChecks, PastRoute, PastGate, ResumeSteps
  <2>. QED
    BY <2>1, <2>2 DEF EffectInv
<1>. QED
  BY <1>1, <1>2, <1>3, <1>4, <1>5, <1>6, <1>7, <1>8, <1>9, <1>10, <1>11, <1>12, <1>13, <1>14, <1>15, <1>16, <1>17, <1>18, <1>19, <1>20, <1>21, <1>22, <1>23, <1>24, <1>25, <1>26, <1>27, <1>28, <1>29, <1>30, <1>31, <1>32, <1>33, <1>34, <1>35 DEF Next, Run, Resume


LEMMA EffectInvariant == Spec => []EffectInv
<1>1. Init => EffectInv
  BY DEF Init, EffectInv, Cleared, PastChecks, PastRoute, PastGate, ResumeSteps
<1>. QED
  BY <1>1, EffectStepInv, TypeInvariant, PTL DEF Spec

\* Only MOD_B performs side effects, in a run or in a resume, and only for its
\* own run id.
LEMMA EffectStep ==
  ASSUME TypeInv, [Next]_vars, NEW r \in Runs, effects'[r] > effects[r]
  PROVE  \E p \in Procs :
            /\ RunModB(p) \/ ResumeModB(p)
            /\ job[p].rid = r
            /\ Writes(p)
<1>1. ASSUME NEW p \in Procs, Perform(p)
      PROVE  job[p].rid = r /\ Writes(p)
  BY <1>1 DEF Perform, TypeInv, TypeOK
<1>2. ASSUME effects' = effects
      PROVE  FALSE
  BY <1>2 DEF TypeInv, TypeOK
<1>3. ASSUME NEW p \in Procs, Run(p) \/ Resume(p), effects' # effects
      PROVE  RunModB(p) \/ ResumeModB(p)
  BY <1>3 DEF Run, Resume, AcquireLock, LockFree, LockBusy, Block, Admit, RouteInvalid, RouteQuarantined,
     RouteUnknown, WriteRequest, Route, LoadMappings, SaveMapping, SavedMappings, IdempotentHit, LoadQuota, Deny, WriteRequest, Charge, NodeRaises, WriteRequest,
     RunModA, WriteRequest, Suspend, Allow, RefuseModB, Settle, SettledQuota, AfterSettle, RecordOutcome, Recorded, OutcomeOf, WriteSummary,
     WriteCloseout, AfterCloseout, WriteSuspend, WriteManifest, Release, LockKept, ResumeQuarantined, ResumeAdmit,
     ResumeFails, ResumeLoadAutonomy, history
<1>4. PICK p \in Procs : RunModB(p) \/ ResumeModB(p)
  BY <1>2, <1>3 DEF Next, Launch, StartResume, Resumable, Crash, ClearLock, RunnersIdle, Reconfigure, Finished,
     vars, history
<1>5. Perform(p)
  BY <1>4 DEF RunModB, ResumeModB
<1>. QED
  BY <1>1, <1>4, <1>5

\* Whatever the stores, the configuration and the interleaving, kills and several
\* runs in parallel included: MOD_B acts only for a process that has passed every
\* gate, on the authority of a human or of a full_auto record.
THEOREM GovernedEffects == Spec => SideEffectsGoverned
<1>. DEFINE Authority(r) ==
       effects'[r] > effects[r] =>
          \E p \in Procs :
             /\ Active(p)
             /\ job[p].rid = r
             /\ job[p].req \in MayWrite \ (job[p].governor.intents \cup job[p].governor.workflows)
             /\ job[p].governor.mode = "normal"
             /\ \/ r \in approved
                \/ /\ job[p].req \notin NeedsApproval \cup StrictDeny
                   /\ job[p].autonomy.mode = "full_auto"
<1>1. ASSUME TypeInv, EffectInv, [Next]_vars, NEW r \in Runs, effects'[r] > effects[r]
      PROVE  Authority(r)
  <2>1. PICK p \in Procs : (RunModB(p) \/ ResumeModB(p)) /\ job[p].rid = r /\ Writes(p)
    BY <1>1, EffectStep
  <2>2. Cleared(p)
    BY <1>1 DEF EffectInv
  <2>3. job[p].req \in MayWrite /\ job[p].governor.mode = "normal"
    BY <2>1 DEF Writes
  <2>4. CASE RunModB(p)
    <3>1. pc[p] = "modB"
      BY <2>4 DEF RunModB, At
    <3>2. /\ job[p].req \notin StrictDeny \cup job[p].governor.intents \cup job[p].governor.workflows
          /\ job[p].req \notin NeedsApproval
          /\ ~ GateTriggered(job[p].autonomy.mode, job[p].req \in MayWrite)
      BY <2>2, <3>1 DEF Cleared, MustWait, PastChecks, PastRoute, PastGate
    <3>3. job[p].autonomy.mode \in AutonomyModes
      BY <1>1 DEF TypeInv, TypeOK, Job, AutonomyRecord
    <3>4. job[p].autonomy.mode = "full_auto"
      BY <2>3, <3>2, <3>3 DEF GateTriggered, AutonomyModes
    <3>. QED
      BY <2>1, <2>3, <3>1, <3>2, <3>4 DEF Active
  <2>5. CASE ResumeModB(p)
    <3>1. pc[p] = "rModB"
      BY <2>5 DEF ResumeModB, At
    <3>2. /\ r \in approved
          /\ job[p].req \notin job[p].governor.intents \cup job[p].governor.workflows
      BY <2>1, <2>2, <3>1 DEF Cleared, ResumeSteps
    <3>. QED
      BY <2>1, <2>3, <3>1, <3>2 DEF Active
  <2>. QED
    BY <2>1, <2>4, <2>5
<1>2. TypeInv /\ EffectInv /\ [Next]_vars => [\A r \in Runs : Authority(r)]_vars
  BY <1>1
<1>. QED
  BY <1>2, TypeInvariant, EffectInvariant, PTL DEF Spec, SideEffectsGoverned

-------------------------------------------------------------------------------
\* QUOTA
Spending == {"modA", "approval", "modB", "settle"}

\* The copy of the quota entry a process holds is current until its charge, and
\* afterwards one run behind.
CopyCurrent(p) ==
    /\ pc[p] = "charge" => job[p].quota = quota
    /\ pc[p] \in Spending =>
          job[p].quota.runs + 1 = quota.runs /\ job[p].quota.tokens = quota.tokens

QuotaInv == AdmissionsCounted /\ \A p \in Procs : CopyCurrent(p)

LEMMA QuotaStepInv ==
  ASSUME MaxParallel = 1, TypeInv, OneRunAtATime, QuotaInv, [Next]_vars
  PROVE  QuotaInv'
<1>1. ASSUME NEW p \in Procs, Launch(p) PROVE QuotaInv'
  BY <1>1 DEF Launch, Goto, Exit, At, files, procs, history, TypeInv, TypeOK, QuotaInv, CopyCurrent, Spending, AdmissionsCounted
<1>2. ASSUME NEW p \in Procs, StartResume(p) PROVE QuotaInv'
  BY <1>2 DEF StartResume, Resumable, Goto, Exit, At, files, procs, history, TypeInv, TypeOK, QuotaInv, CopyCurrent, Spending, AdmissionsCounted
<1>3. ASSUME NEW p \in Procs, AcquireLock(p) PROVE QuotaInv'
  <2>1. job' = [job EXCEPT ![p] = [job[p] EXCEPT !.locked = TRUE]]
    BY <1>3 DEF AcquireLock, LockFree
  <2>2. \A q \in Procs : job'[q].quota = job[q].quota
    BY <2>1 DEF TypeInv, TypeOK, Job
  <2>3. pc'[p] \in {"checks", "rChecks"}
    BY <1>3 DEF AcquireLock, LockFree, Goto, TypeInv, TypeOK
  <2>. QED
    BY <1>3, <2>2, <2>3 DEF AcquireLock, LockFree, Goto, history, TypeInv, TypeOK, QuotaInv, CopyCurrent, Spending, AdmissionsCounted
<1>4. ASSUME NEW p \in Procs, LockBusy(p) PROVE QuotaInv'
  BY <1>4 DEF LockBusy, Goto, Exit, At, files, procs, history, TypeInv, TypeOK, QuotaInv, CopyCurrent, Spending, AdmissionsCounted
<1>5. ASSUME NEW p \in Procs, Block(p) PROVE QuotaInv'
  BY <1>5 DEF Block, Goto, Exit, At, files, procs, history, TypeInv, TypeOK, QuotaInv, CopyCurrent, Spending, AdmissionsCounted
<1>6. ASSUME NEW p \in Procs, Admit(p) PROVE QuotaInv'
  BY <1>6 DEF Admit, Goto, Exit, At, files, procs, history, TypeInv, TypeOK, QuotaInv, CopyCurrent, Spending, AdmissionsCounted
<1>7. ASSUME NEW p \in Procs, RouteQuarantined(p) PROVE QuotaInv'
  BY <1>7 DEF RouteQuarantined, Goto, Exit, At, files, procs, history, TypeInv, TypeOK, QuotaInv, CopyCurrent, Spending, AdmissionsCounted
<1>8. ASSUME NEW p \in Procs, RouteUnknown(p) PROVE QuotaInv'
  BY <1>8 DEF RouteUnknown, WriteRequest, Goto, Exit, At, files, procs, history, TypeInv, TypeOK, QuotaInv, CopyCurrent, Spending, AdmissionsCounted
<1>9. ASSUME NEW p \in Procs, Route(p) PROVE QuotaInv'
  BY <1>9 DEF Route, Goto, Exit, At, files, procs, history, TypeInv, TypeOK, QuotaInv, CopyCurrent, Spending, AdmissionsCounted
<1>10. ASSUME NEW p \in Procs, LoadMappings(p) PROVE QuotaInv'
  BY <1>10 DEF LoadMappings, Goto, Exit, At, files, procs, history, TypeInv, TypeOK, QuotaInv, CopyCurrent, Spending, AdmissionsCounted
<1>11. ASSUME NEW p \in Procs, SaveMapping(p) PROVE QuotaInv'
  BY <1>11 DEF SaveMapping, SavedMappings, IdempotentHit, Goto, Exit, At, files, procs, history, TypeInv, TypeOK, QuotaInv, CopyCurrent, Spending, AdmissionsCounted
<1>12. ASSUME NEW p \in Procs, LoadQuota(p) PROVE QuotaInv'
  BY <1>12 DEF LoadQuota, Goto, Exit, At, files, procs, history, TypeInv, TypeOK, QuotaInv, CopyCurrent, Spending, AdmissionsCounted
<1>13. ASSUME NEW p \in Procs, Deny(p) PROVE QuotaInv'
  BY <1>13 DEF Deny, WriteRequest, Goto, Exit, At, files, procs, history, TypeInv, TypeOK, QuotaInv, CopyCurrent, Spending, AdmissionsCounted
<1>14. ASSUME NEW p \in Procs, Charge(p) PROVE QuotaInv'
  <2>1. \A q \in Procs \ {p} : CopyCurrent(q)'
    <3>1. \A q \in Procs \ {p} : ~ Active(q)
      BY <1>14 DEF Charge, At, Active, OneRunAtATime
    <3>. QED
      BY <1>14, <3>1 DEF Charge, Goto, CopyCurrent, Spending, Active, TypeInv, TypeOK
  <2>2. CopyCurrent(p)' /\ AdmissionsCounted'
    BY <1>14 DEF Charge, Goto, Exit, At, files, procs, history, TypeInv, TypeOK, QuotaInv, CopyCurrent, Spending, AdmissionsCounted, Job, Quota
  <2>. QED
    BY <2>1, <2>2 DEF QuotaInv
<1>15. ASSUME NEW p \in Procs, NodeRaises(p) PROVE QuotaInv'
  BY <1>15 DEF NodeRaises, WriteRequest, Goto, Exit, At, files, procs, history, TypeInv, TypeOK, QuotaInv, CopyCurrent, Spending, AdmissionsCounted
<1>16. ASSUME NEW p \in Procs, RunModA(p) PROVE QuotaInv'
  BY <1>16 DEF RunModA, WriteRequest, Goto, Exit, At, files, procs, history, TypeInv, TypeOK, QuotaInv, CopyCurrent, Spending, AdmissionsCounted
<1>17. ASSUME NEW p \in Procs, Suspend(p) PROVE QuotaInv'
  BY <1>17 DEF Suspend, Goto, Exit, At, files, procs, history, TypeInv, TypeOK, QuotaInv, CopyCurrent, Spending, AdmissionsCounted
<1>18. ASSUME NEW p \in Procs, Allow(p) PROVE QuotaInv'
  BY <1>18 DEF Allow, Goto, Exit, At, files, procs, history, TypeInv, TypeOK, QuotaInv, CopyCurrent, Spending, AdmissionsCounted
<1>19. ASSUME NEW p \in Procs, RefuseModB(p) PROVE QuotaInv'
  BY <1>19 DEF RefuseModB, Goto, Exit, At, files, procs, history, TypeInv, TypeOK, QuotaInv, CopyCurrent, Spending, AdmissionsCounted
<1>20. ASSUME NEW p \in Procs, RunModB(p) PROVE QuotaInv'
  BY <1>20 DEF RunModB, Goto, Exit, At, files, procs, history, TypeInv, TypeOK, QuotaInv, CopyCurrent, Spending, AdmissionsCounted
<1>21. ASSUME NEW p \in Procs, Settle(p) PROVE QuotaInv'
  <2>1. \A q \in Procs \ {p} : CopyCurrent(q)'
    <3>1. \A q \in Procs \ {p} : ~ Active(q)
      BY <1>21 DEF Settle, SettledQuota, AfterSettle, At, Active, OneRunAtATime
    <3>. QED
      BY <1>21, <3>1 DEF Settle, SettledQuota, AfterSettle, Goto, CopyCurrent, Spending, Active, TypeInv, TypeOK
  <2>2. CopyCurrent(p)' /\ AdmissionsCounted'
    BY <1>21 DEF Settle, SettledQuota, AfterSettle, Goto, Exit, At, files, procs, history, TypeInv, TypeOK, QuotaInv, CopyCurrent, Spending, AdmissionsCounted, Job, Quota
  <2>. QED
    BY <2>1, <2>2 DEF QuotaInv
<1>22. ASSUME NEW p \in Procs, RecordOutcome(p) PROVE QuotaInv'
  BY <1>22 DEF RecordOutcome, Recorded, OutcomeOf, Goto, Exit, At, files, procs, history, TypeInv, TypeOK, QuotaInv, CopyCurrent, Spending, AdmissionsCounted
<1>23. ASSUME NEW p \in Procs, WriteSummary(p) PROVE QuotaInv'
  BY <1>23 DEF WriteSummary, Goto, Exit, At, files, procs, history, TypeInv, TypeOK, QuotaInv, CopyCurrent, Spending, AdmissionsCounted
<1>24. ASSUME NEW p \in Procs, WriteCloseout(p) PROVE QuotaInv'
  BY <1>24 DEF WriteCloseout, AfterCloseout, Goto, Exit, At, files, procs, history, TypeInv, TypeOK, QuotaInv, CopyCurrent, Spending, AdmissionsCounted
<1>25. ASSUME NEW p \in Procs, WriteSuspend(p) PROVE QuotaInv'
  BY <1>25 DEF WriteSuspend, Goto, Exit, At, files, procs, history, TypeInv, TypeOK, QuotaInv, CopyCurrent, Spending, AdmissionsCounted
<1>26. ASSUME NEW p \in Procs, WriteManifest(p) PROVE QuotaInv'
  BY <1>26 DEF WriteManifest, Goto, Exit, At, files, procs, history, TypeInv, TypeOK, QuotaInv, CopyCurrent, Spending, AdmissionsCounted
<1>27. ASSUME NEW p \in Procs, Release(p) PROVE QuotaInv'
  BY <1>27 DEF Release, LockKept, Goto, Exit, At, files, procs, history, TypeInv, TypeOK, QuotaInv, CopyCurrent, Spending, AdmissionsCounted
<1>28. ASSUME NEW p \in Procs, ResumeQuarantined(p) PROVE QuotaInv'
  BY <1>28 DEF ResumeQuarantined, Goto, Exit, At, files, procs, history, TypeInv, TypeOK, QuotaInv, CopyCurrent, Spending, AdmissionsCounted
<1>29. ASSUME NEW p \in Procs, ResumeAdmit(p) PROVE QuotaInv'
  BY <1>29 DEF ResumeAdmit, Goto, Exit, At, files, procs, history, TypeInv, TypeOK, QuotaInv, CopyCurrent, Spending, AdmissionsCounted
<1>30. ASSUME NEW p \in Procs, ResumeModB(p) PROVE QuotaInv'
  BY <1>30 DEF ResumeModB, Goto, Exit, At, files, procs, history, TypeInv, TypeOK, QuotaInv, CopyCurrent, Spending, AdmissionsCounted
<1>31. ASSUME NEW p \in Procs, ResumeFails(p) PROVE QuotaInv'
  BY <1>31 DEF ResumeFails, Goto, Exit, At, files, procs, history, TypeInv, TypeOK, QuotaInv, CopyCurrent, Spending, AdmissionsCounted
<1>32. ASSUME NEW p \in Procs, ResumeLoadAutonomy(p) PROVE QuotaInv'
  BY <1>32 DEF ResumeLoadAutonomy, Goto, Exit, At, files, procs, history, TypeInv, TypeOK, QuotaInv, CopyCurrent, Spending, AdmissionsCounted
<1>33. ASSUME NEW p \in Procs, Crash(p) PROVE QuotaInv'
  BY <1>33 DEF Crash, Goto, Exit, At, files, procs, history, TypeInv, TypeOK, QuotaInv, CopyCurrent, Spending, AdmissionsCounted
<1>34. CASE ClearLock \/ Reconfigure \/ Finished \/ UNCHANGED vars
  BY <1>34 DEF ClearLock, RunnersIdle, Reconfigure, Finished, vars, files, procs, history, QuotaInv, CopyCurrent, AdmissionsCounted
<1>35. ASSUME NEW p \in Procs, RouteInvalid(p) PROVE QuotaInv'
  BY <1>35 DEF RouteInvalid, Goto, Exit, At, files, procs, history, TypeInv, TypeOK, QuotaInv, CopyCurrent, Spending, AdmissionsCounted
<1>. QED
  BY <1>1, <1>2, <1>3, <1>4, <1>5, <1>6, <1>7, <1>8, <1>9, <1>10, <1>11, <1>12, <1>13, <1>14, <1>15, <1>16, <1>17, <1>18, <1>19, <1>20, <1>21, <1>22, <1>23, <1>24, <1>25, <1>26, <1>27, <1>28, <1>29, <1>30, <1>31, <1>32, <1>33, <1>34, <1>35 DEF Next, Run, Resume

\* With max_parallel_runs = 1 the tenant's run counter is exact and its limit is
\* never passed, although it is written back twice from one old copy: no kill
\* and no resume makes a charge count twice or get lost.
THEOREM QuotaExact ==
  ASSUME MaxParallel = 1
  PROVE  Spec => []AdmissionsCounted
<1>1. Init => QuotaInv
  BY GovernedAssumption DEF Init, QuotaInv, AdmissionsCounted, CopyCurrent, Spending
<1>2. TypeInv /\ OneRunAtATime /\ QuotaInv /\ [Next]_vars => QuotaInv'
  BY QuotaStepInv
<1>3. QuotaInv => AdmissionsCounted
  BY DEF QuotaInv
<1>. QED
  BY <1>1, <1>2, <1>3, TypeInvariant, MutualExclusion, PTL DEF Spec

===============================================================================
