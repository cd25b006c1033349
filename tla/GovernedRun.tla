------------------------------ MODULE GovernedRun ------------------------------
(***************************************************************************)
(* The governed run pipeline of src/orchestrator: local_runner processes   *)
(* execute request envelopes against one shared workspace, one process per *)
(* command line.                                                           *)
(*                                                                         *)
(*   run_envelope    validate -> governor -> routing -> idempotency ->     *)
(*                   quota and autonomy -> execute and finalize            *)
(*   handle_resume   a human resumes a SUSPENDED run with --approve true   *)
(*                                                                         *)
(* Processes share files only: the governor lock, the idempotency store,   *)
(* the quota store, the autonomy store, and one evidence directory per     *)
(* run id.  Every read-modify-write of a store spans several actions here, *)
(* with the copy that was read kept in job[p], because the code holds a    *)
(* copy in memory from the stage that loads it to the stage that saves it. *)
(*                                                                         *)
(* One tenant, one day and one intent: all requests charge the same quota  *)
(* entry and the same autonomy record.                                     *)
(*                                                                         *)
(* Operators said to be faulty are used by no specification: each is a slip *)
(* the code could have had in the operator that follows it, and makes a    *)
(* property fail when it takes its place.                                  *)
(***************************************************************************)
EXTENDS GovernedRunState

-------------------------------------------------------------------------------
\* ---- validate_stage and the first half of governor_stage -------------------
\* A valid envelope is launched; the governor configuration is read before the
\* lock is taken and kept to the end of the run.
Launch(p) ==
    /\ At(p, "idle")
    /\ launches < MaxLaunches
    /\ launches' = launches + 1
    /\ \E r \in Requests, forced \in BOOLEAN :
          /\ forced => r \in Forceable
          /\ job' = [job EXCEPT ![p] =
                [NoJob EXCEPT !.req = r,
                              !.rid = IF forced \/ r \in Unroutable THEN launches + 1 ELSE r,
                              !.forced = forced,
                              !.governor = governor]]
    /\ Goto(p, "governor")
    /\ UNCHANGED << files, history, crashes >>

\* Faulty: os.open without O_EXCL.
LockFreeOrNot == TRUE

\* O_CREAT | O_EXCL
LockFree == ~ lockFile

AcquireLock(p) ==
    /\ pc[p] \in {"governor", "rGovernor"}
    /\ \/ /\ MaxParallel > 1
          /\ UNCHANGED << lockFile, job >>
       \/ /\ MaxParallel = 1
          /\ LockFree
          /\ lockFile' = TRUE
          /\ job' = [job EXCEPT ![p].locked = TRUE]
    /\ Goto(p, IF At(p, "governor") THEN "checks" ELSE "rChecks")
    /\ UNCHANGED << governor, mappings, quota, autonomy, envelope, evidence, manifest,
                    launches, crashes, history >>

\* CONCURRENCY_LIMIT: the process reports the envelope to the DLQ and exits.
LockBusy(p) ==
    /\ pc[p] \in {"governor", "rGovernor"}
    /\ MaxParallel = 1
    /\ lockFile
    /\ Exit(p)
    /\ UNCHANGED << files, launches, crashes, history >>

\* The boundary check and the intent quarantine raise SystemExit inside
\* governor_stage, before run_envelope has received lock_acquired: its finally
\* clause then leaves the lock file in place.
Block(p) ==
    /\ At(p, "checks")
    /\ job[p].req \in StrictDeny \cup job[p].governor.intents
    /\ Exit(p)
    /\ UNCHANGED << files, launches, crashes, history >>

Admit(p) ==
    /\ At(p, "checks")
    /\ job[p].req \notin StrictDeny \cup job[p].governor.intents
    /\ Goto(p, "route")
    /\ UNCHANGED << files, job, launches, crashes, history >>

\* ---- routing_and_workflow_stage ------------------------------------------------
RouteQuarantined(p) ==
    /\ At(p, "route")
    /\ job[p].req \in job[p].governor.workflows \ Unroutable
    /\ Goto(p, "release")
    /\ UNCHANGED << files, job, launches, crashes, history >>

\* The strategy table or the workflow file is missing or invalid.
RouteInvalid(p) ==
    /\ At(p, "route")
    /\ Goto(p, "release")
    /\ UNCHANGED << files, job, launches, crashes, history >>

\* Faulty: the directory is named after the request, not after the run.
WriteRequestByRequest(p) == envelope' = [envelope EXCEPT ![job[p].req] = job[p].req]

\* EvidenceWriter.write_request
WriteRequest(p) == envelope' = [envelope EXCEPT ![job[p].rid] = job[p].req]

\* An unknown intent leaves a FAILED summary under a fresh run id.
RouteUnknown(p) ==
    /\ At(p, "route")
    /\ job[p].req \in Unroutable
    /\ WriteRequest(p)
    /\ job' = [job EXCEPT ![p].path = "denied"]
    /\ Goto(p, "summary")
    /\ UNCHANGED << governor, lockFile, mappings, quota, autonomy, evidence, manifest,
                    launches, crashes, history >>

Route(p) ==
    /\ At(p, "route")
    /\ job[p].req \notin job[p].governor.workflows \cup Unroutable
    /\ Goto(p, "idemLoad")
    /\ UNCHANGED << files, job, launches, crashes, history >>

\* ---- idempotency_stage -----------------------------------------------------------
LoadMappings(p) ==
    /\ At(p, "idemLoad")
    /\ job' = [job EXCEPT ![p].mappings = mappings]
    /\ Goto(p, "idemSave")
    /\ UNCHANGED << files, launches, crashes, history >>

\* Faulty: the store is replaced by the one new mapping.
SavedAlone(p) == IF job[p].forced THEN mappings ELSE {job[p].req}

\* The whole store is written back from the copy; a forced run does not touch it.
SavedMappings(p) ==
    IF job[p].forced \/ job[p].req \in job[p].mappings
    THEN mappings
    ELSE job[p].mappings \cup {job[p].req}

\* Faulty: the run id is recorded but an earlier result is not looked up.
NeverHit(p) == FALSE

\* An unforced run stops at the COMPLETED summary of an earlier launch.
IdempotentHit(p) == ~ job[p].forced /\ evidence[job[p].rid].summary = "COMPLETED"

SaveMapping(p) ==
    /\ At(p, "idemSave")
    /\ mappings' = SavedMappings(p)
    /\ Goto(p, IF IdempotentHit(p) THEN "release" ELSE "quotaLoad")
    /\ UNCHANGED << governor, lockFile, quota, autonomy, envelope, evidence, manifest,
                    job, launches, crashes, history >>

\* ---- quota_autonomy_stage -----------------------------------------------------------
LoadQuota(p) ==
    /\ At(p, "quotaLoad")
    /\ job' = [job EXCEPT ![p] =
          [@ EXCEPT !.quota = quota,
                    !.autonomy = autonomy,
                    !.gate = GateTriggered(autonomy.mode, job[p].req \in MayWrite)]]
    /\ Goto(p, "charge")
    /\ UNCHANGED << files, launches, crashes, history >>

\* QUOTA_RUNS_EXCEEDED: the run is recorded FAILED without being executed.
Deny(p) ==
    /\ At(p, "charge")
    /\ job[p].quota.runs + 1 > MaxRuns
    /\ WriteRequest(p)
    /\ job' = [job EXCEPT ![p].path = "denied"]
    /\ Goto(p, "autonomy")
    /\ UNCHANGED << governor, lockFile, mappings, quota, autonomy, evidence, manifest,
                    launches, crashes, history >>

Charge(p) ==
    /\ At(p, "charge")
    /\ job[p].quota.runs + 1 =< MaxRuns
    /\ quota' = [runs |-> job[p].quota.runs + 1, tokens |-> job[p].quota.tokens]
    /\ charged' = charged + 1
    /\ Goto(p, "modA")
    /\ UNCHANGED << governor, lockFile, mappings, autonomy, envelope, evidence, manifest,
                    job, launches, crashes, effects, approved, spent, outcomes, torn >>

\* ---- execute_workflow: MOD_A, APPROVAL, MOD_B -------------------------------------------
\* Faulty: only the tokens of this run are compared with the daily quota.
OverTokenQuotaPerRun(p, tokens) == job[p].used + tokens > MaxTokens

\* BudgetTracker.consume_tokens refuses what would exceed the daily quota,
\* counted from the copy the quota stage read.
OverTokenQuota(p, tokens) ==
    job[p].quota.tokens + job[p].used + tokens > MaxTokens

\* A node raises before it charges tokens: the time or attempt budget is used
\* up, the provider fails, a path or tool is refused.
NodeRaises(p) ==
    /\ pc[p] \in {"modA", "approval", "modB"}
    /\ WriteRequest(p)
    /\ Goto(p, "settle")
    /\ UNCHANGED << governor, lockFile, mappings, quota, autonomy, evidence, manifest,
                    job, launches, crashes, history >>

\* MOD_A writes its output and then charges its tokens, which may raise.
RunModA(p) ==
    /\ At(p, "modA")
    /\ WriteRequest(p)
    /\ job' = [job EXCEPT ![p].used = @ + ModATokens]
    /\ spent' = spent + ModATokens
    /\ \/ Goto(p, "settle")
       \/ ~ OverTokenQuota(p, ModATokens) /\ Goto(p, "approval")
    /\ UNCHANGED << governor, lockFile, mappings, quota, autonomy, evidence, manifest,
                    launches, crashes, effects, approved, charged, outcomes, torn >>

\* Faulty: the autonomy gate is computed but not handed to the approval node.
MustWaitForRiskOnly(p) == job[p].req \in NeedsApproval

MustWait(p) == job[p].gate \/ job[p].req \in NeedsApproval

Suspend(p) ==
    /\ At(p, "approval")
    /\ MustWait(p)
    /\ job' = [job EXCEPT ![p].executed = "SUSPENDED"]
    /\ Goto(p, "settle")
    /\ UNCHANGED << files, launches, crashes, history >>

Allow(p) ==
    /\ At(p, "approval")
    /\ ~ MustWait(p)
    /\ Goto(p, "modB")
    /\ UNCHANGED << files, job, launches, crashes, history >>

\* MOD_B has an effect unless the envelope or report_only forbids it.
Writes(p) == job[p].req \in MayWrite /\ job[p].governor.mode = "normal"

Perform(p) ==
    effects' = [effects EXCEPT ![job[p].rid] = IF Writes(p) THEN @ + 1 ELSE @]

\* MOD_B charges tokens first; a budget or quota violation, or a refusal by the
\* tool gateway, then raises before any effect.
RefuseModB(p) ==
    /\ At(p, "modB")
    /\ job' = [job EXCEPT ![p].used = @ + ModBTokens]
    /\ spent' = spent + ModBTokens
    /\ Goto(p, "settle")
    /\ UNCHANGED << files, launches, crashes, effects, approved, charged, outcomes, torn >>

\* The time budget is checked once more after the effect: the workflow may have
\* written its output and still return an exception.
RunModB(p) ==
    /\ At(p, "modB")
    /\ ~ OverTokenQuota(p, ModBTokens)
    /\ Perform(p)
    /\ \E status \in {"COMPLETED", "FAILED"} :
          job' = [job EXCEPT ![p] = [@ EXCEPT !.used = job[p].used + ModBTokens, !.executed = status]]
    /\ spent' = spent + ModBTokens
    /\ Goto(p, "settle")
    /\ UNCHANGED << files, launches, crashes, approved, charged, outcomes, torn >>

\* ---- execute_and_finalize_stage ------------------------------------------------------------
\* Faulty: worst_action itself is stored; a missing result counts as COMPLETED.
VerdictIsAction(executed) == IF executed = "FAILED" THEN executed ELSE GateAction
VerdictByDefault(executed) == IF executed = "FAILED" THEN "COMPLETED" ELSE executed

\* The quality gates judge what execute_workflow returned, after its effects;
\* an exception skips them.
Verdict(executed) ==
    IF executed # "FAILED" /\ GateAction = "reject" THEN "FAILED"
    ELSE IF executed # "FAILED" /\ GateAction = "suspend" THEN "SUSPENDED"
    ELSE executed

\* Faulty: the run of the charge is forgotten; a failed run is not charged.
SettledWithoutRun(p) ==
    [runs |-> job[p].quota.runs, tokens |-> job[p].quota.tokens + job[p].used]
SettledUnlessFailed(p) ==
    [runs |-> job[p].quota.runs + 1,
     tokens |-> job[p].quota.tokens + (IF job[p].executed = "FAILED" THEN 0 ELSE job[p].used)]

\* The quota entry is rewritten from the copy read before execution.
SettledQuota(p) ==
    [runs |-> job[p].quota.runs + 1, tokens |-> job[p].quota.tokens + job[p].used]

\* Faulty: evidence is written for terminal outcomes only.
AfterSettleOutcomesOnly(state) == IF state = "SUSPENDED" THEN "release" ELSE "autonomy"

\* Only COMPLETED and FAILED are reported to the autonomy store.
AfterSettle(state) == IF state = "SUSPENDED" THEN "summary" ELSE "autonomy"

Settle(p) ==
    /\ At(p, "settle")
    /\ quota' = SettledQuota(p)
    /\ job' = [job EXCEPT ![p].state = Verdict(job[p].executed)]
    /\ Goto(p, AfterSettle(Verdict(job[p].executed)))
    /\ UNCHANGED << governor, lockFile, mappings, autonomy, envelope, evidence, manifest,
                    launches, crashes, history >>

OutcomeOf(state) == IF state = "COMPLETED" THEN "SUCCESS" ELSE "FAIL"

\* Faulty: the record starts anew at every run.
RecordedAnew(p) == UpdateRecord(InitialRecord, OutcomeOf(job[p].state))

Recorded(p) == UpdateRecord(job[p].autonomy, OutcomeOf(job[p].state))

RecordOutcome(p) ==
    /\ At(p, "autonomy")
    /\ autonomy' = Recorded(p)
    /\ outcomes' = outcomes + 1
    /\ Goto(p, "summary")
    /\ UNCHANGED << governor, lockFile, mappings, quota, envelope, evidence, manifest,
                    job, launches, crashes, effects, approved, charged, spent, torn >>

\* Only a run that was executed writes closeout.v1.json; a denied run and a
\* resume go on to provenance and manifest.
WriteSummary(p) ==
    /\ At(p, "summary")
    /\ evidence' = [evidence EXCEPT ![job[p].rid].summary = job[p].state]
    /\ Goto(p, IF job[p].path = "run" THEN "closeout" ELSE "manifest")
    /\ UNCHANGED << governor, lockFile, mappings, quota, autonomy, envelope, manifest,
                    job, launches, crashes, history >>

\* Faulty: only a suspended run is sealed.
AfterCloseoutUnsealed(state) == IF state = "SUSPENDED" THEN "suspend" ELSE "release"

AfterCloseout(state) == IF state = "SUSPENDED" THEN "suspend" ELSE "manifest"

WriteCloseout(p) ==
    /\ At(p, "closeout")
    /\ evidence' = [evidence EXCEPT ![job[p].rid].closeout = job[p].state]
    /\ Goto(p, AfterCloseout(job[p].state))
    /\ UNCHANGED << governor, lockFile, mappings, quota, autonomy, envelope, manifest,
                    job, launches, crashes, history >>

WriteSuspend(p) ==
    /\ At(p, "suspend")
    /\ evidence' = [evidence EXCEPT ![job[p].rid].suspend = TRUE]
    /\ Goto(p, "manifest")
    /\ UNCHANGED << governor, lockFile, mappings, quota, autonomy, envelope, manifest,
                    job, launches, crashes, history >>

WriteManifest(p) ==
    /\ At(p, "manifest")
    /\ manifest' = [manifest EXCEPT ![job[p].rid] = evidence[job[p].rid]]
    /\ torn' = torn \ {job[p].rid}
    /\ Goto(p, "release")
    /\ UNCHANGED << governor, lockFile, mappings, quota, autonomy, envelope, evidence,
                    job, launches, crashes, effects, approved, charged, spent, outcomes >>

\* Faulty: the lock is given back at the end of a good run only.
LockKeptOnFailure(p) == lockFile /\ job[p].state = "FAILED"

\* finally: if lock_acquired: release_governor_lock
LockKept(p) == lockFile /\ ~ job[p].locked

Release(p) ==
    /\ At(p, "release")
    /\ lockFile' = LockKept(p)
    /\ Exit(p)
    /\ UNCHANGED << governor, mappings, quota, autonomy, envelope, evidence, manifest,
                    launches, crashes, history >>

\* ---- handle_resume --------------------------------------------------------------------------
\* Faulty: any run with a summary is resumed.
ResumableAlways(r) == evidence[r].summary # "NONE"

Resumable(r) == evidence[r].summary = "SUSPENDED"

\* The summary is read, and found SUSPENDED, before the lock is taken; it is not
\* read again.
StartResume(p) ==
    /\ p \in Resumers
    /\ At(p, "idle")
    /\ launches < MaxLaunches
    /\ launches' = launches + 1
    /\ \E r \in Runs :
          /\ Resumable(r)
          /\ approved' = approved \cup {r}
          /\ job' = [job EXCEPT ![p] =
                [NoJob EXCEPT !.req = envelope[r], !.rid = r, !.path = "resume",
                              !.governor = governor]]
    /\ Goto(p, "rGovernor")
    /\ UNCHANGED << files, crashes, effects, charged, spent, outcomes, torn >>

ResumeQuarantined(p) ==
    /\ At(p, "rChecks")
    /\ job[p].req \in job[p].governor.intents \cup job[p].governor.workflows
    /\ Goto(p, "release")
    /\ UNCHANGED << files, job, launches, crashes, history >>

ResumeAdmit(p) ==
    /\ At(p, "rChecks")
    /\ job[p].req \notin job[p].governor.intents \cup job[p].governor.workflows
    /\ Goto(p, "rModB")
    /\ UNCHANGED << files, job, launches, crashes, history >>

\* The resumed budget carries the run's own limits and no quota context.
ResumeModB(p) ==
    /\ At(p, "rModB")
    /\ Perform(p)
    /\ job' = [job EXCEPT ![p].state = "COMPLETED"]
    /\ spent' = spent + ModBTokens
    /\ Goto(p, "rAutonomy")
    /\ UNCHANGED << files, launches, crashes, approved, charged, outcomes, torn >>

ResumeFails(p) ==
    /\ At(p, "rModB")
    /\ spent' \in {spent, spent + ModBTokens}
    /\ Goto(p, "rAutonomy")
    /\ UNCHANGED << files, job, launches, crashes, effects, approved, charged, outcomes, torn >>

ResumeLoadAutonomy(p) ==
    /\ At(p, "rAutonomy")
    /\ job' = [job EXCEPT ![p].autonomy = autonomy]
    /\ Goto(p, "autonomy")
    /\ UNCHANGED << files, launches, crashes, history >>

\* ---- the environment --------------------------------------------------------------------------
\* A process is killed: its memory is lost, its lock file and its half-written
\* evidence stay.
Crash(p) ==
    /\ ~ At(p, "idle")
    /\ crashes < MaxCrashes
    /\ crashes' = crashes + 1
    /\ torn' = torn \cup {job[p].rid}
    /\ Exit(p)
    /\ UNCHANGED << files, launches, effects, approved, charged, spent, outcomes >>

RunnersIdle == \A p \in Procs : At(p, "idle")

\* The runbook's cleaning: delete the lock file when no runner is active.
ClearLock ==
    /\ lockFile
    /\ RunnersIdle
    /\ lockFile' = FALSE
    /\ UNCHANGED << governor, mappings, quota, autonomy, envelope, evidence, manifest,
                    procs, history >>

\* The operator edits health_brain.v1.json.
Reconfigure ==
    /\ governor' \in GovernorConfigs \ {governor}
    /\ UNCHANGED << lockFile, mappings, quota, autonomy, envelope, evidence, manifest,
                    procs, history >>

\* Every command line has been used: the one state in which nothing happens.
Finished ==
    /\ launches = MaxLaunches
    /\ RunnersIdle
    /\ UNCHANGED vars

\* What a running process does next.
Run(p) ==
    \/ AcquireLock(p) \/ LockBusy(p) \/ Block(p) \/ Admit(p)
    \/ RouteInvalid(p) \/ RouteQuarantined(p) \/ RouteUnknown(p) \/ Route(p)
    \/ LoadMappings(p) \/ SaveMapping(p)
    \/ LoadQuota(p) \/ Deny(p) \/ Charge(p)
    \/ NodeRaises(p) \/ RunModA(p) \/ Suspend(p) \/ Allow(p) \/ RefuseModB(p) \/ RunModB(p)
    \/ Settle(p) \/ RecordOutcome(p)
    \/ WriteSummary(p) \/ WriteCloseout(p) \/ WriteSuspend(p) \/ WriteManifest(p)
    \/ Release(p)

Resume(p) ==
    \/ ResumeQuarantined(p) \/ ResumeAdmit(p)
    \/ ResumeModB(p) \/ ResumeFails(p) \/ ResumeLoadAutonomy(p)

Next ==
    \/ \E p \in Procs : Launch(p) \/ StartResume(p) \/ Run(p) \/ Resume(p) \/ Crash(p)
    \/ ClearLock
    \/ Reconfigure
    \/ Finished

Spec == Init /\ [][Next]_vars

\* A process that was started runs to its end: no step waits for another
\* process, the lock is tried once and never awaited.
Fairness == \A p \in Procs : WF_vars(Run(p) \/ Resume(p))

FairSpec == Spec /\ Fairness

-------------------------------------------------------------------------------
\* ---- properties ------------------------------------------------------------------------------------

TypeOK ==
    /\ governor \in GovernorConfigs
    /\ lockFile \in BOOLEAN
    /\ mappings \in SUBSET Requests
    /\ quota \in Quota
    /\ autonomy \in AutonomyRecord
    /\ envelope \in [Runs -> Requests \cup {NoRequest}]
    /\ evidence \in [Runs -> Evidence]
    /\ manifest \in [Runs -> Evidence]
    /\ pc \in [Procs -> Steps]
    /\ job \in [Procs -> Job]
    /\ \A p \in Procs : pc[p] # "idle" => job[p].req \in Requests /\ job[p].rid \in Runs
    /\ launches \in 0 .. MaxLaunches
    /\ crashes \in 0 .. MaxCrashes
    /\ effects \in [Runs -> Nat]
    /\ approved \in SUBSET Runs
    /\ charged \in Nat
    /\ spent \in Nat
    /\ outcomes \in Nat
    /\ torn \in SUBSET Runs

\* request.json is there before anything else of a run's evidence, so that a
\* resume finds the envelope it is to continue.
EnvelopeFirst ==
    /\ \A r \in Runs : evidence[r].summary # "NONE" => envelope[r] \in Requests
    /\ \A p \in Procs :
          pc[p] \in {"approval", "modB", "settle", "autonomy", "summary"} \cup ResumeSteps =>
              envelope[job[p].rid] \in Requests

\* Past the governor stage: between acquiring the lock and releasing it.
Active(p) == pc[p] \notin {"idle", "governor", "rGovernor"}

\* max_parallel_runs = 1: from the acquisition of governor_lock to its release
\* no other process is past its governor stage, whether it runs or resumes, and
\* the lock file is there for the whole time (acquire_governor_lock and the
\* finally clauses of run_envelope and handle_resume).
OneRunAtATime ==
    MaxParallel = 1 =>
        \A p, q \in Procs : Active(p) /\ Active(q) => p = q /\ lockFile

\* The quota store counts exactly the runs that were admitted, although every
\* run writes it twice from a copy read before its execution, and never more
\* than max_runs_per_day of them are admitted.
AdmissionsCounted ==
    /\ quota.runs = charged
    /\ charged =< MaxRuns

\* Tokens in the quota store were consumed; when nothing runs, nobody was killed
\* and no run was resumed, the store holds all that was consumed.
TokensAccounted ==
    /\ quota.tokens =< spent
    /\ (RunnersIdle /\ crashes = 0 /\ Resumers = {}) => quota.tokens = spent

\* "Enforce token quota during execution (fail before side effects)": a side
\* effect happens only while the tokens consumed so far, its own included, are
\* within max_est_tokens_per_day (BudgetTracker.consume_tokens).
TokenQuotaBeforeEffects ==
    [][\A r \in Runs : effects'[r] > effects[r] => spent' =< MaxTokens]_vars

\* A side effect is the act of one admitted process: not quarantined or denied,
\* not under report_only, for an envelope that wants effects, and either a human
\* approved the run or its risk is low and its intent has earned full_auto.
SideEffectsGoverned ==
    [][\A r \in Runs : effects'[r] > effects[r] =>
          \E p \in Procs :
             /\ Active(p)
             /\ job[p].rid = r
             /\ job[p].req \in MayWrite \ (job[p].governor.intents \cup job[p].governor.workflows)
             /\ job[p].governor.mode = "normal"
             /\ \/ r \in approved
                \/ /\ job[p].req \notin NeedsApproval \cup StrictDeny
                   /\ job[p].autonomy.mode = "full_auto"]_vars

\* COMPLETED is final: a completed run is neither recorded otherwise nor given
\* another side effect (idempotency_stage, "Only SUSPENDED runs can be resumed").
CompletedIsFinal ==
    [][\A r \in Runs : evidence[r].summary = "COMPLETED" =>
          /\ evidence'[r].summary = "COMPLETED"
          /\ effects'[r] = effects[r]]_vars

\* A run recorded as COMPLETED has done what its envelope asked for, also when
\* processes were killed on the way, unless report_only may have suppressed it.
CompletionHasEffect ==
    (\A g \in GovernorConfigs : g.mode = "normal") =>
        \A r \in Runs :
            evidence[r].summary = "COMPLETED" /\ envelope[r] \in MayWrite => effects[r] > 0

\* The deterministic run id of every request with evidence can be found in the
\* idempotency store, which is written back whole from a copy.
MappingsComplete ==
    \A r \in Requests : evidence[r].summary # "NONE" => r \in mappings

\* The integrity manifest covers the evidence as it stands, once the process
\* that wrote the evidence has gone on and unless it was killed before it could.
EvidenceSealed ==
    \A r \in Runs :
        \/ manifest[r] = evidence[r]
        \/ r \in torn
        \/ \E p \in Procs : job[p].rid = r /\ pc[p] \in {"closeout", "suspend", "manifest"}

\* The autonomy record counts every outcome reported to it: none is lost to a
\* record written back from a copy read before the execution.
OutcomesCounted ==
    autonomy.samples = outcomes

\* Every lock that is taken is given back, while nobody is killed or blocked.
LockFreed == lockFile ~> ~ lockFile

\* A process between the charge and the summary executes its run.
Executing(p, r) ==
    /\ job[p].rid = r
    /\ \/ pc[p] \in {"modA", "approval", "modB", "settle", "rModB", "rAutonomy"}
       \/ pc[p] \in {"autonomy", "summary"} /\ job[p].path # "denied"

\* The runs implement RunLifecycle: RUNNING while a process executes the run,
\* otherwise what summary.json says.
Lifecycle == INSTANCE RunLifecycle WITH
    RunIds <- Runs,
    effects <- effects,
    phase <- [r \in Runs |-> IF \E p \in Procs : Executing(p, r)
                             THEN "RUNNING"
                             ELSE evidence[r].summary]

ImplementsLifecycle == Lifecycle!Spec
ImplementsFairLifecycle == Lifecycle!FairSpec

===============================================================================
