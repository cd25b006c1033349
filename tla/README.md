# Formal model of the autonomous orchestrator

TLA+ specifications of the parts of this repository that share state: the
governed run pipeline, the write-ahead log, the work items, the airunner with its
loops, and the roadmap runner; the TLC configurations that check them on small
instances, and TLAPS proofs of their safety properties for every size. Paths are
relative to the repository root.

## 1. The system

`autonomous-orchestrator` executes *request envelopes*: JSON files with a tenant,
an intent, a risk score and a side-effect policy. `src/orchestrator/local_runner.py`
is a command-line process; everything that must outlive it, or must be agreed
between two of them, is a file of the workspace. There is no server and no
database: the hard part of the system is several short-lived processes doing
read-modify-write on shared JSON files, with humans and operators between them.

### Components

| Component | State it keeps | Operations | What makes it correct | Modelled by |
|---|---|---|---|---|
| Governor (`governor_stage.py`, `runner_config.py`, `decision_boundary.py`) | `governor/health_brain.v1.json`, `.cache/governor_lock` | read mode and quarantine, take and release the lock, block | one run at a time; nothing quarantined or denied acts; the lock comes back | `GovernedRun` |
| Routing (`routing_workflow_stage.py`) | strategy table, workflow files | choose the workflow, reject an unknown intent | a rejection leaves complete evidence | `GovernedRun` |
| Idempotency (`idempotency.py`, `idempotency_stage.py`) | `.cache/idempotency_store.v1.json` | deterministic run id, look up an earlier result | a COMPLETED request never acts again; mappings are not lost | `GovernedRun` |
| Quota (`quota.py`, `quota_autonomy_stage.py`) | `.cache/tenant_quota_store.v1.json` | charge a run, charge tokens | counters are exact, limits hold before side effects | `GovernedRun` |
| Progressive autonomy (`autonomy.py`) | `.cache/autonomy_store.v1.json` | read the mode, gate a run, record an outcome | full_auto is earned and can be lost | `Autonomy`, `AutonomyHistory` |
| Execution (`workflow_exec_steps.py`, `workflow_exec_mod_b.py`) | node outputs, token budget | MOD_A, APPROVAL, MOD_B | side effects only with an authority | `GovernedRun` |
| Finalization and quality gates (`execute_finalize_stage.py`, `quality_gate.py`) | summary, closeout, suspend | verdict, settlement, evidence | what is recorded is what happened | `GovernedRun` |
| Resume (`runner_resume.py`) | the evidence of a SUSPENDED run | `--resume --approve true` | resumed once, by a human | `GovernedRun` |
| Evidence writer (`src/evidence/writer.py`) | `evidence/<run>/*`, integrity manifest | write, seal | the manifest covers the evidence | `GovernedRun` |
| Run life cycle (`orchestrator/state_machine.v1.json`, `src/shared/status.py`) | - | - | abstract specification | `RunLifecycle` |
| Write-ahead log (`src/shared/wal.py`) | `<store>.wal.jsonl` and the store it protects | transaction, recover, mark committed, truncate | recovery brings a store up to date and never back | `Wal` |
| Work items (`src/ops/work_item_*.py`, `work_intake_exec_ticket.py`, close, claim and hand-over commands) | intake, leases, claims, states, run log | execute, close, reopen, claim, release, transfer, build the intake | one executor per ticket; its output once; legal transitions only | `WorkItems`, `TicketLifecycle` |
| Airunner and doer loop (`src/prj_airunner`, `src/ops/auto_loop.py`, `doer_loop_lock.py`) | job index, heartbeat, tick lock, loop lock, smoke processes | tick, enqueue, start, poll, give up, archive, seed, loop | jobs are started once, watched, bounded and ended; one tick and one loop at a time | `Airunner` |
| Roadmap runner (`src/roadmap/state.py`, `orchestrator.py`, `orchestrator_runtime.py`, `roadmap_state_sync.py`) | `roadmap_state.v1.json` | follow, finish, pause, resume, state sync | milestones in order; drift, quarantine, pause and progress are not lost | `RoadmapState`, `Roadmap` |

`PROJECT.json` lists the remaining parts (providers, kernel API, GitHub
operations, planner, benchmark, cockpit, CI) with the reason each
is left out: mostly pure functions of one document, or I/O without shared state.

### How the components interact

One process runs the stages in the order of `run_envelope`:

    validate -> governor (lock) -> routing -> idempotency -> quota + autonomy
             -> MOD_A -> APPROVAL -> MOD_B -> settle quota -> record outcome
             -> summary, closeout, suspend, manifest -> release the lock

Processes interact only through files. A run that stops at APPROVAL leaves a
SUSPENDED summary; later a human starts `handle_resume`, which reads that
evidence, passes the governor again, performs MOD_B alone and rewrites the
summary. The operator edits `health_brain.v1.json` at any time and deletes a
left-over lock file when no runner is active (`docs/OPERATIONS/runbook-day1.md`).

The other components are commands of `src/ops/manage.py`, again short-lived
processes over JSON files: executors and operators over the stores of the work
items; ticks, a loop around them and the background processes they start over the
job index; `roadmap-follow` and `roadmap-finish`, which may run for an hour, and
the operator's commands over the state of the roadmap. The write-ahead log sits
under the stores of both worlds, the runner's and the work items'.

### What is hard

* every store is read in one stage, kept in memory, and written back whole in a
  later one, the quota entry even twice from the same copy;
* the only exclusion is the existence of one file, and it is switched off by
  `max_parallel_runs > 1`;
* outside the runner the exclusions are locks with a time to live, checked and
  then written, or nothing at all;
* a loop keeps a state in memory while the commands it calls change the file;
* a run ends by `SystemExit` in some fifteen places, and only a `finally` clause
  that must already know about the lock gives it back;
* processes are killed between any two writes;
* a run id is shared by every launch of the same request, so a run has a history
  of attempts, suspensions and resumes;
* side effects cannot be undone by the checks that come after them.

The full list, each at its line, is under "hazards" in `PROJECT.json`.

## 2. Modules

| Module | Contents |
|---|---|
| `Autonomy` | pure functions of `autonomy.py` |
| `AutonomyHistory` | one autonomy record driven by every sequence of outcomes |
| `GovernedRunState` | constants with their assumption, shared files, process-local state, `Init` |
| `GovernedRun` | the steps, `Spec`, `FairSpec`, the properties |
| `RunLifecycle` | abstract specification: what a run id may go through |
| `Wal` | the log of one store, its writers, failed writes, crashes and torn lines |
| `WorkItems` | executors, operators and the intake build over the stores of the tickets |
| `TicketLifecycle` | abstract specification: what a ticket may go through |
| `Airunner` | ticks, loops, jobs, smoke processes and both locks |
| `RoadmapState` | pure functions of `state.py`, drift and bootstrap |
| `Roadmap` | follow, finish and the operator over the state of the roadmap |
| `GovernedRun_proofs`, `AutonomyHistory_proofs`, `Wal_proofs`, `WorkItems_proofs`, `Airunner_proofs`, `Roadmap_proofs` | theorems about the module of that name |
| `GovernedRunEvidence_proofs` | theorems about what a run leaves behind: evidence, stores, life cycle |
| `WorkItemsStores_proofs` | theorems about leases and claims |
| `MCGovernedRun`, `MCWal`, `MCWorkItems`, `MCAirunner`, `MCRoadmap` | values for TLC |

### Correspondence with the code

* A process is an element of `Procs`; `pc[p]` is its next step and `job[p]` its
  memory: the envelope, the run id, the governor configuration it read, its
  copies of the stores, the tokens used, and the result. `Exit` forgets it.
* The files are `governor`, `lockFile`, `mappings`, `quota`, `autonomy`,
  `envelope` (`request.json`), `evidence` (`summary.json`, `closeout.v1.json`,
  `suspend.json`) and `manifest` (what the integrity manifest has hashed).
* Every file access between which another process or a kill can come is an action
  of its own: load and save of a store are never one step. `write_text_atomic`
  (temporary file, fsync, rename) justifies one step per write.
* `effects`, `approved`, `charged`, `spent`, `outcomes` and `torn` are history
  variables: they record what happened and no guard reads them.
* A request stands for its envelope; the constants `NeedsApproval`, `MayWrite`,
  `StrictDeny`, `Unroutable`, `Forceable` are the properties of envelopes the
  code distinguishes. An unforced request is its own run id (the deterministic
  id); a fresh timestamp id is the number of the launch that draws it.
* `GateAction` is the action of the quality gate that fails. It is a constant
  because the gate configuration is.
* `Block` exits without releasing the lock: `governor_stage` raises before
  `run_envelope` has received `lock_acquired`.
* `StartResume` reads the summary, `AcquireLock` comes later, nothing reads the
  summary again.

Write-ahead log (`Wal`):

* `log` is the set of readable lines, `store` the number of the write whose value
  the file has. `Begin` appends PENDING, `Write` or `WriteFails` replaces the file
  or not, `Commit` appends COMMITTED; `Recover`, `Replay`, `Confirm` and
  `Recovered` are the start-up of the docstring, one action per append and per
  write; `ReadLog` and `Truncate` are the two halves of `truncate`.
* `CrashInAppend` may leave a line without its end (`unended`): the next line is
  written on to it and `_read_entries` skips both.

Work items (`WorkItems`):

* A store is loaded whole, changed and saved whole: two actions, with the copy in
  `job[a]`. An execution is, per ticket: pick, load and save the lease, look up
  the state, load and save IN_PROGRESS, record, act, load and save the result,
  record, load and save without the lease.
* What the executor reads of a ticket is a record of the Booleans its decision
  uses; a fingerprint is the version of the ticket's source.
* `validate_transition` raises: the command ends where it is (`Refuse`), the lease
  stays until its ttl.

Airunner (`Airunner`):

* `pc[r]` is the tick of a runner, `loop[r]` the loop around it; `job[r]` is the
  copy of the index that `update_jobs` changes job by job (`Visit`) and saves at
  the end. A job's age and the time since its last poll have the three values the
  code tells apart.
* A smoke process is its number in `alive`; it may write its result or not, and
  end at any moment between two polls, or never.

Roadmap (`Roadmap`):

* `file` is the state, `mem[r]` the copy `follow` holds while the dry run, the
  apply and the gates run, `keep[r]` the one `finish` loaded when it began. Every
  `save_state` in follow is an assignment of `mem[r]` to `file`.
* Times count down: a quarantine of 0 is over. Backoff and quarantine count from
  the time the call of follow began (`elapsed`), as in the code.
* A milestone is its place in the roadmap, the files bootstrap looks for
  (`built`), and the versions of the roadmap that give it an apply_only step.

`PROJECT.json` ("map") names the source lines of every definition.

### Environment

`Crash` kills a process at any step (at most `MaxCrashes`), `ClearLock` is the
runbook's cleaning and happens only when every process is idle, `Reconfigure`
replaces the governor file. `MaxLaunches` bounds the command lines started.
`Finished` is the only state in which nothing is left to do, so a deadlock found
by TLC would be a real one; deadlock is checked in every run.

Likewise processes are killed at any step in the other modules, up to a named
bound: between the writes of an execution, between the start of a smoke process
and the save of the index, in the middle of an append, during an apply. Leases,
claims and locks run out with the clock; smoke processes hang, die or lose their
result; the roadmap is edited and files of the workspace are removed at any moment.

### Assumptions about concurrency

The stores outside the runner have no lock. The models state as a constant what
must not happen for the properties to hold, and TLC confirms that it is needed:

| Constant | Value in the runs | Meaning | Without it |
|---|---|---|---|
| `MaxParallel` | 1 | the lock of the governor is used | admissions are lost and the limits passed; `SideEffectsGoverned` still holds |
| `Alone` (`Wal`) | TRUE | one process at a time uses a store | `truncate` drops what was appended after it read the log |
| `RecoverFirst` (`Wal`) | TRUE | a process replays the log when it starts, as the docstring asks | the writes of crashed processes stay out of the store |
| `Overlap` (`WorkItems`) | FALSE | no store is loaded between another process's load and save of it | TLC violates `LeaseExclusive` in 9 steps, `ActedOnce` in 19 |
| `Overlap` (`Airunner`) | FALSE | no runner is between check and write of a lock while another one is, no lock runs out under its working owner, no job is seeded during an update | TLC violates `Covered` in 4 steps |
| `SyncAfterEdit` (`Roadmap`) | FALSE | `roadmap-state-sync` is not run between an edit and the next follow or finish | TLC violates `DriftKept`: sync records the new hash and takes nothing back |

Production code calls neither `recover` nor `truncate`; the model follows the
usage in the docstring of `wal.py`. `RunIdOf` is in the run the executor itself:
the code hashes the limit and the day, so two executors with one limit share a run
id, and one whose lease has run out then releases the lease of the other. The
theorem about leases has this as its premise `OwnRunId`, those about the output do
without it.

Where a theorem needs more than these constants, its premise is named in the
module that proves it, and TLC has a counterexample without it:

| Premise | Theorems | Without it |
|---|---|---|
| `Undisturbed`: nobody resumes, or there is only one process | `CompletionFinal`, `LifecycleImplemented` of the pipeline | the run `double_resume` |
| `MaxCrashes = 0` (and `Resumers = {}`) | `LifecycleImplemented` (`EffectsWithinQuota`) | a killed run is neither running nor decided; tokens in the memory of a killed process, and those of a resume, are never charged |
| `OneRunner`: the calls of follow and finish come one after the other | `QuarantineKept`, `ProgressIsKept` | two calls at once: the save of one overwrites the quarantine (violated in 8 states), or the completed milestone (8 states), of the other |
| `Earnable`: `full_auto` is not configured, the threshold is not 0 | `ModeMoves` | an intent configured `full_auto` is demoted by a success |

## 3. What is checked

| Run | Instance | Shows |
|---|---|---|
| `autonomy_history` | 8 outcomes, min_samples 3, threshold 4/5 | the record is a digest of the past; full_auto is earned, lost only for cause |
| `pipeline` | 2 processes, 2 requests (one forceable), 3 launches, 2 runs and 3 tokens per day | mutual exclusion, exact counters, token quota before effects, COMPLETED is final, no outcome lost |
| `resume` | 1 process, 4 launches or resumes of 3 requests (one without a route), normal / report_only / quarantine switched at any moment, human_review | every effect has an authority; request.json precedes the rest; implements `RunLifecycle` |
| `crash` | 2 processes, 4 launches, 2 kills anywhere, lock cleaning, gate action `suspend` | what is recorded COMPLETED has acted; evidence is sealed; mappings stay |
| `tickets` | 2 agents, each executor and operator, 2 tickets (one that is planned only unless decided), 2 commands, 1 kill, leases and claims of 1 time unit | the output is written once; leases and claims are exclusive; APPLIED is real; implements `TicketLifecycle` |
| `wal` | 2 processes in turn, 4 writes, failed writes, 3 crashes, 1 torn line | recovery finds everything that was begun; the store never goes back |
| `airunner_jobs` | 2 runners with loops, 2 smoke jobs of one tick id and, of the next one, a job that needs the network, 1 kill | jobs are started once, watched, bounded, and only move forward; the locks cover their owners |
| `airunner_live` | 2 runners, a smoke job that may hang and a seeded job, 1 kill | every job ends; the tick lock is never in the way for good |
| `roadmap` | 1 runner (follow and finish), 3 milestones, 2 versions of the roadmap, 1 failure, stop or kill, 1 command, a quarantine of 2 time units | order, drift, quarantine, pause and progress; the roadmap is completed |

The bounds are small but reach the boundaries: both quotas are exhausted, a
request is launched again after each outcome, a suspended run is resumed and its
request launched again, the ratio of the autonomy record is met and lost, a kill
follows a kill, the lock is found taken; a lease runs out under its owner and the
ticket is taken over; a write fails and is followed by another, a crash hits a
recovery; a second loop finds the first one's lock, a tick id comes again; a third
failure comes after two attempts that were planned only, a milestone is taken back
by a new version while a call works on it, the time of a backoff is up before the
failure is known.

Symmetry is used where only invariants and action properties are checked
(`tickets`, `airunner_jobs`).

All type invariants are proved (section 4). Those of `Wal`, `WorkItems` and
`Roadmap` are in no run, those of `GovernedRun` and `Airunner` are also checked.
The inductive invariants of section 4 were tried with TLC on such instances before
they were proved.

Three more runs check a statement of the repository's documents or comments and
find it violated by what the code does. `PROJECT.json` quotes the statements.

| Run | Statement | What happens |
|---|---|---|
| `double_resume` | "Only SUSPENDED runs can be resumed." | two resumes of one run: the second acts on a COMPLETED run |
| `stuck` | IN_PROGRESS: "Active execution in progress." | a ticket that is only to be planned stays IN_PROGRESS for good: the table has no transition out of it to PLANNED or NOOP |
| `lost_progress` | "Advance exactly one milestone" | finish, promoting the bundle, saves the state it loaded when it began over the milestone follow has just completed |

### Observations without a run of their own

Found while modelling, faithful to the code in the modules:

* a run denied by the decision boundary or by the intent quarantine leaves
  `governor_lock` behind: `governor_stage` raises before `run_envelope` knows that
  it has the lock. `LockFreed` is violated as soon as the configurations of `resume`
  (a quarantine) or a denied request are added to `pipeline`;
* the quality gates run after MOD_B has written, and the default action `reject`
  turns a run that waits for approval into FAILED, which no resume accepts;
* a resumed MOD_B has no token quota and is not charged (`runner_resume.py:220`);
* reopening a closed ticket always raises, as no transition leaves CLOSED, although
  `maintenance_cmds_planner.py:107` offers `close|reopen`;
* an intent configured `full_auto` that fails twice and then succeeds is demoted by
  the success, which is the third outcome: `autonomy.py:115` looks at the last three
  only when there are three. `ModeMovesForCause` is violated for such a policy;
* with a torn line an old value may be replayed over a newer one (`Wal`, `torn > 0`);
* a job that writes its result and exits between the look for the result and the
  look for the process ends as JOB_NO_RESULT;
* a roadmap paused while follow works on a milestone is no longer paused when follow
  saves its copy (`orchestrator.py:929`), although
  `docs/OPERATIONS/CODEX-UX.md:52` promises that later calls wait for the resume;
  `PauseHolds` is about the other pauses;
* pausing and resuming clears a backoff; a backoff shorter than the failed step is
  over when it begins; attempts are counted by `--no-apply` and never reset by
  success; finish makes the session file and bootstrap then counts M3.5 as done;
  once the ISO files are removed every call ends in ISO_MISSING.

### Abstract specification

`RunLifecycle` says what a run id may go through: not started, RUNNING, then
COMPLETED, FAILED or SUSPENDED; effects only while RUNNING; COMPLETED is final.
It differs from `state_machine.v1.json`, which calls FAILED terminal, where the
code does: the idempotency stage stops only at COMPLETED, so a FAILED or
SUSPENDED run starts again when its request is launched again. `GovernedRun`
implements it (`ImplementsLifecycle`) under the mapping "RUNNING while a process
is between the charge and the summary of the run, otherwise what summary.json
says". The mapping holds for one runner that also resumes (`resume`) and for two
(`pipeline`, with the fairness that decides every started run,
`ImplementsFairLifecycle`); it does not hold when two resumes overlap
(`double_resume`) or after a kill in mid-run, whose run is neither running nor
decided.

`TicketLifecycle` says what a ticket may go through, the part of the `work_item`
machine that the commands use: WAITING, STARTED, ACTED, APPLIED, CLOSED, never
back and acting once. `WorkItems` implements it, kills and expired leases
included, under the mapping `Phase`, which tells STARTED from ACTED by whether the
output has been written; this is also proved.

### Fairness

`FairSpec` assumes weak fairness of the steps of each process that has been
started: the scheduler eventually runs a live process, and no step of a process
waits for another one, since the lock is tried once and a process that finds it
taken exits. Nothing is assumed of launches, resumes, the operator or kills.

`FairSpec` of `Airunner` assumes that ticks are run again and again (the loop and
the watchdog call them on a schedule), that a tick that has begun goes on unless it
is killed, that time passes for jobs and locks; nothing is assumed of smoke
processes, which may hang. `FairSpec` of `Roadmap` assumes that a call that has
begun goes on, that finish is called again (strongly: other commands may always be
in between), that time passes, and that a paused roadmap is resumed in the end.
Failures and kills are bounded, not unfair.

## 4. What is proved

Every safety property and action property that a passing run checks is also a
theorem, for every value of the constants that satisfies the assumptions of its
module. "map" lists the model, "theorems" in `PROJECT.json` what is proved about it.
The pattern is the same everywhere: lemmas say what each action does to the parts of
the state that the argument needs (a step of a process is local to it, an edge of
its program, and writes at most one store; a tick marks one job; a call looks at the
file, works, or promotes), and the invariants are proved over these few kinds of
step.

### The governed run

`GovernedRun_proofs`, for any number of processes, requests, launches and kills, any
limits, under `GovernedAssumption` and `AutonomyAssumption`:

* `TypeCorrect`: `Spec => [](TypeOK /\ EnvelopeFirst)`. Types alone are not
  inductive: `StartResume` takes its envelope from the evidence, so the proof
  needs that a run with a summary has a `request.json`; `EnvelopeFirst` says so,
  with what holds on the way there.
* `MutualExclusion`: `Spec => []OneRunAtATime`. The property is inductive: a
  step inside keeps who is inside (`StepKeepsExclusion`, `InsideStep`), the only
  way in needs the lock file to be absent, and cleaning needs everyone to be idle.
* `GovernedEffects`: `Spec => SideEffectsGoverned`. The invariant `EffectInv`
  says what a process has established when it reaches a step (not denied, not
  quarantined, gate computed from its autonomy record, no need to wait, or
  approved by a human); `EffectStep` shows that only MOD_B acts, and only for its
  own run. Nothing in the argument uses the lock, so the property holds for any
  `MaxParallel`.
* `QuotaExact`: if `MaxParallel = 1`, `Spec => []AdmissionsCounted`. `QuotaInv`
  adds that the copy a process holds equals the store until it charges and is one
  run behind from then on; `MutualExclusion` makes that stable. Without the lock
  it is false.

`GovernedRunEvidence_proofs`, with any number of resumes unless a premise says
otherwise:

* `ManifestSeals`, `EnvelopesStored`, `CompletionsReal`: `EvidenceSealed`,
  `EnvelopeFirst` and `CompletionHasEffect` hold for any `MaxParallel`, kills
  included. `CompletionInv` needs that a process past MOD_B has performed it
  (`Performed`), and that launches of one run id carry the same envelope
  (`NameInv`): a resume completes what another process has begun.
* `MappingsKept`, `OutcomesKept`, `TokensKept`: if `MaxParallel = 1`, `Spec` implies
  `[]MappingsComplete`, `[]OutcomesCounted`, `[]TokensAccounted`. A store is written
  back whole from an old copy, so the invariants (`MappingInv`, `RecordInv`,
  `TokenInv`) say how the copy of the process inside compares with the store and
  with what has happened since; the lock makes that comparison stable.
* `EffectsWithinQuota`: `Spec => TokenQuotaBeforeEffects`, if moreover nobody is
  killed or resumes. The check that stands before MOD_B counts from the copy of the
  quota, and only then has that copy all that was spent.
* `CompletionFinal`: `Spec => CompletedIsFinal`, if `MaxParallel = 1 /\ Undisturbed`.
  `FinalInv` adds that a process past the idempotency stage works on a run that is
  not COMPLETED (`Unfinished`): the look-up of an earlier result says so for a
  deterministic run id, and the run id of a forced launch is new and nobody else's
  (`NumbersFresh`, `NumbersOwned`).
* `LifecycleImplemented`: `Spec => ImplementsLifecycle`, the refinement of
  `RunLifecycle`, if also `MaxCrashes = 0`. Every step of a process is a step of the
  life cycle of its run or a stutter (`ProcessImplements`); `DecidedInv` says which
  verdict a process carries at which step.

### The autonomy record

`AutonomyHistory_proofs`, for any policy and histories of any length:

* `RecordIsDigest`: `Spec => []DigestOfHistory`; `AutonomyEarned`:
  `Spec => []FullAutoIsEarned`; `ModeMoves`: `Earnable` and `Spec` imply
  `ModeMovesForCause`. The record keeps two counters and three outcomes. The lemmas
  show that this is enough: counting over a sequence that grows (`SuccessesAppend`),
  the window of the last three (`RememberLastThree`), two failures among three as a
  cardinality (`TwoFailures`), and that a threshold once met over enough runs was met
  at some place of the history for good (`MetStays`).

### The write-ahead log

`Wal_proofs`, for any number of processes, writes, crashes and torn lines:

* `TypeCorrect`: `Spec => []TypeOK`, for every use of the log.
* `RecoveryComplete`, `LogComplete`, `StoreForward`: if `Alone /\ RecoverFirst`,
  `Spec` implies `[]RecoveredIsLatest`, `[]LogCoversStore` and `ForwardWhileWhole`.
  The inductive invariant has two parts: `Covers` (the log can replay exactly what
  the store may lack) and `Knows` (what the memory of a process at each step says
  about log and store), both while `torn = 0`.

### The work items

`WorkItems_proofs`, for any tickets, agents, edits, kills and lifetimes and any
sharing of run ids:

* `TypeCorrect`: `Spec => []TypeOK`, for every interleaving.
* `OutputOnce`, `AppliedSound`, `LifecycleImplemented`: if `~ Overlap`, `Spec`
  implies `[]ActedOnce`, `[]AppliedIsReal` and the refinement of `TicketLifecycle`.
  `LifecycleInv` says how state, output and run log of a ticket go together
  (`Settled`), what an executor has established at each step (`Step`), that what it
  relies on is still so (`Relies`), that only one process is about to save the
  states (`OneSaver`) and only one works on a started ticket (`OneWorker`). The
  leases play no part in it: the transition table alone keeps the second one out.

`WorkItemsStores_proofs`, on the same premise:

* `LeasesExclude`: `~ Overlap` and `OwnRunId` and `Spec` imply `[]LeaseExclusive`.
  `LeaseInv` says that the copy of the one process about to save the leases differs
  from the store in its own ticket only (`CopyOfLeases`, `OneLeaseWriter`), that the
  lease it takes over has run out (`Lapsed`), and that an executor whose lease still
  runs is the one the store names (`Granted`).
* `ClaimsLast`: `~ Overlap` and `Spec` imply `[]ClaimKept`. `ClaimInv` says the same
  of the claims, where a claim that still runs is renewed or given up by its owner
  and never handed on (`ClaimAtHand`), and that a promise to an agent lasts no longer
  than the claim in the store (`Promised`). Transfers are a release and a claim; cut
  short in between they leave no owner, never two.

### The airunner

`Airunner_proofs`, for any runners, jobs, kills, ages and maximum of running jobs:

* `TypeCorrect`: `Spec => []TypeOK`, whatever overlaps.
* `WorkCovered`, `JobsStartedOnce`, `NoneUnwatched`, `NeverTooMany`,
  `JobsMoveForward`: if `~ Overlap`, `Spec` implies `[]Covered`, `[]StartedOnce`,
  `[]ProcessesWatched`, `[]RunningBounded` and `ForwardOnly`. None of them is
  inductive. `JobsInv` adds who may be inside which lock (`Locked`), that the copy a
  tick updates is ahead of the index on disk (`Copies`), how starts, losses and
  results of a job go together while a start is not saved (`Counted`), that a
  process no tick has lost is of a job still seen as running (`Watched`), and that
  the number a tick counts is at least that of the jobs that run in its copy
  (`Bounded`), a statement about cardinalities of any size.

### The roadmap

`Roadmap_proofs`, for any runners, milestones, versions, failures and commands,
under `RoadmapAssumption` and `RunnerAssumption` (one conjunct, that every set of
places in the roadmap has a first one, is true of all natural numbers and is
stated because it needs induction):

* `TypeCorrect`: `Spec => []TypeOK`.
* `MilestonesInOrder`: `Spec => []InOrder`. The property is not inductive: the
  invariant `Inv` adds that every copy of the state, in the file, in a follow and in
  a finish, has only earned milestones completed (`Good`), and that the milestone at
  hand is the next one of the copy in memory (`Busy`). No save can break it,
  whichever runner saves whatever old copy.
* `DriftSound`: `~ SyncAfterEdit /\ Spec => []DriftKept`, from the same invariant,
  whose states are not stale; that a state in use has a hash (`sha # 0`) is part of
  it, for a milestone completed under no hash could not be taken back.
* `PauseKept`: `Spec => PauseHolds`, for any number of runners: until a promotion
  overwrites the state, a pause that found no milestone at work is in the file and
  none is at work (`PauseInForce`).
* `QuarantineKept`, `ProgressIsKept`: if `OneRunner`, `Spec` implies
  `QuarantineHolds` and `ProgressKept`. The file knows of the whole quarantine that
  is left (`QuarantineInForce`); what is in the memory of a milestone at work knows
  of everything completed in the file (`MemoryAhead`); and what may be saved has been
  bootstrapped (`BootstrappedOnce`), without which a bootstrap could drop milestones
  whose files were removed.

### Only model-checked

Liveness: `LockFreed`, `ImplementsFairLifecycle`, `JobsEnd` and `EventuallyDone`. The
prover handles neither fairness nor ENABLED.

## 5. What is not modelled

Tenants, days and intents are one each: the stores are keyed by them and written
whole, so races between tenants exist only with `max_parallel_runs > 1`. DLQ
records are written and never read. Disk failures, unreadable stores (the code
falls back to defaults) and clock skew are left out. `validate_stage` rejects an
envelope before any shared file is touched, so only valid envelopes are launched.
Replay is a forced launch. The text the quality gates judge is abstracted to
`GateAction`.

Also left out, with what could go wrong there:

* runner: names of DLQ files have a resolution of one second (`dlq.py:90`);
  `suspend.json` outlives the suspension (`list_cmds.py:210`); the quota day is fixed
  at the load (`quota_autonomy_stage.py:47`); a governor file that cannot be parsed
  counts as the default (`runner_config.py:31`); two writers of one store share the
  temporary name (`utils.py:52`);
* airunner: the commands that seed and clear the loop's lock by hand
  (`maintenance_lease_cmds.py`), the runtime budget and its state, read before the
  lock is taken and written after it (`airunner_tick.py:138`), GitHub and deploy
  jobs, the intake build, auto mode and reports of a tick;
* work items: how the intake is derived from its sources; reports;
* roadmap: what the steps of a milestone do (`executor.py`), the reports finish
  collects and the action register, `--until`, change proposals, duplicate milestone
  ids (the model assumes that they are distinct);
* GitHub operations, planner, benchmark, cockpit, kernel API, extensions and scripts:
  functions of one document each, or I/O; `PROJECT.json` has the reasons.

## 6. Plan

What remains worth doing, in this order:

1. What holds of kills: `RunLifecycle` with an abandoned run, so that the refinement
   is checked and proved with `MaxCrashes > 0`; a bound on what a kill or a resume
   can leave uncharged, in place of the premises of `EffectsWithinQuota`.
2. Two runners over one roadmap, with the refinement of an abstract roadmap, and
   what is left of quarantine and progress when their calls overlap.
3. GitHub and deploy jobs of the airunner with their polling, and the maintenance
   commands over its locks.
