---------------------------- MODULE GovernedRunState ----------------------------
(***************************************************************************)
(* The state of the governed run pipeline: the files the runner processes  *)
(* share and the local state of each process.  GovernedRun has the steps.  *)
(***************************************************************************)
EXTENDS Autonomy

CONSTANTS
    Procs,          \* runner processes
    Resumers,       \* the processes a human uses to resume runs
    Requests,       \* request envelopes; unforced, a request is its own run id
    Forceable,      \* requests also launched with force_new_run
    NeedsApproval,  \* risk_score >= the approval threshold
    MayWrite,       \* not dry_run and side_effect_policy # "none"
    StrictDeny,     \* the decision boundary of the intent is strict_deny
    Unroutable,     \* no route in the strategy table
    GovernorConfigs,\* the contents health_brain.v1.json may have
    MaxParallel,    \* concurrency.max_parallel_runs
    MaxRuns,        \* max_runs_per_day
    MaxTokens,      \* max_est_tokens_per_day
    ModATokens,     \* tokens one MOD_A charges
    ModBTokens,     \* tokens one MOD_B charges
    GateAction,     \* action of the quality gate that fails, "pass" if none does
    MaxLaunches,    \* bound: command lines started
    MaxCrashes,     \* bound: processes killed
    NoRequest       \* no envelope: of an idle process, of a run without request.json

\* Run ids: the deterministic id of a request, or a fresh timestamp id, which
\* is modelled by the number of the launch that draws it.
Runs == Requests \cup (1 .. MaxLaunches)

RunStates == {"COMPLETED", "FAILED", "SUSPENDED"}
SummaryStates == RunStates \cup {"NONE"}
Modes == {"normal", "report_only"}
Governor == [mode: Modes, intents: SUBSET Requests, workflows: SUBSET Requests]
Quota == [runs: Nat, tokens: Nat]
Evidence == [summary: SummaryStates, closeout: SummaryStates, suspend: BOOLEAN]

ASSUME GovernedAssumption ==
    /\ Resumers \subseteq Procs
    /\ Requests \cap Nat = {}
    /\ NoRequest \notin Requests \cup Nat
    /\ Forceable \subseteq Requests
    /\ NeedsApproval \subseteq Requests
    /\ MayWrite \subseteq Requests
    /\ StrictDeny \subseteq Requests
    /\ Unroutable \subseteq Requests
    /\ GovernorConfigs \subseteq Governor
    /\ GovernorConfigs # {}
    /\ MaxParallel \in Nat \ {0}
    /\ MaxRuns \in Nat \ {0}
    /\ MaxTokens \in Nat \ {0}
    /\ ModATokens \in Nat
    /\ ModBTokens \in Nat
    /\ GateAction \in {"pass", "warn", "retry", "reject", "suspend", "escalate"}
    /\ MaxLaunches \in Nat
    /\ MaxCrashes \in Nat

VARIABLES
    \* shared files
    governor,   \* governor/health_brain.v1.json
    lockFile,   \* .cache/governor_lock exists
    mappings,   \* requests in .cache/idempotency_store.v1.json
    quota,      \* the tenant's entry in .cache/tenant_quota_store.v1.json
    autonomy,   \* the intent's entry in .cache/autonomy_store.v1.json
    envelope,   \* evidence/<run>/request.json, NoRequest while there is none
    evidence,   \* evidence/<run>: summary.json, closeout.v1.json, suspend.json
    manifest,   \* evidence/<run>: what integrity.manifest.v1.json has hashed
    \* processes
    pc,         \* the next step of each process
    job,        \* the local state of each process
    launches,   \* command lines started so far
    crashes,    \* processes killed so far
    \* history
    effects,    \* side effects MOD_B performed, per run
    approved,   \* runs a human has approved
    charged,    \* runs admitted by the quota stage
    spent,      \* tokens consumed by modules, charged to the tenant or not
    outcomes,   \* outcomes the runs reported to the autonomy store
    torn        \* runs whose process was killed while it handled their evidence

files == << governor, lockFile, mappings, quota, autonomy, envelope, evidence, manifest >>
procs == << pc, job, launches, crashes >>
history == << effects, approved, charged, spent, outcomes, torn >>
vars == << files, procs, history >>

\* Steps of a run, in the order run_envelope takes them ...
RunSteps == {"governor", "checks", "route", "idemLoad", "idemSave", "quotaLoad",
             "charge", "modA", "approval", "modB", "settle"}
\* ... of a resume ...
ResumeSteps == {"rGovernor", "rChecks", "rModB", "rAutonomy"}
\* ... and the steps that record how it ended.
RecordSteps == {"autonomy", "summary", "closeout", "suspend", "manifest", "release"}
Steps == {"idle"} \cup RunSteps \cup ResumeSteps \cup RecordSteps

\* The local state of a process: the envelope and run id it works on, the
\* governor configuration it read at its start, whether it created the lock
\* file, its copies of the stores, the tokens its modules used, what
\* execute_workflow returned and what the run is to be recorded as.
Job == [req: Requests \cup {NoRequest}, rid: Runs \cup {NoRequest},
        path: {"run", "denied", "resume"}, forced: BOOLEAN,
        governor: GovernorConfigs, locked: BOOLEAN, mappings: SUBSET Requests,
        quota: Quota, autonomy: AutonomyRecord, gate: BOOLEAN, used: Nat,
        executed: RunStates, state: RunStates]

NoJob == [req |-> NoRequest, rid |-> NoRequest, path |-> "run", forced |-> FALSE,
          governor |-> CHOOSE g \in GovernorConfigs : TRUE, locked |-> FALSE,
          mappings |-> {}, quota |-> [runs |-> 0, tokens |-> 0],
          autonomy |-> InitialRecord, gate |-> FALSE, used |-> 0,
          executed |-> "FAILED", state |-> "FAILED"]

NoEvidence == [summary |-> "NONE", closeout |-> "NONE", suspend |-> FALSE]

Init ==
    /\ governor \in GovernorConfigs
    /\ lockFile = FALSE
    /\ mappings = {}
    /\ quota = [runs |-> 0, tokens |-> 0]
    /\ autonomy = InitialRecord
    /\ envelope = [r \in Runs |-> NoRequest]
    /\ evidence = [r \in Runs |-> NoEvidence]
    /\ manifest = [r \in Runs |-> NoEvidence]
    /\ pc = [p \in Procs |-> "idle"]
    /\ job = [p \in Procs |-> NoJob]
    /\ launches = 0
    /\ crashes = 0
    /\ effects = [r \in Runs |-> 0]
    /\ approved = {}
    /\ charged = 0
    /\ spent = 0
    /\ outcomes = 0
    /\ torn = {}

-------------------------------------------------------------------------------
At(p, step) == pc[p] = step

Goto(p, step) == pc' = [pc EXCEPT ![p] = step]

Exit(p) ==
    /\ pc' = [pc EXCEPT ![p] = "idle"]
    /\ job' = [job EXCEPT ![p] = NoJob]

===============================================================================
