-------------------------------- MODULE Roadmap --------------------------------
(***************************************************************************)
(* The roadmap runner of a workspace (src/roadmap/orchestrator.py and      *)
(* orchestrator_runtime.py): calls of roadmap-follow and roadmap-finish,   *)
(* the operator's roadmap-pause, roadmap-resume and roadmap-state-sync, and*)
(* the file they share, roadmap_state.v1.json.                             *)
(*                                                                         *)
(* roadmap-follow loads the state, checks that it may go on, and takes the *)
(* next milestone through a dry run, the apply and the gates, each a       *)
(* process of its own; it saves the state it holds in memory after each.   *)
(* roadmap-finish calls follow again and again and does its own work after *)
(* each call: reports that may stop it, and the promotion bundle, a        *)
(* milestone it completes itself, in the state it loaded when it began.    *)
(* There is no lock on the file.                                           *)
(*                                                                         *)
(* A load and the save that follows it with nothing slow in between are    *)
(* one action.                                                             *)
(*                                                                         *)
(* Operators said to be faulty are used by no specification: each is a     *)
(* slip the code could have had in the operator that follows it.           *)
(***************************************************************************)
EXTENDS RoadmapState

CONSTANTS
    Runners,        \* the processes that call roadmap-follow and roadmap-finish
    Iso,            \* M1
    Session,        \* M3.5: finish itself makes the file bootstrap knows it by
    Bundle,         \* M8.2, the promotion bundle
    IsoRequired,    \* iso_core_required of the roadmap
    SyncAfterEdit,  \* may roadmap-state-sync run between an edit of the roadmap and the
                    \* next follow or finish?
    MaxTroubles,    \* bound on what goes wrong: failures, stops, processes killed
    MaxCommands     \* bound on the operator's commands

ASSUME RunnerAssumption ==
    /\ {Iso, Session, Bundle} \subseteq Milestones
    /\ IsoRequired \in BOOLEAN /\ SyncAfterEdit \in BOOLEAN
    /\ MaxTroubles \in Nat /\ MaxCommands \in Nat

VARIABLES
    file,       \* roadmap_state.v1.json
    version,    \* the version of the roadmap
    built,      \* the milestones all of whose files are in the workspace
    pc,
    call,       \* what each runner runs: finish, follow, or follow with --no-apply
    keep,       \* the state a finish loaded when it began
    mem,        \* the state a follow has in memory
    at,         \* the milestone at hand
    elapsed,    \* how long ago the follow at hand began
    result,     \* what follow told finish
    earned,     \* history: the milestones that passed their gates, were found by
                \* their files, or were promoted
    banned,     \* history: what is left of the day that a third failure costs
    held,       \* history: has the operator paused the roadmap, no milestone being
                \* at work?
    overwrote,  \* history: has a finish saved its state over a newer one?
    troubles,
    commands

runners == << pc, call, keep, mem, at, elapsed, result >>
history == << earned, banned, held, overwrote >>
counters == << troubles, commands >>
vars == << file, version, built, runners, history, counters >>

Init ==
    /\ file = DefaultState
    /\ version = 1
    /\ built = {}
    /\ pc = [r \in Runners |-> "idle"]
    /\ call = [r \in Runners |-> "none"]
    /\ keep = [r \in Runners |-> DefaultState]
    /\ mem = [r \in Runners |-> DefaultState]
    /\ at = [r \in Runners |-> NoMilestone]
    /\ elapsed = [r \in Runners |-> 0]
    /\ result = [r \in Runners |-> "none"]
    /\ earned = {}
    /\ banned = 0
    /\ held = FALSE
    /\ overwrote = FALSE
    /\ troubles = 0
    /\ commands = 0

Working(r) == pc[r] \in {"readonly", "apply", "gates"}

Goto(r, label) == pc' = [pc EXCEPT ![r] = label]

Trouble == troubles < MaxTroubles /\ troubles' = troubles + 1
Command == commands < MaxCommands /\ commands' = commands + 1

\* The runner's call is over, or its process has died: it keeps nothing.
Ended(r) ==
    /\ Goto(r, "idle")
    /\ call' = [call EXCEPT ![r] = "none"]
    /\ keep' = [keep EXCEPT ![r] = DefaultState]
    /\ mem' = [mem EXCEPT ![r] = DefaultState]
    /\ at' = [at EXCEPT ![r] = NoMilestone]
    /\ elapsed' = [elapsed EXCEPT ![r] = 0]
    /\ result' = [result EXCEPT ![r] = "none"]

\* follow returns, to finish or to the command line.
Return(r, res) ==
    \/ /\ call[r] = "finish"
       /\ Goto(r, "ingest")
       /\ result' = [result EXCEPT ![r] = res]
       /\ mem' = [mem EXCEPT ![r] = DefaultState]
       /\ elapsed' = [elapsed EXCEPT ![r] = 0]
       /\ UNCHANGED << call, keep, at >>
    \/ call[r] # "finish" /\ Ended(r)

\* follow saves what it holds.
Save(r, s) ==
    /\ file' = s
    /\ mem' = [mem EXCEPT ![r] = s]

-------------------------------------------------------------------------------
\* ---- follow: may it go on? --------------------------------------------------------

\* finish looks at the file before it calls follow.
MayCall(r) ==
    \/ pc[r] = "idle"
    \/ pc[r] = "loop" /\ NextMilestone(file.completed) # NoMilestone

\* --force-unquarantine and --no-apply are for the command line.
Options(r) ==
    IF pc[r] = "loop" THEN [force : {FALSE}, plan : {FALSE}]
    ELSE [force : BOOLEAN, plan : BOOLEAN]

\* What follow has loaded, with the drift of the roadmap seen; the action register
\* may hold placeholders for any milestones.
Seen(placeholders) == Drifted(file, version, built, placeholders)

Forced(s, option) == IF option.force THEN Lifted(s) ELSE s

\* AUTOPILOT_DISABLED, and the governor's report_only.
FollowDisabled(r) ==
    /\ MayCall(r)
    /\ Trouble
    /\ Return(r, "STOP")
    /\ UNCHANGED << file, version, built, history, commands >>

FollowPaused(r) ==
    /\ MayCall(r)
    /\ \E option \in Options(r), placeholders \in SUBSET Milestones :
          LET s == Forced(Seen(placeholders), option)
          IN  /\ s.paused
              /\ file' = ClearBackoff(s)
              /\ banned' = IF option.force THEN 0 ELSE banned
    /\ Return(r, "STOP")
    /\ UNCHANGED << version, built, earned, held, overwrote, counters >>

\* Faulty: what has been tried three times is never tried again.
GivenUp(s) ==
    ~ s.paused /\ (s.backoff > 0 \/ \E m \in Milestones : s.attempts[m] = 3)

\* is_quarantined, is_in_backoff: nothing is attempted.
Blocked(s) == ~ s.paused /\ (s.quarantine > 0 \/ s.backoff > 0)

FollowBlocked(r) ==
    /\ MayCall(r)
    /\ \E option \in Options(r), placeholders \in SUBSET Milestones :
          LET s == Forced(Seen(placeholders), option)
          IN  /\ Blocked(s)
              /\ file' = s
              /\ Return(r, IF s.quarantine > 0 THEN "STOP" ELSE "BACKOFF")
    /\ UNCHANGED << version, built, history, counters >>

IsoMissing(m) == IsoRequired /\ m # Iso /\ Iso \notin built

\* The head of follow's loop, with s in memory: nothing is left to do, or the ISO
\* core is missing, or the next milestone is begun.
NothingLeft(r, s) == NextMilestone(s.completed) = NoMilestone /\ Return(r, "DONE")

StoppedByIso(r, s) ==
    LET m == NextMilestone(s.completed)
    IN  /\ m # NoMilestone /\ IsoMissing(m)
        /\ file' = ClearBackoff(s)
        /\ Return(r, "STOP")

Begins(r, s) ==
    LET m == NextMilestone(s.completed)
    IN  /\ m # NoMilestone /\ ~ IsoMissing(m)
        /\ Save(r, BumpAttempt(s, m))
        /\ at' = [at EXCEPT ![r] = m]
        /\ Goto(r, "readonly")
        /\ UNCHANGED << keep, elapsed, result >>

FollowBegins(r) ==
    /\ MayCall(r)
    /\ \E option \in Options(r), placeholders \in SUBSET Milestones :
          LET s == Forced(Seen(placeholders), option)
              b == Bootstrapped(s, built)
          IN  /\ ~ s.paused /\ ~ Blocked(s)
              /\ \/ /\ NothingLeft(r, b)
                    /\ file' = IF BootstrapDue(s) THEN b ELSE Seen(placeholders)
                 \/ StoppedByIso(r, b)
                 \/ /\ Begins(r, b)
                    /\ call' = [call EXCEPT ![r] = IF @ = "finish" THEN @
                                                   ELSE IF option.plan THEN "plan" ELSE "follow"]
              /\ earned' = earned \cup (b.completed \ s.completed)
              /\ banned' = IF option.force THEN 0 ELSE banned
    /\ UNCHANGED << version, built, held, overwrote, counters >>

-------------------------------------------------------------------------------
\* ---- follow: one milestone --------------------------------------------------------

\* The dry run, the apply or the gates have failed.
Fail(r) ==
    LET s == Penalised(mem[r], at[r], elapsed[r])
    IN  /\ Trouble
        /\ file' = s
        /\ banned' = IF mem[r].attempts[at[r]] >= 3 THEN Left(Day, elapsed[r]) ELSE banned
        /\ Return(r, "STOP")
        /\ UNCHANGED << version, earned, held, overwrote, commands >>

ReadonlyFails(r) == pc[r] = "readonly" /\ Fail(r) /\ UNCHANGED built

\* _enforce_readonly_clean: something else has changed in the meantime.
ReadonlyDirty(r) ==
    /\ pc[r] = "readonly"
    /\ Trouble
    /\ file' = mem[r]
    /\ Return(r, "STOP")
    /\ UNCHANGED << version, built, history, commands >>

\* --no-apply ends here.
ReadonlyPasses(r) ==
    /\ pc[r] = "readonly"
    /\ \/ call[r] = "plan" /\ file' = ClearBackoff(mem[r]) /\ Return(r, "OK")
       \/ /\ call[r] # "plan"
          /\ Save(r, mem[r])
          /\ Goto(r, "apply")
          /\ UNCHANGED << call, keep, at, elapsed, result >>
    /\ UNCHANGED << version, built, history, counters >>

\* A failed apply may have made its files or not.
ApplyFails(r) ==
    /\ pc[r] = "apply"
    /\ built' \in {built, built \cup {at[r]}}
    /\ Fail(r)

ApplyPasses(r) ==
    /\ pc[r] = "apply"
    /\ built' = built \cup {at[r]}
    /\ Save(r, mem[r])
    /\ Goto(r, "gates")
    /\ UNCHANGED << version, call, keep, at, elapsed, result, history, counters >>

GatesFail(r) == pc[r] = "gates" /\ Fail(r) /\ UNCHANGED built

\* The milestone is completed.  A call of --max-steps goes on with what it has in
\* memory.
GatesPass(r) ==
    LET s == MarkCompleted(Lifted(mem[r]), at[r])
    IN  /\ pc[r] = "gates"
        /\ \/ file' = s /\ Return(r, "OK")
           \/ /\ call[r] = "follow"
              /\ \/ file' = s /\ NothingLeft(r, s)
                 \/ StoppedByIso(r, s)
                 \/ Begins(r, s) /\ UNCHANGED call
        /\ earned' = earned \cup {at[r]}
        /\ banned' = 0
        /\ UNCHANGED << version, built, held, overwrote, counters >>

-------------------------------------------------------------------------------
\* ---- finish -----------------------------------------------------------------------

\* finish loads the state, and, unless the roadmap is paused, makes the session
\* file; the script budget or a missing artefact may stop it.
FinishStart(r) ==
    /\ pc[r] = "idle"
    /\ \E placeholders \in SUBSET Milestones :
          LET s == Seen(placeholders)
              b == Bootstrapped(s, built)
          IN  /\ file' = b
              /\ earned' = earned \cup (b.completed \ s.completed)
              /\ \/ b.paused /\ UNCHANGED << built, pc, call, keep, troubles >>
                 \/ ~ b.paused /\ built' = built \cup {Session}
                    /\ \/ Trouble /\ UNCHANGED << pc, call, keep >>
                       \/ /\ Goto(r, "loop")
                          /\ call' = [call EXCEPT ![r] = "finish"]
                          /\ keep' = [keep EXCEPT ![r] = b]
                          /\ UNCHANGED troubles
    /\ UNCHANGED << version, mem, at, elapsed, result, banned, held, overwrote, commands >>

FinishDone(r) ==
    /\ pc[r] = "loop"
    /\ NextMilestone(file.completed) = NoMilestone
    /\ Ended(r)
    /\ UNCHANGED << file, version, built, history, counters >>

\* The time limit, a preview that fails, a report that is blocked, a core that is
\* not clean.
FinishStops(r) ==
    /\ pc[r] \in {"loop", "ingest", "promoted"}
    /\ Trouble
    /\ Ended(r)
    /\ UNCHANGED << file, version, built, history, commands >>

\* The loop's own copy of the state says whether the bundle is still to be made.
MayPromote(r) == pc[r] = "ingest" /\ Bundle \notin keep[r].completed

\* The bundle's files are there, or are made now from a seed note or from a debt
\* that has been applied; the state that is saved is the one finish loaded.
Promote(r) ==
    LET s == MarkCompleted(keep[r], Bundle)
    IN  /\ MayPromote(r)
        /\ built' = built \cup {Bundle}
        /\ file' = s
        /\ keep' = [keep EXCEPT ![r] = s]
        /\ earned' = earned \cup {Bundle}
        /\ overwrote' = (overwrote \/ file # keep[r])
        /\ Goto(r, "promoted")
        /\ UNCHANGED << version, call, mem, at, elapsed, result, banned, held, counters >>

PromoteFails(r) ==
    /\ MayPromote(r) /\ Bundle \notin built
    /\ Trouble
    /\ built' \in {built, built \cup {Bundle}}
    /\ Goto(r, "promoted")
    /\ UNCHANGED << file, version, call, keep, mem, at, elapsed, result, history, commands >>

\* Nothing to promote, or nothing that calls for it.
PromoteNothing(r) ==
    /\ pc[r] = "ingest"
    /\ Bundle \notin built \/ ~ MayPromote(r)
    /\ Goto(r, "promoted")
    /\ UNCHANGED << file, version, built, call, keep, mem, at, elapsed, result, history, counters >>

\* After a backoff finish sleeps, or ends when sleep_seconds is 0.
FinishContinues(r) ==
    /\ pc[r] = "promoted"
    /\ \/ /\ result[r] \in {"OK", "BACKOFF"}
          /\ Goto(r, "loop")
          /\ at' = [at EXCEPT ![r] = NoMilestone]
          /\ result' = [result EXCEPT ![r] = "none"]
          /\ UNCHANGED << call, keep, mem, elapsed >>
       \/ result[r] # "OK" /\ Ended(r)
    /\ UNCHANGED << file, version, built, history, counters >>

-------------------------------------------------------------------------------
\* ---- the operator, the editor, the workspace and the clock ------------------------

Pause ==
    /\ file.sha # 0
    /\ Command
    /\ file' = PauseState(file)
    /\ held' = (held \/ \A r \in Runners : ~ Working(r))
    /\ UNCHANGED << version, built, runners, earned, banned, overwrote, troubles >>

Resume ==
    /\ file.sha # 0 /\ file.paused
    /\ file' = ResumeState(file)
    /\ held' = FALSE
    /\ UNCHANGED << version, built, runners, earned, banned, overwrote, counters >>

\* roadmap-state-sync --mode reset.
SyncReset ==
    /\ Command
    /\ file' = [DefaultState EXCEPT !.sha = version]
    /\ banned' = 0
    /\ held' = FALSE
    /\ UNCHANGED << version, built, runners, earned, overwrote, troubles >>

\* roadmap-state-sync: the hash of the roadmap is recorded, and nothing is taken back.
Sync ==
    /\ SyncAfterEdit \/ file.sha \in {0, version}
    /\ Command
    /\ file' = [file EXCEPT !.sha = version]
    /\ UNCHANGED << version, built, runners, history, troubles >>

\* The roadmap is edited.
Edit ==
    /\ version < MaxVersion
    /\ version' = version + 1
    /\ UNCHANGED << file, built, runners, history, counters >>

\* Files of a milestone are removed from the workspace.
Clean ==
    /\ Command
    /\ \E m \in built : built' = built \ {m}
    /\ UNCHANGED << file, version, runners, history, troubles >>

\* Time passes for every copy of the state.
Tick ==
    /\ file' = Passed(file)
    /\ keep' = [r \in Runners |-> Passed(keep[r])]
    /\ mem' = [r \in Runners |-> Passed(mem[r])]
    /\ elapsed' = [r \in Runners |-> IF Working(r) /\ elapsed[r] < Day THEN elapsed[r] + 1
                                     ELSE elapsed[r]]
    /\ banned' = IF banned > 0 THEN banned - 1 ELSE 0
    /\ UNCHANGED << version, built, pc, call, at, result, earned, held, overwrote, counters >>

\* The process dies, or raises.
Kill(r) ==
    /\ pc[r] # "idle"
    /\ Trouble
    /\ Ended(r)
    /\ UNCHANGED << file, version, built, history, commands >>

-------------------------------------------------------------------------------
Follow(r) ==
    FollowDisabled(r) \/ FollowPaused(r) \/ FollowBlocked(r) \/ FollowBegins(r)

Milestone(r) ==
    \/ ReadonlyFails(r) \/ ReadonlyDirty(r) \/ ReadonlyPasses(r)
    \/ ApplyFails(r) \/ ApplyPasses(r)
    \/ GatesFail(r) \/ GatesPass(r)

Finish(r) ==
    \/ FinishStart(r) \/ FinishDone(r) \/ FinishStops(r)
    \/ Promote(r) \/ PromoteFails(r) \/ PromoteNothing(r) \/ FinishContinues(r)

Environment == Pause \/ Resume \/ Sync \/ SyncReset \/ Edit \/ Clean \/ Tick

Next ==
    \/ \E r \in Runners : Follow(r) \/ Milestone(r) \/ Finish(r) \/ Kill(r)
    \/ Environment

Spec == Init /\ [][Next]_vars

\* A call that has begun goes on; roadmap-finish is called again and again, whatever
\* else is called; time passes; a paused roadmap is resumed.
FairSpec ==
    /\ Spec
    /\ \A r \in Runners :
          /\ WF_vars(pc[r] # "idle" /\ (Follow(r) \/ Milestone(r) \/ Finish(r)))
          /\ SF_vars(FinishStart(r))
    /\ WF_vars(Tick)
    /\ WF_vars(Resume)

-------------------------------------------------------------------------------
TypeOK ==
    /\ file \in RoadmapRecord
    /\ version \in 1 .. MaxVersion
    /\ built \subseteq Milestones
    /\ pc \in [Runners -> {"idle", "readonly", "apply", "gates", "loop", "ingest", "promoted"}]
    /\ call \in [Runners -> {"none", "finish", "follow", "plan"}]
    /\ keep \in [Runners -> RoadmapRecord]
    /\ mem \in [Runners -> RoadmapRecord]
    /\ at \in [Runners -> Milestones \cup {NoMilestone}]
    /\ elapsed \in [Runners -> 0 .. Day]
    /\ result \in [Runners -> {"none", "OK", "DONE", "BACKOFF", "STOP"}]
    /\ earned \subseteq Milestones
    /\ banned \in 0 .. Day
    /\ held \in BOOLEAN /\ overwrote \in BOOLEAN
    /\ troubles \in 0 .. MaxTroubles
    /\ commands \in 0 .. MaxCommands

Starts(r) == ~ Working(r) /\ pc'[r] = "readonly"

\* A milestone is taken up only when every milestone before it in the roadmap has
\* been earned: it passed its gates, its files were there, or it was promoted.  What
\* a call finds completed may come from a state saved by another call, from memory
\* that a drift or a bootstrap has changed, or from the loop's own old copy.
InOrder ==
    \A r \in Runners : \A i, j \in DOMAIN Order :
        (Working(r) /\ at[r] = Order[j] /\ i < j) => Order[i] \in earned

\* The drift of the roadmap is not forgotten: no state, in the file or in memory,
\* counts a milestone as completed under an older version when the version it has
\* the hash of takes that milestone back.
NothingStale(s) ==
    /\ s.sha = 0 => s.completed = {}
    /\ \A m \in s.completed \ Core : s.meta[m] # s.sha => m \notin ResetBy[s.sha]

DriftKept ==
    /\ NothingStale(file)
    /\ \A r \in Runners : NothingStale(keep[r]) /\ NothingStale(mem[r])

\* A third failure costs a day: nothing is attempted before it is over, whatever is
\* paused, resumed, edited or killed meanwhile, unless the quarantine is lifted by
\* force or the state is reset.  A promotion that overwrites the state forgets it.
QuarantineHolds ==
    [][\A r \in Runners : Starts(r) /\ ~ overwrote => banned' = 0]_vars

\* docs/OPERATIONS/CODEX-UX.md:52: later calls do not go on by themselves, they wait
\* for the resume.  So it is for a pause that comes while no milestone is at work,
\* unless a promotion overwrites the state; follow overwrites the others.
PauseHolds ==
    [][\A r \in Runners : Starts(r) /\ ~ overwrote => ~ held]_vars

\* Progress is lost only for a cause: a milestone that is no longer completed was
\* taken back by a drift or dropped by a reset, or a promotion overwrote the state.
ProgressKept ==
    [][\A m \in file.completed \ file'.completed :
          file.meta[m] # version \/ file'.completed = {} \/ overwrote']_vars

\* The whole roadmap is completed in the end, unless it waits for files of the ISO
\* core that someone has removed.
EventuallyDone ==
    <>[](LET m == NextMilestone(file.completed) IN m = NoMilestone \/ IsoMissing(m))

\* orchestrator_runtime.py:218: an iteration that went well has advanced one milestone.
AdvancesOne ==
    [][\A r \in Runners :
          (pc[r] = "promoted" /\ pc'[r] = "loop" /\ result[r] = "OK")
             => at[r] \in file.completed]_vars

===============================================================================
