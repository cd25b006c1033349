------------------------------ MODULE RoadmapState ------------------------------
(***************************************************************************)
(* The state of a workspace's roadmap (roadmap_state.v1.json) and what the *)
(* code computes from it: src/roadmap/state.py and the drift detection of  *)
(* src/roadmap/orchestrator_helpers.py.                                    *)
(*                                                                         *)
(* Times are how long is left, from now: a quarantine or a backoff of 0 is *)
(* over.  A hash of the roadmap is the number of its version, 0 the        *)
(* sixty-four zeros of the default state.  Attempts are counted up to      *)
(* three, which is all that the code tells apart.                          *)
(*                                                                         *)
(* Operators said to be faulty are used by no specification: each is a     *)
(* slip the code could have had in the operator that follows it.           *)
(***************************************************************************)
EXTENDS Integers

CONSTANTS
    Milestones,
    Order,          \* the milestones of the roadmap, a sequence
    NoMilestone,
    Core,           \* M0 and M1
    Marked,         \* the milestones bootstrap knows by the files they make
    MaxVersion,     \* bound on the versions of the roadmap
    ResetBy,        \* of each version: the milestones with an apply_only step
    BackoffOf,      \* 120, 300 and 900 seconds, of the attempts 1, 2 and later
    Day             \* how long a quarantine lasts

ASSUME RoadmapAssumption ==
    /\ Order \in [DOMAIN Order -> Milestones] /\ DOMAIN Order \subseteq Nat
    /\ \A i, j \in DOMAIN Order : Order[i] = Order[j] => i = j
    /\ \A S \in SUBSET DOMAIN Order : S # {} => \E i \in S : \A j \in S : i =< j
    /\ Core \subseteq Milestones /\ Marked \subseteq Milestones
    /\ NoMilestone \notin Milestones
    /\ MaxVersion \in Nat \ {0}
    /\ ResetBy \in [1 .. MaxVersion -> SUBSET Milestones]
    /\ BackoffOf \in [1 .. 3 -> Nat] /\ Day \in Nat

RoadmapRecord ==
    [completed : SUBSET Milestones, meta : [Milestones -> 0 .. MaxVersion],
     sha : 0 .. MaxVersion, attempts : [Milestones -> 0 .. 3],
     quarantine : Nat, backoff : Nat, paused : BOOLEAN, bootstrapped : BOOLEAN]

\* Also what load_state makes of a file that is not there: every state that is
\* saved has the hash of a roadmap.
DefaultState ==
    [completed |-> {}, meta |-> [m \in Milestones |-> 0], sha |-> 0,
     attempts |-> [m \in Milestones |-> 0], quarantine |-> 0, backoff |-> 0,
     paused |-> FALSE, bootstrapped |-> FALSE]

-------------------------------------------------------------------------------
\* Faulty: any milestone that is left.
SomeMilestone(completed) ==
    LET left == {i \in DOMAIN Order : Order[i] \notin completed}
    IN  IF left = {} THEN NoMilestone
        ELSE Order[CHOOSE i \in left : \A j \in left : i >= j]

\* _next_milestone: the first one of the roadmap that is not completed.
NextMilestone(completed) ==
    LET left == {i \in DOMAIN Order : Order[i] \notin completed}
    IN  IF left = {} THEN NoMilestone
        ELSE Order[CHOOSE i \in left : \A j \in left : i =< j]

ClearBackoff(s) == [s EXCEPT !.backoff = 0]
ClearQuarantine(s) == [s EXCEPT !.quarantine = 0]

\* Faulty: the force resumes as well.
LiftedAll(s) == [s EXCEPT !.quarantine = 0, !.backoff = 0, !.paused = FALSE]

\* --force-unquarantine
Lifted(s) == ClearQuarantine(ClearBackoff(s))

\* set_current_milestone and bump_attempt.
BumpAttempt(s, m) ==
    [s EXCEPT !.attempts[m] = IF @ < 3 THEN @ + 1 ELSE 3]

\* mark_completed, with the hash the state was loaded with.
MarkCompleted(s, m) ==
    [s EXCEPT !.completed = @ \cup {m}, !.meta[m] = s.sha]

Left(duration, elapsed) == IF duration > elapsed THEN duration - elapsed ELSE 0

\* set_backoff and quarantine_milestone, from the time the call began, which is
\* `elapsed` ago.
Penalised(s, m, elapsed) ==
    [s EXCEPT !.backoff = Left(BackoffOf[s.attempts[m]], elapsed),
              !.quarantine = IF s.attempts[m] >= 3 THEN Left(Day, elapsed) ELSE @]

\* pause_state and clear_backoff.
PauseState(s) == [s EXCEPT !.paused = TRUE, !.backoff = 0]

\* Faulty: resuming starts from a clean slate.
ResumeAfresh(s) == [s EXCEPT !.paused = FALSE, !.backoff = 0, !.quarantine = 0]

\* resume_state and clear_backoff.
ResumeState(s) == [s EXCEPT !.paused = FALSE, !.backoff = 0]

\* The time passes.
Passed(s) ==
    [s EXCEPT !.quarantine = IF @ > 0 THEN @ - 1 ELSE 0,
              !.backoff = IF @ > 0 THEN @ - 1 ELSE 0]

-------------------------------------------------------------------------------
\* Faulty: the state is bootstrapped every time.
AlwaysDue(s) == TRUE

BootstrapDue(s) == ~ s.bootstrapped \/ s.completed = {}

\* bootstrap_completed_milestones: what it knows by its files is completed if
\* all of them are there, and not otherwise.
Bootstrapped(s, built) ==
    IF BootstrapDue(s)
    THEN LET found == Marked \cap built
         IN  [s EXCEPT !.completed = (@ \ Marked) \cup found,
                       !.meta = [m \in Milestones |-> IF m \in found THEN s.sha ELSE @[m]],
                       !.bootstrapped = TRUE]
    ELSE s

Stale(s, version) == {m \in s.completed : s.meta[m] # version}

\* Those of them that drift detection takes back: M0 and M1 unless their files
\* are there, and what has a placeholder action or an apply_only step.
TakenBack(s, version, built, placeholders) ==
    {m \in Stale(s, version) :
        IF m \in Core THEN m \notin built ELSE m \in ResetBy[version] \cup placeholders}

\* _remove_completed_milestone
Removed(s, taken) ==
    [s EXCEPT !.completed = @ \ taken,
              !.attempts = [m \in Milestones |-> IF m \in taken THEN 0 ELSE @[m]],
              !.meta = [m \in Milestones |-> IF m \in taken THEN 0 ELSE @[m]]]

\* Faulty: the new hash is recorded and nothing is taken back.
HashOnly(s, version, built, placeholders) == [s EXCEPT !.sha = version]

\* _detect_roadmap_drift_and_update_state
Drifted(s, version, built, placeholders) ==
    IF s.sha = version THEN s
    ELSE [Removed(s, TakenBack(s, version, built, placeholders)) EXCEPT !.sha = version]

===============================================================================
