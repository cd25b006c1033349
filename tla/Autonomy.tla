------------------------------- MODULE Autonomy -------------------------------
(***************************************************************************)
(* Progressive autonomy of one intent: src/orchestrator/autonomy.py.       *)
(*                                                                         *)
(* The runner keeps, per intent, a small record of how its runs ended and  *)
(* the mode it has earned.  The module holds the pure functions of that    *)
(* file; GovernedRun stores the record and AutonomyHistory drives it.      *)
(***************************************************************************)
EXTENDS Integers, Sequences, FiniteSets

CONSTANTS
    CfgMode,        \* the mode the autonomy policy gives the intent
    MinSamples,     \* min_samples
    ThresholdNum,   \* success_threshold = ThresholdNum / ThresholdDen
    ThresholdDen

AutonomyModes == {"manual_only", "human_review", "full_auto"}
Outcomes == {"SUCCESS", "FAIL"}

ASSUME AutonomyAssumption ==
    /\ CfgMode \in AutonomyModes
    /\ MinSamples \in Nat
    /\ ThresholdNum \in Nat
    /\ ThresholdDen \in Nat \ {0}

Recent == {s \in Seq(Outcomes) : Len(s) =< 3}

AutonomyRecord ==
    [samples: Nat, successes: Nat, mode: AutonomyModes, recent: Recent]

\* The record of an intent the store does not know yet.
InitialRecord ==
    [samples |-> 0, successes |-> 0, mode |-> CfgMode, recent |-> << >>]

\* Faulty variants of functions below, a slip of the code each; no
\* specification uses them.  The list is cut to its first three outcomes;
\* min_samples is forgotten; nothing is ever demoted.
RememberFirst(recent, outcome) ==
    IF Len(recent) < 3 THEN Append(recent, outcome) ELSE recent

PromotedAtOnce(mode, samples, successes) ==
    IF /\ CfgMode # "manual_only"
       /\ mode # "manual_only"
       /\ successes * ThresholdDen >= ThresholdNum * samples
    THEN "full_auto"
    ELSE mode

NeverDemoted(mode, recent) == mode

\* recent.append(outcome); recent[-3:]
Remember(recent, outcome) ==
    IF Len(recent) < 3
    THEN Append(recent, outcome)
    ELSE << recent[2], recent[3], outcome >>

Failures(recent) == Cardinality({i \in DOMAIN recent : recent[i] = "FAIL"})

RatioReached(samples, successes) ==
    successes * ThresholdDen >= ThresholdNum * samples

Promoted(mode, samples, successes) ==
    IF /\ CfgMode # "manual_only"
       /\ mode # "manual_only"
       /\ samples >= MinSamples
       /\ RatioReached(samples, successes)
    THEN "full_auto"
    ELSE mode

\* Two failures in the last three runs take the intent back to review.
Demoted(mode, recent) ==
    IF mode # "manual_only" /\ Len(recent) = 3 /\ Failures(recent) >= 2
    THEN "human_review"
    ELSE mode

UpdateRecord(record, outcome) ==
    LET samples   == record.samples + 1
        successes == record.successes + (IF outcome = "SUCCESS" THEN 1 ELSE 0)
        recent    == Remember(record.recent, outcome)
    IN  [samples   |-> samples,
         successes |-> successes,
         mode      |-> Demoted(Promoted(record.mode, samples, successes), recent),
         recent    |-> recent]

\* wantsEffect: the envelope is no dry run and its side_effect_policy is not "none".
GateTriggered(mode, wantsEffect) ==
    \/ mode = "manual_only"
    \/ mode = "human_review" /\ wantsEffect

===============================================================================
