------------------------------ MODULE RunLifecycle ------------------------------
(***************************************************************************)
(* What a run promises: the run_execution machine of                       *)
(* orchestrator/state_machine.v1.json, per run id, as the runner keeps it. *)
(*                                                                         *)
(* A run id may be started again after it was suspended or has failed      *)
(* (the idempotency stage stops only at COMPLETED), side effects happen    *)
(* only while it is RUNNING, and COMPLETED is final.                       *)
(***************************************************************************)
EXTENDS Naturals

CONSTANT RunIds

VARIABLES
    phase,      \* the lifecycle state of each run id
    effects     \* side effects performed, per run id

vars == << phase, effects >>

Init ==
    /\ phase = [r \in RunIds |-> "NONE"]
    /\ effects = [r \in RunIds |-> 0]

Startable(r) == phase[r] \in {"NONE", "FAILED", "SUSPENDED"}

Start(r) ==
    /\ Startable(r)
    /\ phase' = [phase EXCEPT ![r] = "RUNNING"]
    /\ UNCHANGED effects

\* Rejected without execution: quota exhausted, or no route.
Reject(r) ==
    /\ Startable(r)
    /\ phase' = [phase EXCEPT ![r] = "FAILED"]
    /\ UNCHANGED effects

Act(r) ==
    /\ phase[r] = "RUNNING"
    /\ effects' = [effects EXCEPT ![r] = @ + 1]
    /\ UNCHANGED phase

Decide(r) ==
    /\ phase[r] = "RUNNING"
    /\ phase' \in {[phase EXCEPT ![r] = s] : s \in {"COMPLETED", "FAILED", "SUSPENDED"}}
    /\ UNCHANGED effects

Next == \E r \in RunIds : Start(r) \/ Reject(r) \/ Act(r) \/ Decide(r)

Spec == Init /\ [][Next]_vars

\* Every run that is started is decided.
FairSpec == Spec /\ \A r \in RunIds : WF_phase(Decide(r))

===============================================================================
