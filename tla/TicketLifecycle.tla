---------------------------- MODULE TicketLifecycle ----------------------------
(***************************************************************************)
(* What the work-item store promises of one ticket, the part of the        *)
(* work_item machine of orchestrator/state_machine.v1.json that the        *)
(* commands use: a ticket is started at most once, its output is written   *)
(* at most once and only while it is in progress, and a ticket never moves *)
(* back.                                                                   *)
(***************************************************************************)
CONSTANT Items

VARIABLE phase      \* of each ticket

Init == phase = [i \in Items |-> "WAITING"]

Move(i, from, to) ==
    /\ phase[i] \in from
    /\ phase' = [phase EXCEPT ![i] = to]

Start(i) == Move(i, {"WAITING"}, "STARTED")

\* The note, suggestion, report or plan of the ticket is written.
Act(i) == Move(i, {"STARTED"}, "ACTED")

Apply(i) == Move(i, {"ACTED"}, "APPLIED")

Close(i) == Move(i, {"WAITING", "APPLIED"}, "CLOSED")

Next == \E i \in Items : Start(i) \/ Act(i) \/ Apply(i) \/ Close(i)

Spec == Init /\ [][Next]_phase

===============================================================================
