------------------------------ MODULE MCWorkItems ------------------------------
(* Small tickets and agents for the model checker. *)
EXTENDS WorkItems, TLC

CONSTANTS a1, a2, note, gap

NoteTicket == [source |-> "MANUAL_REQUEST", selected |-> TRUE, allowed |-> TRUE,
               decision |-> FALSE, ourRepo |-> TRUE, rule |-> TRUE, safe |-> TRUE,
               broken |-> FALSE, rank |-> 1]

\* A GAP ticket of a type the policy does not apply by itself.
GapTicket == [NoteTicket EXCEPT !.rank = 2, !.source = "GAP", !.safe = FALSE]

Tickets == [i \in Items |-> IF i = gap THEN GapTicket ELSE NoteTicket]

\* Executions with different limits have different run ids.
OwnRunIds == [a \in Agents |-> {a}]

AnyAgents == Permutations(Agents)

===============================================================================
