---------------------------- MODULE AutonomyHistory ----------------------------
(***************************************************************************)
(* The life of one autonomy record: the runner reads it when a run starts  *)
(* and rewrites it when the run ends.  The history of outcomes is kept     *)
(* beside the record so that the digest the record holds, and the mode it  *)
(* grants, can be compared with the whole past.                            *)
(***************************************************************************)
EXTENDS Autonomy

CONSTANT MaxOutcomes    \* bound on the length of the history

ASSUME HistoryAssumption == MaxOutcomes \in Nat

VARIABLES
    record,     \* the intent's entry in autonomy_store.v1.json
    history     \* every outcome so far, oldest first

vars == << record, history >>

Init ==
    /\ record = InitialRecord
    /\ history = << >>

Update(outcome) ==
    /\ Len(history) < MaxOutcomes
    /\ record' = UpdateRecord(record, outcome)
    /\ history' = Append(history, outcome)

\* The bound is reached.
Done == Len(history) = MaxOutcomes /\ UNCHANGED vars

Next == (\E outcome \in Outcomes : Update(outcome)) \/ Done

Spec == Init /\ [][Next]_vars

-------------------------------------------------------------------------------
Successes(h) == Cardinality({i \in DOMAIN h : h[i] = "SUCCESS"})
Prefix(n) == SubSeq(history, 1, n)

\* The record is a true digest of the past: the counters count every outcome
\* and "recent" is the tail of three that recent[-3:] leaves.
DigestOfHistory ==
    /\ record.samples = Len(history)
    /\ record.successes = Successes(history)
    /\ record.recent =
         SubSeq(history, IF Len(history) > 3 THEN Len(history) - 2 ELSE 1, Len(history))

\* An intent that may act without a human has earned it: at some point of its
\* past, with at least min_samples runs, the success ratio met the threshold,
\* and its last three runs do not hold two failures.  An intent configured
\* full_auto starts there, and only failures can take that away.
FullAutoIsEarned ==
    record.mode = "full_auto" =>
        /\ \/ CfgMode = "full_auto"
           \/ \E n \in 0 .. Len(history) :
                 n >= MinSamples /\ n > 0 /\ RatioReached(n, Successes(Prefix(n)))
        /\ ~ (Len(history) >= 3 /\ Failures(record.recent) >= 2)

\* The mode never moves on a success that leaves the ratio short, and a
\* demotion happens only when the last three runs hold two failures.
ModeMovesForCause ==
    [][/\ (record.mode # "full_auto" /\ record'.mode = "full_auto") =>
             /\ RatioReached(Len(history'), Successes(history'))
             /\ Len(history') >= MinSamples
       /\ (record.mode = "full_auto" /\ record'.mode # "full_auto") =>
             /\ history'[Len(history')] = "FAIL"
             /\ Successes(SubSeq(history', Len(history') - 2, Len(history'))) =< 1]_vars

===============================================================================
