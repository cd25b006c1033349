------------------------------- MODULE MCAirunner -------------------------------
(* Two smoke jobs enqueued by the tick id A, one that needs the network, which the
   policy of the tick id B enqueues, and a seeded one. *)
EXTENDS Airunner, TLC

CONSTANTS r1, r2, fullA, fastA, publish, seed, A, B

MCTypeOf ==
    [j \in Jobs |-> CASE j = fullA -> "SMOKE_FULL"
                      [] j = fastA -> "SMOKE_FAST"
                      [] j = publish -> "RELEASE_PUBLISH"
                      [] j = seed -> "RELEASE_PREPARE"]
MCTickOf == [j \in Jobs \ Seeded |-> IF j = publish THEN B ELSE A]
MCRank ==
    [j \in Jobs |-> CASE j = fastA -> 1 [] j = fullA -> 2
                      [] j = seed -> 3 [] j = publish -> 4]

AnyRunners == Permutations(Runners)

\* The loops of all runners have one owner tag and budget.
MCLeaseOf == [r \in Runners |-> Runners]

===============================================================================
