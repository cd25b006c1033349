------------------------------- MODULE MCRoadmap -------------------------------
(***************************************************************************)
(* An instance of Roadmap for TLC: the ISO core, the session, which the    *)
(* second version of the roadmap takes back, and the promotion bundle.     *)
(***************************************************************************)
EXTENDS Roadmap

CONSTANTS m1, m35, m82, f

MCOrder == << m1, m35, m82 >>
MCResetBy == [v \in 1 .. MaxVersion |-> IF v = 1 THEN {} ELSE {m35}]
MCBackoffOf == [a \in 1 .. 3 |-> 1]

===============================================================================
