----------------------------- MODULE MCGovernedRun -----------------------------
(***************************************************************************)
(* Values of the constants of GovernedRun for TLC.                         *)
(***************************************************************************)
EXTENDS GovernedRun

CONSTANTS p1, p2, r1, r2, r3

Normal == [mode |-> "normal", intents |-> {}, workflows |-> {}]
ReportOnly == [mode |-> "report_only", intents |-> {}, workflows |-> {}]
Quarantine == [mode |-> "normal", intents |-> {r1}, workflows |-> {r2}]

NormalOnly == {Normal}
AnyGovernor == {Normal, ReportOnly, Quarantine}

===============================================================================
