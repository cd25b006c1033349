----------------------------- MODULE Roadmap_proofs -----------------------------
(***************************************************************************)
(* Proofs about the roadmap runner, for any number of runners, milestones, *)
(* versions, failures, kills and commands, without any lock.               *)
(*                                                                         *)
(* TypeCorrect, MilestonesInOrder and PauseKept hold for every use of the  *)
(* commands.  DriftSound assumes that roadmap-state-sync is not run between*)
(* an edit of the roadmap and the next follow or finish (~ SyncAfterEdit). *)
(* QuarantineKept and ProgressIsKept assume that the calls of follow and   *)
(* finish come one after the other (OneRunner).                            *)
(***************************************************************************)
EXTENDS Roadmap, TLAPS

USE RoadmapAssumption, RunnerAssumption

Labels == {"idle", "readonly", "apply", "gates", "loop", "ingest", "promoted"}
Calls == {"none", "finish", "follow", "plan"}
Results == {"none", "OK", "DONE", "BACKOFF", "STOP"}

\* A state that may be saved or held, when the milestones in e have been earned.
Good(s, e) ==
    /\ s \in RoadmapRecord
    /\ s.completed \subseteq e
    /\ SyncAfterEdit \/ NothingStale(s)

\* The milestone at hand is the next one of the state in memory.
Busy(s, m) ==
    /\ m \in Milestones
    /\ m = NextMilestone(s.completed)
    /\ s.attempts[m] # 0
    /\ s.sha # 0

RunnersGood ==
    /\ pc \in [Runners -> Labels]
    /\ call \in [Runners -> Calls]
    /\ keep \in [Runners -> RoadmapRecord]
    /\ mem \in [Runners -> RoadmapRecord]
    /\ at \in [Runners -> Milestones \cup {NoMilestone}]
    /\ elapsed \in [Runners -> 0 .. Day]
    /\ result \in [Runners -> Results]
    /\ \A r \in Runners :
          /\ Good(keep[r], earned) /\ Good(mem[r], earned)
          /\ Working(r) => Busy(mem[r], at[r])
          /\ call[r] = "finish" => keep[r].sha # 0
          /\ pc[r] \in {"loop", "ingest", "promoted"} => call[r] = "finish"

RestGood ==
    /\ version \in 1 .. MaxVersion
    /\ built \subseteq Milestones
    /\ earned \subseteq Milestones
    /\ banned \in 0 .. Day
    /\ held \in BOOLEAN /\ overwrote \in BOOLEAN
    /\ troubles \in 0 .. MaxTroubles
    /\ commands \in 0 .. MaxCommands

Inv == Good(file, earned) /\ RunnersGood /\ RestGood

-------------------------------------------------------------------------------
\* ---- the operators on states ------------------------------------------------------

\* What follows takes every state for a value, of which it knows that it is Good.

LEMMA DefaultGood == \A e : Good(DefaultState, e)
<1>1. DefaultState \in RoadmapRecord
  BY DEF DefaultState, RoadmapRecord
<1>2. NothingStale(DefaultState) /\ DefaultState.completed = {}
  BY DEF DefaultState, NothingStale
<1> QED
  BY <1>1, <1>2 DEF Good

LEMMA GoodGrows ==
    ASSUME NEW s, NEW e, NEW e2, Good(s, e), e \subseteq e2
    PROVE  Good(s, e2)
BY DEF Good

\* The properties of a state are those of its completed milestones and its hash.
LEMMA GoodLike ==
    ASSUME NEW s, NEW t, NEW e, Good(s, e), t \in RoadmapRecord,
           t.completed = s.completed, t.meta = s.meta, t.sha = s.sha
    PROVE  Good(t, e)
BY DEF Good, NothingStale

LEMMA ClearBackoffLike ==
    ASSUME NEW s, NEW e, Good(s, e)
    PROVE  /\ Good(ClearBackoff(s), e)
           /\ ClearBackoff(s).completed = s.completed
           /\ ClearBackoff(s).sha = s.sha
<1>1. s \in RoadmapRecord
  BY DEF Good
<1>2. /\ ClearBackoff(s) \in RoadmapRecord
      /\ ClearBackoff(s).completed = s.completed
      /\ ClearBackoff(s).meta = s.meta
      /\ ClearBackoff(s).sha = s.sha
  BY <1>1 DEF ClearBackoff, RoadmapRecord
<1> QED
  BY <1>2, GoodLike

LEMMA LiftedLike ==
    ASSUME NEW s, NEW e, Good(s, e)
    PROVE  /\ Good(Lifted(s), e)
           /\ Lifted(s).completed = s.completed
           /\ Lifted(s).sha = s.sha
<1>1. s \in RoadmapRecord
  BY DEF Good
<1>2. /\ Lifted(s) \in RoadmapRecord
      /\ Lifted(s).completed = s.completed
      /\ Lifted(s).meta = s.meta
      /\ Lifted(s).sha = s.sha
  BY <1>1 DEF Lifted, ClearBackoff, ClearQuarantine, RoadmapRecord
<1> QED
  BY <1>2, GoodLike

LEMMA BumpAttemptLike ==
    ASSUME NEW s, NEW e, NEW m \in Milestones, Good(s, e)
    PROVE  /\ Good(BumpAttempt(s, m), e)
           /\ BumpAttempt(s, m).completed = s.completed
           /\ BumpAttempt(s, m).sha = s.sha
           /\ BumpAttempt(s, m).attempts[m] # 0
<1>1. s \in RoadmapRecord
  BY DEF Good
<1> DEFINE n == IF s.attempts[m] < 3 THEN s.attempts[m] + 1 ELSE 3
<1>2. s.attempts \in [Milestones -> 0 .. 3] /\ n \in 1 .. 3
  <2>1. s.attempts \in [Milestones -> 0 .. 3]
    BY <1>1 DEF RoadmapRecord
  <2>2. s.attempts[m] \in 0 .. 3
    BY <2>1
  <2> QED
    BY <2>1, <2>2
<1>3. BumpAttempt(s, m) = [s EXCEPT !.attempts = [s.attempts EXCEPT ![m] = n]]
  BY <1>1 DEF BumpAttempt, RoadmapRecord
<1>4. /\ [s.attempts EXCEPT ![m] = n] \in [Milestones -> 0 .. 3]
      /\ [s.attempts EXCEPT ![m] = n][m] = n
  BY <1>2
<1>5. /\ BumpAttempt(s, m) \in RoadmapRecord
      /\ BumpAttempt(s, m).completed = s.completed
      /\ BumpAttempt(s, m).meta = s.meta
      /\ BumpAttempt(s, m).sha = s.sha
      /\ BumpAttempt(s, m).attempts[m] # 0
  <2> DEFINE a == [s.attempts EXCEPT ![m] = n]
  <2>1. a \in [Milestones -> 0 .. 3] /\ a[m] # 0
    BY <1>2, <1>4
  <2>2. BumpAttempt(s, m) = [s EXCEPT !.attempts = a]
    BY <1>3
  <2> HIDE DEF a, n
  <2> QED
    BY <1>1, <2>1, <2>2 DEF RoadmapRecord
<1> QED
  BY <1>5, GoodLike

LEMMA LeftType ==
    ASSUME NEW duration \in Nat, NEW n \in Nat
    PROVE  Left(duration, n) \in 0 .. duration
BY DEF Left

LEMMA PenalisedLike ==
    ASSUME NEW s, NEW e, NEW m \in Milestones, NEW n \in 0 .. Day,
           Good(s, e), s.attempts[m] # 0
    PROVE  Good(Penalised(s, m, n), e)
<1>1. s \in RoadmapRecord /\ s.attempts[m] \in 1 .. 3
  BY DEF Good, RoadmapRecord
<1> DEFINE b == Left(BackoffOf[s.attempts[m]], n)
           q == IF s.attempts[m] >= 3 THEN Left(Day, n) ELSE s.quarantine
<1>2. b \in Nat
  BY <1>1, LeftType
<1>3. q \in Nat
  <2>1. s.quarantine \in Nat
    BY <1>1 DEF RoadmapRecord
  <2> QED
    BY <2>1, LeftType
<1>4. Penalised(s, m, n) = [s EXCEPT !.backoff = b, !.quarantine = q]
  BY <1>1 DEF Penalised, RoadmapRecord
<1>5. /\ Penalised(s, m, n) \in RoadmapRecord
      /\ Penalised(s, m, n).completed = s.completed
      /\ Penalised(s, m, n).meta = s.meta
      /\ Penalised(s, m, n).sha = s.sha
  <2> HIDE DEF b, q
  <2> QED
    BY <1>1, <1>2, <1>3, <1>4 DEF RoadmapRecord
<1> QED
  BY <1>5, GoodLike

LEMMA PassedLike ==
    ASSUME NEW s, NEW e, Good(s, e)
    PROVE  /\ Good(Passed(s), e)
           /\ Passed(s).completed = s.completed
           /\ Passed(s).attempts = s.attempts
           /\ Passed(s).sha = s.sha
<1>1. s \in RoadmapRecord
  BY DEF Good
<1> DEFINE q == IF s.quarantine > 0 THEN s.quarantine - 1 ELSE 0
           b == IF s.backoff > 0 THEN s.backoff - 1 ELSE 0
<1>2. q \in Nat /\ b \in Nat
  <2>1. s.quarantine \in Nat /\ s.backoff \in Nat
    BY <1>1 DEF RoadmapRecord
  <2> QED
    BY <2>1
<1>3. Passed(s) = [s EXCEPT !.quarantine = q, !.backoff = b]
  BY <1>1 DEF Passed, RoadmapRecord
<1>4. /\ Passed(s) \in RoadmapRecord
      /\ Passed(s).completed = s.completed
      /\ Passed(s).attempts = s.attempts
      /\ Passed(s).meta = s.meta
      /\ Passed(s).sha = s.sha
  <2> HIDE DEF q, b
  <2> QED
    BY <1>1, <1>2, <1>3 DEF RoadmapRecord
<1> QED
  BY <1>4, GoodLike

LEMMA PauseLike ==
    ASSUME NEW s, NEW e, Good(s, e)
    PROVE  Good(PauseState(s), e) /\ Good(ResumeState(s), e)
<1>1. s \in RoadmapRecord
  BY DEF Good
<1>2. /\ PauseState(s) \in RoadmapRecord
      /\ PauseState(s).completed = s.completed
      /\ PauseState(s).meta = s.meta
      /\ PauseState(s).sha = s.sha
  BY <1>1 DEF PauseState, RoadmapRecord
<1>3. /\ ResumeState(s) \in RoadmapRecord
      /\ ResumeState(s).completed = s.completed
      /\ ResumeState(s).meta = s.meta
      /\ ResumeState(s).sha = s.sha
  BY <1>1 DEF ResumeState, RoadmapRecord
<1> QED
  BY <1>2, <1>3, GoodLike

\* A drift that is seen takes back what the new version takes back.
LEMMA DriftedGood ==
    ASSUME NEW s, NEW e, NEW v \in 1 .. MaxVersion, NEW b, NEW placeholders, Good(s, e)
    PROVE  /\ Good(Drifted(s, v, b, placeholders), e)
           /\ Drifted(s, v, b, placeholders).sha = v
<1> DEFINE taken == TakenBack(s, v, b, placeholders)
           d == Drifted(s, v, b, placeholders)
<1>1. s \in RoadmapRecord
  BY DEF Good
<1>2. v \in 0 .. MaxVersion /\ v # 0
  OBVIOUS
<1>3. CASE s.sha = v
  BY <1>3 DEF Drifted
<1>4. CASE s.sha # v
  <2> DEFINE a == [m \in Milestones |-> IF m \in taken THEN 0 ELSE s.attempts[m]]
             t == [m \in Milestones |-> IF m \in taken THEN 0 ELSE s.meta[m]]
  <2>1. a \in [Milestones -> 0 .. 3] /\ t \in [Milestones -> 0 .. MaxVersion]
    BY <1>1 DEF RoadmapRecord
  <2>2. d = [s EXCEPT !.completed = s.completed \ taken, !.attempts = a, !.meta = t, !.sha = v]
    BY <1>1, <1>4 DEF Drifted, Removed, RoadmapRecord
  <2>3. \A m \in (s.completed \ taken) \ Core : t[m] # v => m \notin ResetBy[v]
    <3> SUFFICES ASSUME NEW m \in (s.completed \ taken) \ Core, t[m] # v, m \in ResetBy[v]
                 PROVE  FALSE
      OBVIOUS
    <3>1. m \in Milestones
      BY <1>1 DEF RoadmapRecord
    <3>2. s.meta[m] # v
      BY <3>1
    <3>3. m \in taken
      BY <3>2 DEF TakenBack, Stale
    <3> QED
      BY <3>3
  <2>4. /\ d \in RoadmapRecord
        /\ d.completed = s.completed \ taken
        /\ d.meta = t
        /\ d.sha = v
    <3> HIDE DEF a, t, taken, d
    <3> QED
      BY <1>1, <1>2, <2>1, <2>2 DEF RoadmapRecord
  <2>5. NothingStale(d)
    <3> HIDE DEF t, taken, d
    <3> QED
      BY <1>2, <2>3, <2>4 DEF NothingStale
  <2> QED
    BY <2>4, <2>5 DEF Good
<1> QED
  BY <1>3, <1>4

\* What bootstrap finds is completed under the version at hand.
LEMMA BootstrappedGood ==
    ASSUME NEW s, NEW e, NEW b, Good(s, e), s.sha # 0
    PROVE  /\ Good(Bootstrapped(s, b), e \cup (Bootstrapped(s, b).completed \ s.completed))
           /\ Bootstrapped(s, b).sha = s.sha
<1>1. s \in RoadmapRecord /\ s.completed \subseteq e
  BY DEF Good
<1>2. CASE ~ BootstrapDue(s)
  BY <1>2, GoodGrows DEF Bootstrapped
<1>3. CASE BootstrapDue(s)
  <2> DEFINE found == Marked \cap b
             t == [m \in Milestones |-> IF m \in found THEN s.sha ELSE s.meta[m]]
             c == (s.completed \ Marked) \cup found
             n == Bootstrapped(s, b)
  <2>1. t \in [Milestones -> 0 .. MaxVersion] /\ c \in SUBSET Milestones
    BY <1>1 DEF RoadmapRecord
  <2>2. n = [s EXCEPT !.completed = c, !.meta = t, !.bootstrapped = TRUE]
    BY <1>1, <1>3 DEF Bootstrapped, RoadmapRecord
  <2>3. ASSUME NEW m \in c, t[m] # s.sha
        PROVE  m \in s.completed /\ t[m] = s.meta[m]
    BY <2>3, <2>1
  <2>4. /\ n \in RoadmapRecord
        /\ n.completed = c
        /\ n.meta = t
        /\ n.sha = s.sha
    <3> HIDE DEF t, c, n
    <3> QED
      BY <1>1, <2>1, <2>2 DEF RoadmapRecord
  <2>5. NothingStale(s) => NothingStale(n)
    <3> HIDE DEF t, c, n
    <3> QED
      BY <2>3, <2>4 DEF NothingStale
  <2>6. n.completed \subseteq e \cup (n.completed \ s.completed)
    BY <1>1
  <2> QED
    BY <2>4, <2>5, <2>6 DEF Good
<1> QED
  BY <1>2, <1>3

\* What is completed is completed under the version at hand.
LEMMA MarkCompletedGood ==
    ASSUME NEW s, NEW e, NEW m \in Milestones, Good(s, e), s.sha # 0
    PROVE  /\ Good(MarkCompleted(s, m), e \cup {m})
           /\ MarkCompleted(s, m).sha = s.sha
<1>1. s \in RoadmapRecord /\ s.completed \subseteq e
  BY DEF Good
<1> DEFINE t == [s.meta EXCEPT ![m] = s.sha]
           n == MarkCompleted(s, m)
<1>2. t \in [Milestones -> 0 .. MaxVersion]
  BY <1>1 DEF RoadmapRecord
<1>3. n = [s EXCEPT !.completed = s.completed \cup {m}, !.meta = t]
  BY <1>1 DEF MarkCompleted, RoadmapRecord
<1>4. \A x \in s.completed : t[x] # s.sha => t[x] = s.meta[x]
  BY <1>1 DEF RoadmapRecord
<1>5. t[m] = s.sha
  BY <1>1 DEF RoadmapRecord
<1>6. /\ n \in RoadmapRecord
      /\ n.completed = s.completed \cup {m}
      /\ n.meta = t
      /\ n.sha = s.sha
  <2> HIDE DEF t, n
  <2> QED
    BY <1>1, <1>2, <1>3 DEF RoadmapRecord
<1>7. NothingStale(s) => NothingStale(n)
  <2> HIDE DEF t, n
  <2> QED
    BY <1>4, <1>5, <1>6 DEF NothingStale
<1> QED
  BY <1>1, <1>6, <1>7 DEF Good

\* The next milestone has a place in the roadmap, and those before it are completed.
LEMMA NextMilestoneFirst ==
    ASSUME NEW completed, NextMilestone(completed) # NoMilestone
    PROVE  \E k \in DOMAIN Order :
              /\ NextMilestone(completed) = Order[k]
              /\ \A i \in DOMAIN Order : i < k => Order[i] \in completed
<1> DEFINE left == {i \in DOMAIN Order : Order[i] \notin completed}
           first == CHOOSE i \in left : \A j \in left : i =< j
<1>1. left # {}
  BY DEF NextMilestone
<1>2. \E i \in left : \A j \in left : i =< j
  BY <1>1
<1>3. first \in left /\ \A j \in left : first =< j
  <2> HIDE DEF left
  <2> QED
    BY <1>2
<1>4. NextMilestone(completed) = Order[first]
  BY <1>1 DEF NextMilestone
<1>5. ASSUME NEW i \in DOMAIN Order, i < first
      PROVE  Order[i] \in completed
  <2>1. i \in Nat /\ first \in Nat
    BY <1>3
  <2>2. i \notin left
    <3> HIDE DEF first, left
    <3> QED
      BY <1>3, <1>5, <2>1
  <2> QED
    BY <2>2
<1>6. first \in DOMAIN Order
  BY <1>3
<1> QED
  BY <1>4, <1>5, <1>6

LEMMA NextMilestoneType ==
    ASSUME NEW completed
    PROVE  NextMilestone(completed) \in Milestones \cup {NoMilestone}
<1>1. CASE NextMilestone(completed) = NoMilestone
  BY <1>1
<1>2. CASE NextMilestone(completed) # NoMilestone
  BY <1>2, NextMilestoneFirst
<1> QED
  BY <1>1, <1>2

-------------------------------------------------------------------------------
\* ---- the runners ------------------------------------------------------------------

LEMMA RunnersUntouched ==
    ASSUME RunnersGood, earned \subseteq earned', UNCHANGED runners
    PROVE  RunnersGood'
<1>1. /\ pc' = pc /\ call' = call /\ keep' = keep /\ mem' = mem
      /\ at' = at /\ elapsed' = elapsed /\ result' = result
  BY DEF runners
<1>2. \A q \in Runners : Good(keep[q], earned') /\ Good(mem[q], earned')
  BY GoodGrows DEF RunnersGood
<1> QED
  BY <1>1, <1>2 DEF RunnersGood, Working

LEMMA EndedGood ==
    ASSUME RunnersGood, earned \subseteq earned', NEW r \in Runners, Ended(r)
    PROVE  RunnersGood'
<1>1. DefaultState \in RoadmapRecord /\ Good(DefaultState, earned')
  BY DefaultGood DEF Good
<1>2. /\ pc' = [pc EXCEPT ![r] = "idle"]
      /\ call' = [call EXCEPT ![r] = "none"]
      /\ keep' = [keep EXCEPT ![r] = DefaultState]
      /\ mem' = [mem EXCEPT ![r] = DefaultState]
      /\ at' = [at EXCEPT ![r] = NoMilestone]
      /\ elapsed' = [elapsed EXCEPT ![r] = 0]
      /\ result' = [result EXCEPT ![r] = "none"]
  BY DEF Ended, Goto
<1>3. /\ pc' \in [Runners -> Labels] /\ call' \in [Runners -> Calls]
      /\ keep' \in [Runners -> RoadmapRecord] /\ mem' \in [Runners -> RoadmapRecord]
      /\ at' \in [Runners -> Milestones \cup {NoMilestone}]
      /\ elapsed' \in [Runners -> 0 .. Day] /\ result' \in [Runners -> Results]
  BY <1>1, <1>2 DEF RunnersGood, Labels, Calls, Results
<1>4. ASSUME NEW q \in Runners
      PROVE  /\ Good(keep'[q], earned') /\ Good(mem'[q], earned')
             /\ Working(q)' => Busy(mem'[q], at'[q])
             /\ call'[q] = "finish" => keep'[q].sha # 0
             /\ pc'[q] \in {"loop", "ingest", "promoted"} => call'[q] = "finish"
  <2>1. CASE q = r
    BY <1>1, <1>2, <2>1 DEF RunnersGood, Working
  <2>2. CASE q # r
    <3>1. Good(keep[q], earned') /\ Good(mem[q], earned')
      BY GoodGrows DEF RunnersGood
    <3> QED
      BY <1>2, <2>2, <3>1 DEF RunnersGood, Working
  <2> QED
    BY <2>1, <2>2
<1> QED
  BY <1>3, <1>4 DEF RunnersGood

LEMMA ReturnGood ==
    ASSUME RunnersGood, earned \subseteq earned', NEW r \in Runners,
           NEW res \in Results, Return(r, res)
    PROVE  RunnersGood'
<1>1. CASE Ended(r)
  BY <1>1, EndedGood
<1>2. CASE /\ call[r] = "finish"
           /\ pc' = [pc EXCEPT ![r] = "ingest"]
           /\ result' = [result EXCEPT ![r] = res]
           /\ mem' = [mem EXCEPT ![r] = DefaultState]
           /\ elapsed' = [elapsed EXCEPT ![r] = 0]
           /\ UNCHANGED << call, keep, at >>
  <2>1. DefaultState \in RoadmapRecord /\ Good(DefaultState, earned')
    BY DefaultGood DEF Good
  <2>2. /\ pc' \in [Runners -> Labels] /\ call' \in [Runners -> Calls]
        /\ keep' \in [Runners -> RoadmapRecord] /\ mem' \in [Runners -> RoadmapRecord]
        /\ at' \in [Runners -> Milestones \cup {NoMilestone}]
        /\ elapsed' \in [Runners -> 0 .. Day] /\ result' \in [Runners -> Results]
    BY <1>2, <2>1 DEF RunnersGood, Labels
  <2>3. ASSUME NEW q \in Runners
        PROVE  /\ Good(keep'[q], earned') /\ Good(mem'[q], earned')
               /\ Working(q)' => Busy(mem'[q], at'[q])
               /\ call'[q] = "finish" => keep'[q].sha # 0
               /\ pc'[q] \in {"loop", "ingest", "promoted"} => call'[q] = "finish"
    <3>1. Good(keep[q], earned') /\ Good(mem[q], earned')
      BY GoodGrows DEF RunnersGood
    <3>2. CASE q = r
      BY <1>2, <2>1, <3>1, <3>2 DEF RunnersGood, Working
    <3>3. CASE q # r
      BY <1>2, <3>1, <3>3 DEF RunnersGood, Working
    <3> QED
      BY <3>2, <3>3
  <2> QED
    BY <2>2, <2>3 DEF RunnersGood
<1> QED
  BY <1>1, <1>2 DEF Return, Goto

\* A runner that works on with a state that is good.
LEMMA WorksOn ==
    ASSUME RunnersGood, earned \subseteq earned', NEW r \in Runners,
           NEW s, Good(s, earned'), NEW m, Busy(s, m),
           NEW label \in {"readonly", "apply", "gates"},
           NEW c \in Calls, c = "finish" => call[r] = "finish",
           pc' = [pc EXCEPT ![r] = label],
           call' = [call EXCEPT ![r] = c],
           mem' = [mem EXCEPT ![r] = s],
           at' = [at EXCEPT ![r] = m],
           UNCHANGED << keep, elapsed, result >>
    PROVE  RunnersGood'
<1>1. s \in RoadmapRecord /\ m \in Milestones
  BY DEF Good, Busy
<1>2. /\ pc' \in [Runners -> Labels] /\ call' \in [Runners -> Calls]
      /\ keep' \in [Runners -> RoadmapRecord] /\ mem' \in [Runners -> RoadmapRecord]
      /\ at' \in [Runners -> Milestones \cup {NoMilestone}]
      /\ elapsed' \in [Runners -> 0 .. Day] /\ result' \in [Runners -> Results]
  BY <1>1 DEF RunnersGood, Labels
<1>3. ASSUME NEW q \in Runners
      PROVE  /\ Good(keep'[q], earned') /\ Good(mem'[q], earned')
             /\ Working(q)' => Busy(mem'[q], at'[q])
             /\ call'[q] = "finish" => keep'[q].sha # 0
             /\ pc'[q] \in {"loop", "ingest", "promoted"} => call'[q] = "finish"
  <2>1. Good(keep[q], earned') /\ Good(mem[q], earned')
    BY GoodGrows DEF RunnersGood
  <2>2. CASE q = r
    BY <2>1, <2>2 DEF RunnersGood, Working
  <2>3. CASE q # r
    BY <2>1, <2>3 DEF RunnersGood, Working
  <2> QED
    BY <2>2, <2>3
<1> QED
  BY <1>2, <1>3 DEF RunnersGood

\* A milestone that is begun.
LEMMA BeginsGood ==
    ASSUME RunnersGood, earned \subseteq earned', NEW r \in Runners,
           NEW s, Good(s, earned'), s.sha # 0,
           NEW c \in Calls, c = "finish" => call[r] = "finish",
           call' = [call EXCEPT ![r] = c], Begins(r, s)
    PROVE  RunnersGood' /\ Good(file', earned')
<1> DEFINE m == NextMilestone(s.completed)
           b == BumpAttempt(s, m)
<1>1. m \in Milestones
  BY NextMilestoneType DEF Begins
<1>2. /\ Good(b, earned') /\ b.completed = s.completed /\ b.sha = s.sha
      /\ b.attempts[m] # 0
  <2> HIDE DEF m
  <2> QED
    BY <1>1, BumpAttemptLike
<1>3. Busy(b, m)
  BY <1>1, <1>2 DEF Busy
<1>4. /\ file' = b
      /\ mem' = [mem EXCEPT ![r] = b]
      /\ at' = [at EXCEPT ![r] = m]
      /\ pc' = [pc EXCEPT ![r] = "readonly"]
      /\ UNCHANGED << keep, elapsed, result >>
  BY DEF Begins, Save, Goto
<1> HIDE DEF m, b
<1> QED
  BY <1>2, <1>3, <1>4, WorksOn

\* What follow finds in the file when it begins.
LEMMA SeenGood ==
    ASSUME Inv, NEW placeholders
    PROVE  /\ Good(Seen(placeholders), earned)
           /\ Seen(placeholders).sha # 0
<1>1. version \in 1 .. MaxVersion /\ Good(file, earned)
  BY DEF Inv, RestGood
<1>2. /\ Good(Drifted(file, version, built, placeholders), earned)
      /\ Drifted(file, version, built, placeholders).sha = version
  BY <1>1, DriftedGood
<1> QED
  BY <1>1, <1>2 DEF Seen

LEMMA ForcedGood ==
    ASSUME Inv, NEW placeholders, NEW option
    PROVE  /\ Good(Forced(Seen(placeholders), option), earned)
           /\ Forced(Seen(placeholders), option).sha # 0
<1> DEFINE s == Seen(placeholders)
<1>1. Good(s, earned) /\ s.sha # 0
  BY SeenGood
<1> HIDE DEF s
<1>2. /\ Good(Forced(s, option), earned)
      /\ Forced(s, option).sha # 0
  BY <1>1, LiftedLike DEF Forced
<1> QED
  BY <1>2 DEF s

-------------------------------------------------------------------------------
\* ---- the steps --------------------------------------------------------------------

LEMMA FollowInv ==
    ASSUME Inv, NEW r \in Runners, Follow(r)
    PROVE  Inv'
<1>. USE DEF Results
<1>0. RunnersGood /\ RestGood /\ Good(file, earned)
  BY DEF Inv
<1>1. CASE FollowDisabled(r)
  <2>1. RunnersGood'
    BY <1>0, <1>1, ReturnGood DEF FollowDisabled, history
  <2>2. RestGood' /\ file' = file /\ earned' = earned
    BY <1>0, <1>1 DEF FollowDisabled, Trouble, RestGood, history
  <2> QED
    BY <1>0, <2>1, <2>2 DEF Inv
<1>2. CASE FollowPaused(r)
  <2>1. PICK option \in Options(r), placeholders \in SUBSET Milestones :
           /\ file' = ClearBackoff(Forced(Seen(placeholders), option))
           /\ banned' = IF option.force THEN 0 ELSE banned
    BY <1>2 DEF FollowPaused
  <2>2. earned' = earned
    BY <1>2 DEF FollowPaused
  <2>3. Good(file', earned')
    BY <2>1, <2>2, ForcedGood, ClearBackoffLike
  <2>4. RunnersGood'
    BY <1>0, <1>2, <2>2, ReturnGood DEF FollowPaused
  <2>5. RestGood'
    BY <1>0, <1>2, <2>1 DEF FollowPaused, RestGood, counters
  <2> QED
    BY <2>3, <2>4, <2>5 DEF Inv
<1>3. CASE FollowBlocked(r)
  <2>1. PICK option \in Options(r), placeholders \in SUBSET Milestones :
           LET s == Forced(Seen(placeholders), option)
           IN  /\ file' = s
               /\ Return(r, IF s.quarantine > 0 THEN "STOP" ELSE "BACKOFF")
    BY <1>3 DEF FollowBlocked
  <2>2. earned' = earned
    BY <1>3 DEF FollowBlocked, history
  <2>3. Good(file', earned')
    BY <2>1, <2>2, ForcedGood
  <2>4. RunnersGood'
    BY <1>0, <2>1, <2>2, ReturnGood
  <2>5. RestGood'
    BY <1>0, <1>3 DEF FollowBlocked, RestGood, counters, history
  <2> QED
    BY <2>3, <2>4, <2>5 DEF Inv
<1>4. CASE FollowBegins(r)
  <2>1. PICK option \in Options(r), placeholders \in SUBSET Milestones :
           LET s == Forced(Seen(placeholders), option)
               b == Bootstrapped(s, built)
           IN  /\ \/ /\ NothingLeft(r, b)
                     /\ file' = IF BootstrapDue(s) THEN b ELSE Seen(placeholders)
                  \/ StoppedByIso(r, b)
                  \/ /\ Begins(r, b)
                     /\ call' = [call EXCEPT ![r] = IF @ = "finish" THEN @
                                                    ELSE IF option.plan THEN "plan" ELSE "follow"]
               /\ earned' = earned \cup (b.completed \ s.completed)
               /\ banned' = IF option.force THEN 0 ELSE banned
    BY <1>4 DEF FollowBegins
  <2> DEFINE s == Forced(Seen(placeholders), option)
             b == Bootstrapped(s, built)
             c == IF call[r] = "finish" THEN "finish" ELSE IF option.plan THEN "plan" ELSE "follow"
  <2>2. Good(s, earned) /\ s.sha # 0
    BY ForcedGood
  <2>3. Good(b, earned') /\ b.sha # 0 /\ earned \subseteq earned'
    <3> HIDE DEF s
    <3>1. /\ Good(b, earned \cup (b.completed \ s.completed))
          /\ b.sha = s.sha
      BY <2>2, BootstrappedGood
    <3>2. earned' = earned \cup (b.completed \ s.completed)
      BY <2>1 DEF s
    <3> QED
      BY <2>2, <3>1, <3>2
  <2>4. Good(Seen(placeholders), earned')
    BY <2>3, SeenGood, GoodGrows
  <2>5. RunnersGood' /\ Good(file', earned')
    <3>1. CASE NothingLeft(r, b) /\ file' = IF BootstrapDue(s) THEN b ELSE Seen(placeholders)
      <4>1. Good(file', earned')
        BY <2>3, <2>4, <3>1
      <4>2. RunnersGood'
        BY <1>0, <2>3, <3>1, ReturnGood DEF NothingLeft
      <4> QED
        BY <4>1, <4>2
    <3>2. CASE StoppedByIso(r, b)
      <4>1. Good(file', earned')
        <5> HIDE DEF b
        <5> QED
          BY <2>3, <3>2, ClearBackoffLike DEF StoppedByIso
      <4>2. RunnersGood'
        BY <1>0, <2>3, <3>2, ReturnGood DEF StoppedByIso
      <4> QED
        BY <4>1, <4>2
    <3>3. CASE Begins(r, b) /\ call' = [call EXCEPT ![r] = c]
      <4>1. c \in Calls /\ (c = "finish" => call[r] = "finish")
        BY DEF Calls
      <4> HIDE DEF b, c
      <4> QED
        BY <1>0, <2>3, <3>3, <4>1, BeginsGood
    <3>4. (call' = [call EXCEPT ![r] = IF @ = "finish" THEN @
                                       ELSE IF option.plan THEN "plan" ELSE "follow"])
             => call' = [call EXCEPT ![r] = c]
      BY <1>0 DEF RunnersGood
    <3> QED
      BY <2>1, <3>1, <3>2, <3>3, <3>4
  <2>6. RestGood'
    <3>1. b.completed \subseteq Milestones
      BY <2>3 DEF Good, RoadmapRecord
    <3>2. earned' \subseteq Milestones
      BY <1>0, <2>1, <3>1 DEF RestGood
    <3>3. banned' \in 0 .. Day
      BY <1>0, <2>1 DEF RestGood
    <3> QED
      BY <1>0, <1>4, <3>2, <3>3 DEF FollowBegins, RestGood, counters
  <2> QED
    BY <2>5, <2>6 DEF Inv
<1> QED
  BY <1>1, <1>2, <1>3, <1>4 DEF Follow

\* What a failure costs.
LEMMA FailInv ==
    ASSUME Inv, NEW r \in Runners, Working(r), Fail(r), built' \subseteq Milestones
    PROVE  Inv'
<1>1. RunnersGood /\ RestGood
  BY DEF Inv
<1>2. earned' = earned
  BY DEF Fail
<1>3. Good(mem[r], earned) /\ Busy(mem[r], at[r]) /\ elapsed[r] \in 0 .. Day
  BY <1>1 DEF RunnersGood
<1>4. file' = Penalised(mem[r], at[r], elapsed[r])
  BY DEF Fail
<1>5. Good(file', earned')
  BY <1>2, <1>3, <1>4, PenalisedLike DEF Busy
<1>6. RunnersGood'
  BY <1>1, <1>2, ReturnGood DEF Fail, Results
<1>7. RestGood'
  <2>1. Left(Day, elapsed[r]) \in 0 .. Day
    BY <1>3, LeftType
  <2>2. banned' \in 0 .. Day
    BY <1>1, <2>1 DEF Fail, RestGood
  <2> QED
    BY <1>1, <2>2 DEF Fail, Trouble, RestGood
<1> QED
  BY <1>5, <1>6, <1>7 DEF Inv

LEMMA MilestoneInv ==
    ASSUME Inv, NEW r \in Runners, Milestone(r)
    PROVE  Inv'
<1>. USE DEF Results
<1>0. RunnersGood /\ RestGood /\ Good(file, earned)
  BY DEF Inv
<1>1. Working(r)
  BY DEF Milestone, ReadonlyFails, ReadonlyDirty, ReadonlyPasses, ApplyFails, ApplyPasses,
         GatesFail, GatesPass, Working
<1>2. Good(mem[r], earned) /\ Busy(mem[r], at[r]) /\ built \subseteq Milestones
  BY <1>0, <1>1 DEF RunnersGood, RestGood
<1>3. CASE ReadonlyFails(r) \/ ApplyFails(r) \/ GatesFail(r)
  <2>1. built' \subseteq Milestones
    BY <1>2, <1>3 DEF ReadonlyFails, ApplyFails, GatesFail, Busy
  <2> QED
    BY <1>1, <1>3, <2>1, FailInv DEF ReadonlyFails, ApplyFails, GatesFail
<1>4. CASE ReadonlyDirty(r)
  <2>1. file' = mem[r] /\ earned' = earned
    BY <1>4 DEF ReadonlyDirty, history
  <2>2. RunnersGood'
    BY <1>0, <1>4, <2>1, ReturnGood DEF ReadonlyDirty
  <2>3. RestGood'
    BY <1>0, <1>4 DEF ReadonlyDirty, Trouble, RestGood, history
  <2> QED
    BY <1>2, <2>1, <2>2, <2>3 DEF Inv
<1>5. CASE ReadonlyPasses(r)
  <2>1. earned' = earned
    BY <1>5 DEF ReadonlyPasses, history
  <2>2. RestGood'
    BY <1>0, <1>5 DEF ReadonlyPasses, RestGood, history, counters
  <2>3. CASE file' = ClearBackoff(mem[r]) /\ Return(r, "OK")
    <3>1. Good(file', earned')
      BY <1>2, <2>1, <2>3, ClearBackoffLike
    <3>2. RunnersGood'
      BY <1>0, <2>1, <2>3, ReturnGood
    <3> QED
      BY <2>2, <3>1, <3>2 DEF Inv
  <2>4. CASE /\ Save(r, mem[r])
             /\ Goto(r, "apply")
             /\ UNCHANGED << call, keep, at, elapsed, result >>
    <3>1. /\ file' = mem[r]
          /\ mem' = [mem EXCEPT ![r] = mem[r]]
          /\ pc' = [pc EXCEPT ![r] = "apply"]
          /\ call' = [call EXCEPT ![r] = call[r]]
          /\ at' = [at EXCEPT ![r] = at[r]]
          /\ UNCHANGED << keep, elapsed, result >>
      BY <1>0, <2>4 DEF Save, Goto, RunnersGood
    <3>2. RunnersGood'
      BY <1>0, <1>2, <2>1, <3>1, WorksOn DEF RunnersGood
    <3> QED
      BY <1>2, <2>1, <2>2, <3>1, <3>2 DEF Inv
  <2> QED
    BY <1>5, <2>3, <2>4 DEF ReadonlyPasses
<1>6. CASE ApplyPasses(r)
  <2>1. earned' = earned
    BY <1>6 DEF ApplyPasses, history
  <2>2. RestGood'
    BY <1>0, <1>2, <1>6 DEF ApplyPasses, RestGood, Busy, history, counters
  <2>3. /\ file' = mem[r]
        /\ mem' = [mem EXCEPT ![r] = mem[r]]
        /\ pc' = [pc EXCEPT ![r] = "gates"]
        /\ call' = [call EXCEPT ![r] = call[r]]
        /\ at' = [at EXCEPT ![r] = at[r]]
        /\ UNCHANGED << keep, elapsed, result >>
    BY <1>0, <1>6 DEF ApplyPasses, Save, Goto, RunnersGood
  <2>4. RunnersGood'
    BY <1>0, <1>2, <2>1, <2>3, WorksOn DEF RunnersGood
  <2> QED
    BY <1>2, <2>1, <2>2, <2>3, <2>4 DEF Inv
<1>7. CASE GatesPass(r)
  <2> DEFINE s == MarkCompleted(Lifted(mem[r]), at[r])
  <2>1. earned' = earned \cup {at[r]} /\ earned \subseteq earned'
    BY <1>7 DEF GatesPass
  <2>2. Good(s, earned') /\ s.sha # 0
    <3>1. Good(Lifted(mem[r]), earned) /\ Lifted(mem[r]).sha = mem[r].sha
      BY <1>2, LiftedLike
    <3>2. at[r] \in Milestones /\ mem[r].sha # 0
      BY <1>2 DEF Busy
    <3> DEFINE l == Lifted(mem[r])
    <3>3. Good(l, earned) /\ l.sha # 0
      BY <3>1, <3>2
    <3>4. Good(MarkCompleted(l, at[r]), earned \cup {at[r]}) /\ MarkCompleted(l, at[r]).sha # 0
      <4> HIDE DEF l
      <4> QED
        BY <3>2, <3>3, MarkCompletedGood
    <3> QED
      BY <2>1, <3>4
  <2> HIDE DEF s
  <2>3. RunnersGood' /\ Good(file', earned')
    <3>1. CASE file' = s /\ (Return(r, "OK") \/ NothingLeft(r, s))
      BY <1>0, <2>1, <2>2, <3>1, ReturnGood DEF NothingLeft
    <3>2. CASE StoppedByIso(r, s)
      BY <1>0, <2>1, <2>2, <3>2, ReturnGood, ClearBackoffLike DEF StoppedByIso
    <3>3. CASE Begins(r, s) /\ UNCHANGED call /\ call[r] = "follow"
      <4>1. call' = [call EXCEPT ![r] = call[r]] /\ call[r] \in Calls
        BY <1>0, <3>3 DEF RunnersGood
      <4> QED
        BY <1>0, <2>1, <2>2, <3>3, <4>1, BeginsGood
    <3> QED
      BY <1>7, <3>1, <3>2, <3>3 DEF GatesPass, s
  <2>4. RestGood'
    BY <1>0, <1>2, <1>7 DEF GatesPass, RestGood, Busy, counters
  <2> QED
    BY <2>3, <2>4 DEF Inv
<1> QED
  BY <1>3, <1>4, <1>5, <1>6, <1>7 DEF Milestone

\* A runner that does not work on a milestone: a finish between its calls of follow.
LEMMA FinishGoesOn ==
    ASSUME RunnersGood, earned \subseteq earned', NEW r \in Runners, ~ Working(r)',
           NEW k, Good(k, earned'), k.sha # 0,
           keep' = [keep EXCEPT ![r] = k],
           NEW label \in Labels, pc' = [pc EXCEPT ![r] = label],
           call' = [call EXCEPT ![r] = "finish"],
           at' = at \/ at' = [at EXCEPT ![r] = NoMilestone],
           result' = result \/ result' = [result EXCEPT ![r] = "none"],
           UNCHANGED << mem, elapsed >>
    PROVE  RunnersGood'
<1>1. k \in RoadmapRecord
  BY DEF Good
<1>2. /\ pc' \in [Runners -> Labels] /\ call' \in [Runners -> Calls]
      /\ keep' \in [Runners -> RoadmapRecord] /\ mem' \in [Runners -> RoadmapRecord]
      /\ at' \in [Runners -> Milestones \cup {NoMilestone}]
      /\ elapsed' \in [Runners -> 0 .. Day] /\ result' \in [Runners -> Results]
  <2>1. pc' \in [Runners -> Labels] /\ call' \in [Runners -> Calls]
    BY DEF RunnersGood, Calls
  <2>2. keep' \in [Runners -> RoadmapRecord] /\ mem' \in [Runners -> RoadmapRecord]
    BY <1>1 DEF RunnersGood
  <2>3. at' \in [Runners -> Milestones \cup {NoMilestone}]
    BY DEF RunnersGood
  <2>4. result' \in [Runners -> Results]
    BY DEF RunnersGood, Results
  <2>5. elapsed' \in [Runners -> 0 .. Day]
    BY DEF RunnersGood
  <2> QED
    BY <2>1, <2>2, <2>3, <2>4, <2>5
<1>3. ASSUME NEW q \in Runners
      PROVE  /\ Good(keep'[q], earned') /\ Good(mem'[q], earned')
             /\ Working(q)' => Busy(mem'[q], at'[q])
             /\ call'[q] = "finish" => keep'[q].sha # 0
             /\ pc'[q] \in {"loop", "ingest", "promoted"} => call'[q] = "finish"
  <2>1. Good(keep[q], earned') /\ Good(mem[q], earned')
    BY GoodGrows DEF RunnersGood
  <2>2. CASE q = r
    BY <2>1, <2>2 DEF RunnersGood
  <2>3. CASE q # r
    BY <2>1, <2>3 DEF RunnersGood, Working
  <2> QED
    BY <2>2, <2>3
<1> QED
  BY <1>2, <1>3 DEF RunnersGood

LEMMA FinishInv ==
    ASSUME Inv, NEW r \in Runners, Finish(r)
    PROVE  Inv'
<1>. USE DEF Results
<1>0. RunnersGood /\ RestGood /\ Good(file, earned)
  BY DEF Inv
<1>1. CASE FinishStart(r)
  <2>1. PICK placeholders \in SUBSET Milestones :
           LET s == Seen(placeholders)
               b == Bootstrapped(s, built)
           IN  /\ file' = b
               /\ earned' = earned \cup (b.completed \ s.completed)
               /\ \/ b.paused /\ UNCHANGED << built, pc, call, keep, troubles >>
                  \/ ~ b.paused /\ built' = built \cup {Session}
                     /\ \/ Trouble /\ UNCHANGED << pc, call, keep >>
                        \/ /\ Goto(r, "loop")
                           /\ call' = [call EXCEPT ![r] = "finish"]
                           /\ keep' = [keep EXCEPT ![r] = b]
                           /\ UNCHANGED troubles
    BY <1>1 DEF FinishStart
  <2> DEFINE s == Seen(placeholders)
             b == Bootstrapped(s, built)
  <2>2. Good(s, earned) /\ s.sha # 0
    BY SeenGood
  <2>3. Good(b, earned') /\ b.sha # 0 /\ earned \subseteq earned'
    <3>1. earned' = earned \cup (b.completed \ s.completed)
      BY <2>1
    <3> HIDE DEF s
    <3>2. /\ Good(b, earned \cup (b.completed \ s.completed))
          /\ b.sha = s.sha
      BY <2>2, BootstrappedGood
    <3> QED
      BY <2>2, <3>1, <3>2
  <2>4. UNCHANGED << version, mem, at, elapsed, result, banned, held, overwrote, commands >>
    BY <1>1 DEF FinishStart
  <2>5. RunnersGood'
    <3>1. CASE UNCHANGED << pc, call, keep >>
      BY <1>0, <2>3, <2>4, <3>1, RunnersUntouched DEF runners
    <3>2. CASE /\ Goto(r, "loop")
               /\ call' = [call EXCEPT ![r] = "finish"]
               /\ keep' = [keep EXCEPT ![r] = b]
      <4>1. pc' = [pc EXCEPT ![r] = "loop"] /\ ~ Working(r)' /\ "loop" \in Labels
        BY <1>0, <3>2 DEF Goto, Working, RunnersGood, Labels
      <4> HIDE DEF b
      <4> QED
        BY <1>0, <2>3, <2>4, <3>2, <4>1, FinishGoesOn
    <3> QED
      BY <2>1, <3>1, <3>2
  <2>6. RestGood'
    <3>1. b.completed \subseteq Milestones
      BY <2>3 DEF Good, RoadmapRecord
    <3>2. earned' \subseteq Milestones
      BY <1>0, <2>1, <3>1 DEF RestGood
    <3>3. built' \subseteq Milestones /\ troubles' \in 0 .. MaxTroubles
      BY <1>0, <2>1 DEF RestGood, Trouble
    <3> QED
      BY <1>0, <2>4, <3>2, <3>3 DEF RestGood
  <2>7. Good(file', earned')
    BY <2>1, <2>3
  <2> QED
    BY <2>5, <2>6, <2>7 DEF Inv
<1>2. CASE FinishDone(r) \/ FinishStops(r)
  <2>1. Ended(r) /\ file' = file /\ earned' = earned
    BY <1>2 DEF FinishDone, FinishStops, history
  <2>2. RestGood'
    BY <1>0, <1>2 DEF FinishDone, FinishStops, Trouble, RestGood, history, counters
  <2> QED
    BY <1>0, <2>1, <2>2, EndedGood DEF Inv
<1>3. CASE Promote(r)
  <2> DEFINE s == MarkCompleted(keep[r], Bundle)
  <2>1. Good(keep[r], earned) /\ keep[r].sha # 0 /\ call[r] = "finish"
    BY <1>0, <1>3 DEF Promote, MayPromote, RunnersGood
  <2>2. earned' = earned \cup {Bundle}
    BY <1>3 DEF Promote
  <2>3. Good(s, earned') /\ s.sha # 0
    <3> DEFINE k == keep[r]
    <3>1. Good(k, earned) /\ k.sha # 0
      BY <2>1
    <3>2. Good(MarkCompleted(k, Bundle), earned \cup {Bundle}) /\ MarkCompleted(k, Bundle).sha # 0
      <4> HIDE DEF k
      <4> QED
        BY <3>1, MarkCompletedGood
    <3> QED
      BY <2>2, <3>2
  <2>4. /\ keep' = [keep EXCEPT ![r] = s]
        /\ pc' = [pc EXCEPT ![r] = "promoted"] /\ ~ Working(r)' /\ "promoted" \in Labels
        /\ call' = [call EXCEPT ![r] = "finish"]
        /\ UNCHANGED << mem, at, elapsed, result >>
    BY <1>0, <1>3, <2>1 DEF Promote, Goto, Working, RunnersGood, Labels
  <2>5. RunnersGood'
    <3> HIDE DEF s
    <3> QED
      BY <1>0, <2>2, <2>3, <2>4, FinishGoesOn
  <2>6. RestGood'
    BY <1>0, <1>3 DEF Promote, RestGood, counters
  <2> QED
    BY <1>3, <2>3, <2>5, <2>6 DEF Promote, Inv
<1>4. CASE PromoteFails(r) \/ PromoteNothing(r)
  <2>1. file' = file /\ earned' = earned
    BY <1>4 DEF PromoteFails, PromoteNothing, history
  <2>2. call[r] = "finish" /\ Good(keep[r], earned) /\ keep[r].sha # 0
    BY <1>0, <1>4 DEF PromoteFails, PromoteNothing, MayPromote, RunnersGood
  <2>3. /\ keep' = [keep EXCEPT ![r] = keep[r]]
        /\ pc' = [pc EXCEPT ![r] = "promoted"] /\ ~ Working(r)' /\ "promoted" \in Labels
        /\ call' = [call EXCEPT ![r] = "finish"]
        /\ UNCHANGED << mem, at, elapsed, result >>
    BY <1>0, <1>4, <2>2 DEF PromoteFails, PromoteNothing, Goto, Working, RunnersGood, Labels
  <2>4. RunnersGood'
    BY <1>0, <2>1, <2>2, <2>3, FinishGoesOn
  <2>5. RestGood'
    BY <1>0, <1>4 DEF PromoteFails, PromoteNothing, Trouble, RestGood, history, counters
  <2> QED
    BY <1>0, <2>1, <2>4, <2>5 DEF Inv
<1>5. CASE FinishContinues(r)
  <2>1. file' = file /\ earned' = earned
    BY <1>5 DEF FinishContinues, history
  <2>2. RunnersGood'
    <3>1. CASE Ended(r)
      BY <1>0, <2>1, <3>1, EndedGood
    <3>2. CASE ~ Ended(r)
      <4>1. call[r] = "finish" /\ Good(keep[r], earned) /\ keep[r].sha # 0
        BY <1>0, <1>5 DEF FinishContinues, RunnersGood
      <4>2. /\ keep' = [keep EXCEPT ![r] = keep[r]]
            /\ pc' = [pc EXCEPT ![r] = "loop"] /\ ~ Working(r)' /\ "loop" \in Labels
            /\ call' = [call EXCEPT ![r] = "finish"]
            /\ at' = [at EXCEPT ![r] = NoMilestone]
            /\ result' = [result EXCEPT ![r] = "none"]
            /\ UNCHANGED << mem, elapsed >>
        BY <1>0, <1>5, <3>2, <4>1 DEF FinishContinues, Goto, Working, RunnersGood, Labels
      <4> QED
        BY <1>0, <2>1, <4>1, <4>2, FinishGoesOn
    <3> QED
      BY <3>1, <3>2
  <2>3. RestGood'
    BY <1>0, <1>5 DEF FinishContinues, RestGood, history, counters
  <2> QED
    BY <1>0, <2>1, <2>2, <2>3 DEF Inv
<1> QED
  BY <1>1, <1>2, <1>3, <1>4, <1>5 DEF Finish

\* Without SyncAfterEdit the hash is recorded over that of the same version, or over
\* the default state.
LEMMA SyncGood ==
    ASSUME Inv, Sync
    PROVE  Good(file', earned)
<1>1. Good(file, earned) /\ version \in 1 .. MaxVersion
  BY DEF Inv, RestGood
<1>2. file \in RoadmapRecord
  BY <1>1 DEF Good
<1>3. file' = [file EXCEPT !.sha = version]
  BY DEF Sync
<1>4. /\ file' \in RoadmapRecord
      /\ file'.completed = file.completed /\ file'.meta = file.meta
      /\ file'.sha = version
  <2>1. version \in 0 .. MaxVersion
    BY <1>1
  <2> QED
    BY <1>2, <1>3, <2>1 DEF RoadmapRecord
<1>5. ASSUME ~ SyncAfterEdit
      PROVE  NothingStale(file')
  <2>1. NothingStale(file) /\ file.sha \in {0, version}
    BY <1>1, <1>5 DEF Good, Sync
  <2> QED
    BY <1>1, <1>4, <2>1 DEF NothingStale
<1> QED
  BY <1>1, <1>4, <1>5 DEF Good

LEMMA TickInv == Inv /\ Tick => Inv'
<1> SUFFICES ASSUME Inv, Tick PROVE Inv'
  OBVIOUS
<1>1. RunnersGood /\ RestGood /\ Good(file, earned)
  BY DEF Inv
<1>2. /\ file' = Passed(file)
      /\ keep' = [r \in Runners |-> Passed(keep[r])]
      /\ mem' = [r \in Runners |-> Passed(mem[r])]
      /\ elapsed' = [r \in Runners |-> IF Working(r) /\ elapsed[r] < Day THEN elapsed[r] + 1
                                       ELSE elapsed[r]]
      /\ banned' = IF banned > 0 THEN banned - 1 ELSE 0
      /\ UNCHANGED << version, built, pc, call, at, result, earned, held, overwrote, counters >>
  BY DEF Tick
<1>3. Good(file', earned')
  BY <1>1, <1>2, PassedLike
<1>4. ASSUME NEW r \in Runners
      PROVE  /\ Good(keep'[r], earned') /\ Good(mem'[r], earned')
             /\ Working(r)' => Busy(mem'[r], at'[r])
             /\ call'[r] = "finish" => keep'[r].sha # 0
             /\ pc'[r] \in {"loop", "ingest", "promoted"} => call'[r] = "finish"
  <2> DEFINE k == keep[r]
             m == mem[r]
  <2>1. Good(k, earned) /\ Good(m, earned) /\ (Working(r) => Busy(m, at[r]))
    BY <1>1 DEF RunnersGood
  <2>2. keep'[r] = Passed(k) /\ mem'[r] = Passed(m)
    BY <1>2
  <2>3. call[r] = "finish" => k.sha # 0
    BY <1>1 DEF RunnersGood
  <2>4. pc[r] \in {"loop", "ingest", "promoted"} => call[r] = "finish"
    BY <1>1 DEF RunnersGood
  <2> HIDE DEF k, m
  <2>5. Good(Passed(k), earned) /\ Passed(k).sha = k.sha
    BY <2>1, PassedLike
  <2>6. Good(Passed(m), earned) /\ (Busy(m, at[r]) => Busy(Passed(m), at[r]))
    BY <2>1, PassedLike DEF Busy
  <2> QED
    BY <1>2, <2>1, <2>2, <2>3, <2>4, <2>5, <2>6 DEF Working
<1>5. /\ keep' \in [Runners -> RoadmapRecord]
      /\ mem' \in [Runners -> RoadmapRecord]
  BY <1>2, <1>4 DEF Good
<1>6. elapsed' \in [Runners -> 0 .. Day]
  <2>1. \A r \in Runners : elapsed[r] \in 0 .. Day
    BY <1>1 DEF RunnersGood
  <2> QED
    BY <1>2, <2>1
<1>7. RunnersGood'
  BY <1>1, <1>2, <1>4, <1>5, <1>6 DEF RunnersGood
<1>8. RestGood'
  BY <1>1, <1>2 DEF RestGood, counters
<1> QED
  BY <1>3, <1>7, <1>8 DEF Inv

LEMMA EnvironmentInv ==
    ASSUME Inv, Environment
    PROVE  Inv'
<1>0. RunnersGood /\ RestGood /\ Good(file, earned)
  BY DEF Inv
<1>1. CASE Tick
  BY <1>1, TickInv
<1>2. CASE ~ Tick
  <2>1. UNCHANGED runners /\ earned' = earned
    BY <1>2 DEF Environment, Pause, Resume, Sync, SyncReset, Edit, Clean, history
  <2>2. Good(file', earned')
    <3>1. CASE Pause \/ Resume
      BY <1>0, <2>1, <3>1, PauseLike DEF Pause, Resume
    <3>2. CASE Sync
      BY <2>1, <3>2, SyncGood
    <3>3. CASE SyncReset
      <4>1. file' = [DefaultState EXCEPT !.sha = version] /\ version \in 1 .. MaxVersion
        BY <1>0, <3>3 DEF SyncReset, RestGood
      <4>2. DefaultState \in RoadmapRecord /\ DefaultState.completed = {}
        BY DefaultGood DEF Good, DefaultState
      <4>3. file' \in RoadmapRecord /\ file'.completed = {} /\ file'.sha # 0
        <5>1. version \in 0 .. MaxVersion /\ version # 0
          BY <4>1
        <5> QED
          BY <4>1, <4>2, <5>1 DEF RoadmapRecord
      <4> QED
        BY <4>3 DEF Good, NothingStale
    <3>4. CASE Edit \/ Clean
      BY <1>0, <2>1, <3>4 DEF Edit, Clean
    <3> QED
      BY <1>2, <3>1, <3>2, <3>3, <3>4 DEF Environment
  <2>3. RunnersGood'
    BY <1>0, <2>1, RunnersUntouched
  <2>4. RestGood'
    <3>1. CASE Pause
      BY <1>0, <3>1 DEF Pause, Command, RestGood
    <3>2. CASE Resume
      BY <1>0, <3>2 DEF Resume, RestGood, counters
    <3>3. CASE Sync
      BY <1>0, <3>3 DEF Sync, Command, RestGood, history
    <3>4. CASE SyncReset
      <4>1. banned' = 0 /\ held' = FALSE /\ commands' = commands + 1 /\ commands < MaxCommands
        BY <3>4 DEF SyncReset, Command
      <4>2. UNCHANGED << version, built, earned, overwrote, troubles >>
        BY <3>4 DEF SyncReset
      <4>3. banned' \in 0 .. Day /\ commands' \in 0 .. MaxCommands
        BY <1>0, <4>1 DEF RestGood
      <4> QED
        BY <1>0, <4>1, <4>2, <4>3 DEF RestGood
    <3>5. CASE Edit
      BY <1>0, <3>5 DEF Edit, RestGood, history, counters
    <3>6. CASE Clean
      BY <1>0, <3>6 DEF Clean, Command, RestGood, history
    <3> QED
      BY <1>2, <3>1, <3>2, <3>3, <3>4, <3>5, <3>6 DEF Environment
  <2> QED
    BY <2>2, <2>3, <2>4 DEF Inv
<1> QED
  BY <1>1, <1>2

LEMMA KillInv ==
    ASSUME Inv, NEW r \in Runners, Kill(r)
    PROVE  Inv'
<1>1. RunnersGood /\ RestGood /\ Good(file, earned)
  BY DEF Inv
<1>2. Ended(r) /\ file' = file /\ earned' = earned
  BY DEF Kill, history
<1>3. RestGood'
  BY <1>1 DEF Kill, Trouble, RestGood, history
<1> QED
  BY <1>1, <1>2, <1>3, EndedGood DEF Inv

LEMMA InitInv == Init => Inv
<1> SUFFICES ASSUME Init PROVE Inv
  OBVIOUS
<1>1. DefaultState \in RoadmapRecord /\ Good(DefaultState, {})
  <2>1. Good(DefaultState, {})
    BY DefaultGood
  <2> QED
    BY <2>1 DEF Good
<1>2. RunnersGood
  BY <1>1 DEF Init, RunnersGood, Working, Labels, Calls, Results
<1>3. RestGood
  <2>1. 1 \in 1 .. MaxVersion /\ 0 \in 0 .. Day
    OBVIOUS
  <2>2. 0 \in 0 .. MaxTroubles /\ 0 \in 0 .. MaxCommands
    OBVIOUS
  <2> QED
    BY <2>1, <2>2 DEF Init, RestGood
<1> QED
  BY <1>1, <1>2, <1>3 DEF Init, Inv

LEMMA InvStep ==
    ASSUME Inv, [Next]_vars
    PROVE  Inv'
<1>1. CASE UNCHANGED vars
  <2>1. RunnersGood' /\ file' = file /\ earned' = earned
    BY <1>1, RunnersUntouched DEF vars, Inv, history
  <2>2. RestGood'
    BY <1>1 DEF vars, Inv, RestGood, history, counters
  <2> QED
    BY <2>1, <2>2 DEF Inv
<1>2. CASE Next
  BY <1>2, FollowInv, MilestoneInv, FinishInv, KillInv, EnvironmentInv DEF Next
<1> QED
  BY <1>1, <1>2

THEOREM Invariance == Spec => []Inv
BY InitInv, InvStep, PTL DEF Spec

\* Whatever is called, killed, edited or removed, the file and what the runners
\* hold are states of the roadmap (src/roadmap/state.py).
THEOREM TypeCorrect == Spec => []TypeOK
<1>1. Inv => TypeOK
  BY DEF Inv, Good, RunnersGood, RestGood, TypeOK, Labels, Calls, Results
<1> QED
  BY <1>1, Invariance, PTL

\* No runner takes up a milestone before every one in front of it has been earned,
\* although the file has no lock and the roadmap and the workspace change under it
\* (_next_milestone, mark_completed, drift and bootstrap of follow and finish).
THEOREM MilestonesInOrder == Spec => []InOrder
<1>1. Inv => InOrder
  <2> SUFFICES ASSUME Inv, NEW r \in Runners, NEW i \in DOMAIN Order, NEW j \in DOMAIN Order,
                      Working(r), at[r] = Order[j], i < j
               PROVE  Order[i] \in earned
    BY DEF InOrder
  <2>1. Busy(mem[r], at[r]) /\ mem[r].completed \subseteq earned
    BY DEF Inv, RunnersGood, Good
  <2>2. at[r] = NextMilestone(mem[r].completed) /\ at[r] # NoMilestone
    BY <2>1 DEF Busy
  <2>3. PICK k \in DOMAIN Order :
           /\ at[r] = Order[k]
           /\ \A x \in DOMAIN Order : x < k => Order[x] \in mem[r].completed
    BY <2>2, NextMilestoneFirst
  <2>4. k = j
    BY <2>3
  <2> QED
    BY <2>1, <2>3, <2>4
<1> QED
  BY <1>1, Invariance, PTL

\* No save, by any runner from whatever old copy, brings back a milestone that the
\* version it claims to have seen takes back, if the hash of the roadmap is only
\* recorded by those who look at the drift.
THEOREM DriftSound == ~ SyncAfterEdit /\ Spec => []DriftKept
<1> SUFFICES ASSUME ~ SyncAfterEdit PROVE Spec => []DriftKept
  OBVIOUS
<1>1. Inv => DriftKept
  BY DEF Inv, RunnersGood, Good, DriftKept
<1> QED
  BY <1>1, Invariance, PTL

-------------------------------------------------------------------------------
\* ---- what every save keeps --------------------------------------------------------

\* From here on the assumptions on the constants are not needed.
HIDE RunnerAssumption
HIDE RoadmapAssumption

\* Once bootstrap has looked at the files it does not look at them again, unless
\* nothing is completed.
Boot(s) == s.bootstrapped \/ s.completed = {}

LEMMA LiftsKeep ==
    ASSUME NEW s \in RoadmapRecord
    PROVE  /\ ClearBackoff(s).paused = s.paused
           /\ ClearBackoff(s).quarantine = s.quarantine
           /\ ClearBackoff(s).bootstrapped = s.bootstrapped
           /\ ClearBackoff(s).completed = s.completed
           /\ Lifted(s).paused = s.paused
           /\ Lifted(s).quarantine = 0
           /\ Lifted(s).backoff = 0
           /\ Lifted(s).bootstrapped = s.bootstrapped
           /\ Lifted(s).completed = s.completed
           /\ Lifted(s).meta = s.meta
BY DEF ClearBackoff, Lifted, ClearQuarantine, RoadmapRecord

LEMMA PausesKeep ==
    ASSUME NEW s \in RoadmapRecord
    PROVE  /\ PauseState(s).paused = TRUE
           /\ PauseState(s).quarantine = s.quarantine
           /\ PauseState(s).bootstrapped = s.bootstrapped
           /\ PauseState(s).completed = s.completed
           /\ ResumeState(s).quarantine = s.quarantine
           /\ ResumeState(s).bootstrapped = s.bootstrapped
           /\ ResumeState(s).completed = s.completed
BY DEF PauseState, ResumeState, RoadmapRecord

LEMMA BumpAttemptKeeps ==
    ASSUME NEW s \in RoadmapRecord, NEW m
    PROVE  /\ BumpAttempt(s, m).paused = s.paused
           /\ BumpAttempt(s, m).quarantine = s.quarantine
           /\ BumpAttempt(s, m).bootstrapped = s.bootstrapped
           /\ BumpAttempt(s, m).completed = s.completed
BY DEF BumpAttempt, RoadmapRecord

LEMMA PenalisedKeeps ==
    ASSUME NEW s \in RoadmapRecord, NEW m, NEW n
    PROVE  /\ s.attempts[m] >= 3 => Penalised(s, m, n).quarantine = Left(Day, n)
           /\ Penalised(s, m, n).bootstrapped = s.bootstrapped
           /\ Penalised(s, m, n).completed = s.completed
<1> DEFINE b == Left(BackoffOf[s.attempts[m]], n)
           q == IF s.attempts[m] >= 3 THEN Left(Day, n) ELSE s.quarantine
<1>1. Penalised(s, m, n) = [s EXCEPT !.backoff = b, !.quarantine = q]
  BY DEF Penalised, RoadmapRecord
<1>2. s.attempts[m] >= 3 => q = Left(Day, n)
  OBVIOUS
<1> HIDE DEF b, q
<1> QED
  BY <1>1, <1>2 DEF RoadmapRecord

LEMMA MarkCompletedKeeps ==
    ASSUME NEW s \in RoadmapRecord, NEW m
    PROVE  /\ MarkCompleted(s, m).paused = s.paused
           /\ MarkCompleted(s, m).quarantine = s.quarantine
           /\ MarkCompleted(s, m).bootstrapped = s.bootstrapped
           /\ MarkCompleted(s, m).completed = s.completed \cup {m}
BY DEF MarkCompleted, RoadmapRecord

LEMMA PassedKeeps ==
    ASSUME NEW s \in RoadmapRecord
    PROVE  /\ Passed(s).paused = s.paused
           /\ Passed(s).quarantine = IF s.quarantine > 0 THEN s.quarantine - 1 ELSE 0
           /\ Passed(s).bootstrapped = s.bootstrapped
           /\ Passed(s).completed = s.completed
<1> DEFINE q == IF s.quarantine > 0 THEN s.quarantine - 1 ELSE 0
           b == IF s.backoff > 0 THEN s.backoff - 1 ELSE 0
<1>1. Passed(s) = [s EXCEPT !.quarantine = q, !.backoff = b]
  BY DEF Passed, RoadmapRecord
<1> HIDE DEF q, b
<1>2. /\ Passed(s).paused = s.paused
      /\ Passed(s).quarantine = q
      /\ Passed(s).bootstrapped = s.bootstrapped
      /\ Passed(s).completed = s.completed
  BY <1>1 DEF RoadmapRecord
<1> QED
  BY <1>2 DEF q

\* A drift takes back what is completed under another version, and nothing else.
LEMMA DriftedKeeps ==
    ASSUME NEW s \in RoadmapRecord, NEW v, NEW b, NEW placeholders
    PROVE  /\ Drifted(s, v, b, placeholders).paused = s.paused
           /\ Drifted(s, v, b, placeholders).quarantine = s.quarantine
           /\ Drifted(s, v, b, placeholders).bootstrapped = s.bootstrapped
           /\ Drifted(s, v, b, placeholders).completed \subseteq s.completed
           /\ \A m \in s.completed \ Drifted(s, v, b, placeholders).completed : s.meta[m] # v
<1> DEFINE taken == TakenBack(s, v, b, placeholders)
           d == Drifted(s, v, b, placeholders)
<1>1. CASE s.sha = v
  BY <1>1 DEF Drifted
<1>2. CASE s.sha # v
  <2> DEFINE a == [m \in Milestones |-> IF m \in taken THEN 0 ELSE s.attempts[m]]
             t == [m \in Milestones |-> IF m \in taken THEN 0 ELSE s.meta[m]]
  <2>1. d = [s EXCEPT !.completed = s.completed \ taken, !.attempts = a, !.meta = t, !.sha = v]
    BY <1>2 DEF Drifted, Removed, RoadmapRecord
  <2>2. \A m \in taken : s.meta[m] # v
    BY DEF TakenBack, Stale
  <2> HIDE DEF a, t, taken, d
  <2>3. /\ d.paused = s.paused
        /\ d.quarantine = s.quarantine
        /\ d.bootstrapped = s.bootstrapped
        /\ d.completed = s.completed \ taken
    BY <2>1 DEF RoadmapRecord
  <2>4. d.completed \subseteq s.completed /\ \A m \in s.completed \ d.completed : s.meta[m] # v
    BY <2>2, <2>3
  <2> QED
    BY <2>3, <2>4 DEF d
<1> QED
  BY <1>1, <1>2

LEMMA BootstrappedKeeps ==
    ASSUME NEW s \in RoadmapRecord, NEW b
    PROVE  /\ Bootstrapped(s, b).paused = s.paused
           /\ Bootstrapped(s, b).quarantine = s.quarantine
           /\ Bootstrapped(s, b).bootstrapped
           /\ Boot(s) => s.completed \subseteq Bootstrapped(s, b).completed
<1>1. CASE ~ BootstrapDue(s)
  BY <1>1 DEF Bootstrapped, BootstrapDue
<1>2. CASE BootstrapDue(s)
  <2> DEFINE found == Marked \cap b
             t == [m \in Milestones |-> IF m \in found THEN s.sha ELSE s.meta[m]]
             c == (s.completed \ Marked) \cup found
             n == Bootstrapped(s, b)
  <2>1. n = [s EXCEPT !.completed = c, !.meta = t, !.bootstrapped = TRUE]
    BY <1>2 DEF Bootstrapped, RoadmapRecord
  <2>2. Boot(s) => s.completed = {}
    BY <1>2 DEF Boot, BootstrapDue
  <2> HIDE DEF c, t, n
  <2>3. n.paused = s.paused /\ n.quarantine = s.quarantine /\ n.bootstrapped = TRUE
    BY <2>1 DEF RoadmapRecord
  <2> QED
    BY <2>2, <2>3 DEF n
<1> QED
  BY <1>1, <1>2

\* What follow and finish have in hand before they bootstrap.
LEMMA SeenKeeps ==
    ASSUME Inv, Boot(file), NEW placeholders
    PROVE  /\ Seen(placeholders) \in RoadmapRecord
           /\ Seen(placeholders).paused = file.paused
           /\ Seen(placeholders).quarantine = file.quarantine
           /\ Boot(Seen(placeholders))
           /\ \A m \in file.completed \ Seen(placeholders).completed : file.meta[m] # version
<1>1. file \in RoadmapRecord
  BY DEF Inv, Good
<1>2. Seen(placeholders) \in RoadmapRecord
  BY SeenGood DEF Good
<1> DEFINE d == Seen(placeholders)
<1>3. /\ d.paused = file.paused
      /\ d.quarantine = file.quarantine
      /\ d.bootstrapped = file.bootstrapped
      /\ d.completed \subseteq file.completed
      /\ \A m \in file.completed \ d.completed : file.meta[m] # version
  BY <1>1, DriftedKeeps DEF Seen
<1> HIDE DEF d
<1>4. Boot(d)
  BY <1>3 DEF Boot
<1> QED
  BY <1>2, <1>3, <1>4 DEF d

LEMMA ForcedKeeps ==
    ASSUME Inv, Boot(file), NEW placeholders, NEW option
    PROVE  LET s == Forced(Seen(placeholders), option)
           IN  /\ s \in RoadmapRecord
               /\ s.paused = file.paused
               /\ ~ option.force => s.quarantine = file.quarantine
               /\ option.force => s.quarantine = 0 /\ s.backoff = 0
               /\ Boot(s)
               /\ \A m \in file.completed \ s.completed : file.meta[m] # version
<1> DEFINE d == Seen(placeholders)
           s == Forced(d, option)
<1>1. /\ d \in RoadmapRecord
      /\ d.paused = file.paused
      /\ d.quarantine = file.quarantine
      /\ Boot(d)
      /\ \A m \in file.completed \ d.completed : file.meta[m] # version
  BY SeenKeeps
<1>2. s \in RoadmapRecord
  BY ForcedGood DEF Good
<1> HIDE DEF d
<1>3. CASE option.force
  <2>1. s = Lifted(d)
    BY <1>3 DEF Forced
  <2>2. /\ s.paused = d.paused /\ s.quarantine = 0 /\ s.backoff = 0
        /\ s.bootstrapped = d.bootstrapped /\ s.completed = d.completed
    BY <1>1, <2>1, LiftsKeep
  <2> HIDE DEF s
  <2> QED
    BY <1>1, <1>2, <1>3, <2>2 DEF s, d, Boot
<1>4. CASE ~ option.force
  BY <1>1, <1>2, <1>4 DEF Forced, d
<1> QED
  BY <1>3, <1>4
-------------------------------------------------------------------------------
\* ---- the steps, sorted by what they do to the file --------------------------------

\* Nothing of any other runner changes.
Only(r) ==
    \A q \in Runners \ {r} :
        pc'[q] = pc[q] /\ call'[q] = call[q] /\ keep'[q] = keep[q] /\ mem'[q] = mem[q]

\* What a finish loaded when it began is still what it was.
SameKeep(r) == call'[r] = "finish" => call[r] = "finish" /\ keep'[r] = keep[r]

\* A call comes to its end, or goes back to finish: no milestone is at work.
Rests(r) == Only(r) /\ ~ Working(r)' /\ SameKeep(r)

\* A call that leaves the file alone.
Leaves(r) ==
    /\ Rests(r)
    /\ UNCHANGED << file, version, banned, held, overwrote >>

\* A call of follow, or a finish, that loads the file and saves what it makes of it.
Looks(r) ==
    /\ ~ Working(r) /\ Only(r)
    /\ UNCHANGED << version, held, overwrote >>
    /\ file'.paused = file.paused
    /\ banned' = 0 \/ (banned' = banned /\ file'.quarantine = file.quarantine)
    /\ Boot(file')
    /\ \A m \in file.completed \ file'.completed : file.meta[m] # version
    /\ SameKeep(r) \/ keep'[r].bootstrapped
    /\ Working(r)' =>
          /\ ~ file'.paused /\ file'.quarantine = 0
          /\ mem'[r].bootstrapped /\ mem'[r].completed = file'.completed

\* A milestone at work: what is saved is what is in memory.
Works(r) ==
    /\ Working(r) /\ Only(r)
    /\ UNCHANGED << version, held, overwrote >>
    /\ banned' \in {0, banned} \/ (~ Working(r)' /\ banned' = file'.quarantine)
    /\ file'.bootstrapped = mem[r].bootstrapped
    /\ mem[r].completed \subseteq file'.completed
    /\ SameKeep(r)
    /\ Working(r)' =>
          mem'[r].bootstrapped = mem[r].bootstrapped /\ mem'[r].completed = file'.completed

\* The bundle is promoted: what is saved is what finish loaded when it began.
Promotes(r) ==
    /\ ~ Working(r) /\ Only(r) /\ ~ Working(r)'
    /\ call[r] = "finish"
    /\ UNCHANGED << version, banned, held >>
    /\ overwrote' = (overwrote \/ file # keep[r])
    /\ file'.paused = keep[r].paused
    /\ file'.quarantine = keep[r].quarantine
    /\ file'.bootstrapped = keep[r].bootstrapped
    /\ keep[r].completed \subseteq file'.completed
    /\ keep'[r].bootstrapped = keep[r].bootstrapped

LEMMA EndedRests ==
    ASSUME RunnersGood, NEW r \in Runners, Ended(r)
    PROVE  Rests(r)
BY DEF Ended, Goto, RunnersGood, Rests, Only, Working, SameKeep

LEMMA ReturnRests ==
    ASSUME RunnersGood, NEW r \in Runners, NEW res, Return(r, res)
    PROVE  Rests(r)
<1>1. CASE Ended(r)
  BY <1>1, EndedRests
<1>2. CASE ~ Ended(r)
  BY <1>2 DEF Return, Goto, RunnersGood, Rests, Only, Working, SameKeep
<1> QED
  BY <1>1, <1>2

\* A milestone that is begun, with s in memory.
LEMMA BeginsWorks ==
    ASSUME RunnersGood, NEW r \in Runners, NEW s \in RoadmapRecord, Begins(r, s),
           NEW c, call' = [call EXCEPT ![r] = c], c = "finish" => call[r] = "finish"
    PROVE  /\ Only(r) /\ SameKeep(r)
           /\ file'.paused = s.paused /\ file'.quarantine = s.quarantine
           /\ file'.bootstrapped = s.bootstrapped /\ file'.completed = s.completed
           /\ mem'[r] = file'
<1> DEFINE m == NextMilestone(s.completed)
           b == BumpAttempt(s, m)
<1>1. /\ file' = b
      /\ mem' = [mem EXCEPT ![r] = b]
      /\ pc' = [pc EXCEPT ![r] = "readonly"]
      /\ keep' = keep
  BY DEF Begins, Save, Goto
<1>2. /\ b.paused = s.paused /\ b.quarantine = s.quarantine
      /\ b.bootstrapped = s.bootstrapped /\ b.completed = s.completed
  BY BumpAttemptKeeps
<1> HIDE DEF b
<1> QED
  BY <1>1, <1>2 DEF RunnersGood, Only, SameKeep

LEMMA FollowSteps ==
    ASSUME Inv, Boot(file), NEW r \in Runners, Follow(r)
    PROVE  Leaves(r) \/ Looks(r)
<1>0. RunnersGood /\ RestGood /\ file \in RoadmapRecord
  BY DEF Inv, Good
<1>1. ~ Working(r)
  BY DEF Follow, FollowDisabled, FollowPaused, FollowBlocked, FollowBegins, MayCall, Working
<1>2. CASE FollowDisabled(r)
  BY <1>0, <1>2, ReturnRests DEF FollowDisabled, Leaves, history
<1>3. CASE FollowPaused(r)
  <2>1. PICK option \in Options(r), placeholders \in SUBSET Milestones :
           /\ file' = ClearBackoff(Forced(Seen(placeholders), option))
           /\ banned' = IF option.force THEN 0 ELSE banned
    BY <1>3 DEF FollowPaused
  <2> DEFINE s == Forced(Seen(placeholders), option)
  <2>2. /\ s \in RoadmapRecord
        /\ s.paused = file.paused
        /\ ~ option.force => s.quarantine = file.quarantine
        /\ Boot(s)
        /\ \A m \in file.completed \ s.completed : file.meta[m] # version
    BY ForcedKeeps
  <2>3. file' = ClearBackoff(s)
    BY <2>1
  <2> HIDE DEF s
  <2>4. /\ file'.paused = s.paused /\ file'.quarantine = s.quarantine
        /\ file'.bootstrapped = s.bootstrapped /\ file'.completed = s.completed
    BY <2>2, <2>3, LiftsKeep
  <2>5. Rests(r) /\ UNCHANGED << version, held, overwrote >>
    BY <1>0, <1>3, ReturnRests DEF FollowPaused
  <2> QED
    BY <1>1, <2>1, <2>2, <2>4, <2>5 DEF Looks, Rests, Boot
<1>4. CASE FollowBlocked(r)
  <2>1. PICK option \in Options(r), placeholders \in SUBSET Milestones :
           LET s == Forced(Seen(placeholders), option)
           IN  /\ Blocked(s)
               /\ file' = s
               /\ Return(r, IF s.quarantine > 0 THEN "STOP" ELSE "BACKOFF")
    BY <1>4 DEF FollowBlocked
  <2> DEFINE s == Forced(Seen(placeholders), option)
  <2>2. /\ s.paused = file.paused
        /\ ~ option.force => s.quarantine = file.quarantine
        /\ option.force => s.quarantine = 0 /\ s.backoff = 0
        /\ Boot(s)
        /\ \A m \in file.completed \ s.completed : file.meta[m] # version
    BY ForcedKeeps
  <2>3. ~ option.force
    BY <2>1, <2>2 DEF Blocked
  <2>4. Rests(r)
    BY <1>0, <2>1, ReturnRests
  <2>5. UNCHANGED << version, banned, held, overwrote >>
    BY <1>4 DEF FollowBlocked, history
  <2>6. file' = s
    BY <2>1
  <2> HIDE DEF s
  <2> QED
    BY <1>1, <2>2, <2>3, <2>4, <2>5, <2>6 DEF Looks, Rests
<1>5. CASE FollowBegins(r)
  <2>1. PICK option \in Options(r), placeholders \in SUBSET Milestones :
           LET s == Forced(Seen(placeholders), option)
               b == Bootstrapped(s, built)
           IN  /\ ~ s.paused /\ ~ Blocked(s)
               /\ \/ /\ NothingLeft(r, b)
                     /\ file' = IF BootstrapDue(s) THEN b ELSE Seen(placeholders)
                  \/ StoppedByIso(r, b)
                  \/ /\ Begins(r, b)
                     /\ call' = [call EXCEPT ![r] = IF @ = "finish" THEN @
                                                    ELSE IF option.plan THEN "plan" ELSE "follow"]
               /\ banned' = IF option.force THEN 0 ELSE banned
    BY <1>5 DEF FollowBegins
  <2> DEFINE d == Seen(placeholders)
             s == Forced(d, option)
             b == Bootstrapped(s, built)
             c == IF call[r] = "finish" THEN "finish" ELSE IF option.plan THEN "plan" ELSE "follow"
  <2>2. /\ s \in RoadmapRecord
        /\ s.paused = file.paused
        /\ ~ option.force => s.quarantine = file.quarantine
        /\ option.force => s.quarantine = 0
        /\ Boot(s)
        /\ \A m \in file.completed \ s.completed : file.meta[m] # version
    BY ForcedKeeps
  <2>3. /\ d \in RoadmapRecord
        /\ d.paused = file.paused
        /\ d.quarantine = file.quarantine
        /\ Boot(d)
        /\ \A m \in file.completed \ d.completed : file.meta[m] # version
    BY SeenKeeps
  <2>4. b \in RoadmapRecord
    <3>1. Good(s, earned) /\ s.sha # 0
      BY ForcedGood
    <3> HIDE DEF s
    <3> QED
      BY <3>1, BootstrappedGood DEF Good
  <2>5. /\ b.paused = file.paused /\ b.quarantine = s.quarantine /\ b.bootstrapped
        /\ \A m \in file.completed \ b.completed : file.meta[m] # version
    <3> HIDE DEF s
    <3>1. /\ b.paused = s.paused /\ b.quarantine = s.quarantine /\ b.bootstrapped
          /\ s.completed \subseteq b.completed
      BY <2>2, BootstrappedKeeps
    <3> QED
      BY <2>2, <3>1
  <2>6. UNCHANGED << version, held, overwrote >>
    BY <1>5 DEF FollowBegins
  <2>7. ~ file.paused /\ s.quarantine = 0
    <3>1. ~ s.paused /\ ~ Blocked(s)
      BY <2>1
    <3> HIDE DEF s
    <3>2. s.quarantine \in Nat
      BY <2>2 DEF RoadmapRecord
    <3> QED
      BY <2>2, <3>1, <3>2 DEF Blocked
  <2>8. banned' = IF option.force THEN 0 ELSE banned
    BY <2>1
  <2>9. CASE NothingLeft(r, b) /\ file' = IF BootstrapDue(s) THEN b ELSE d
    <3>1. Rests(r)
      BY <1>0, <2>9, ReturnRests DEF NothingLeft
    <3> HIDE DEF b, s, d
    <3>2. \/ file' = b
          \/ file' = d
      BY <2>9
    <3>3. /\ file'.paused = file.paused
          /\ ~ option.force => file'.quarantine = file.quarantine
          /\ Boot(file')
          /\ \A m \in file.completed \ file'.completed : file.meta[m] # version
      BY <2>2, <2>3, <2>5, <3>2 DEF Boot
    <3> QED
      BY <1>1, <2>6, <2>8, <3>1, <3>3 DEF Looks, Rests
  <2>10. CASE StoppedByIso(r, b)
    <3>1. Rests(r)
      BY <1>0, <2>10, ReturnRests DEF StoppedByIso
    <3> HIDE DEF b
    <3>2. file' = ClearBackoff(b)
      BY <2>10 DEF StoppedByIso
    <3>3. /\ file'.paused = b.paused /\ file'.quarantine = b.quarantine
          /\ file'.bootstrapped = b.bootstrapped /\ file'.completed = b.completed
      BY <2>4, <3>2, LiftsKeep
    <3> HIDE DEF s
    <3> QED
      BY <1>1, <2>2, <2>5, <2>6, <2>8, <3>1, <3>3 DEF Looks, Rests, Boot
  <2>11. CASE Begins(r, b) /\ call' = [call EXCEPT ![r] = c]
    <3>1. c = "finish" => call[r] = "finish"
      OBVIOUS
    <3> HIDE DEF b, c
    <3>2. /\ Only(r) /\ SameKeep(r)
          /\ file'.paused = b.paused /\ file'.quarantine = b.quarantine
          /\ file'.bootstrapped = b.bootstrapped /\ file'.completed = b.completed
          /\ mem'[r] = file'
      BY <1>0, <2>4, <2>11, <3>1, BeginsWorks
    <3> HIDE DEF s
    <3> QED
      BY <1>1, <2>2, <2>5, <2>6, <2>7, <2>8, <3>2 DEF Looks, Boot
  <2>12. (call' = [call EXCEPT ![r] = IF @ = "finish" THEN @
                                      ELSE IF option.plan THEN "plan" ELSE "follow"])
            => call' = [call EXCEPT ![r] = c]
    BY <1>0 DEF RunnersGood
  <2> QED
    BY <2>1, <2>9, <2>10, <2>11, <2>12
<1> QED
  BY <1>2, <1>3, <1>4, <1>5 DEF Follow

LEMMA MilestoneSteps ==
    ASSUME Inv, NEW r \in Runners, Milestone(r)
    PROVE  Works(r)
<1>0. RunnersGood /\ mem[r] \in RoadmapRecord
  BY DEF Inv, RunnersGood
<1>1. Working(r)
  BY DEF Milestone, ReadonlyFails, ReadonlyDirty, ReadonlyPasses, ApplyFails, ApplyPasses,
         GatesFail, GatesPass, Working
<1>2. CASE ReadonlyFails(r) \/ ApplyFails(r) \/ GatesFail(r)
  <2>1. Fail(r)
    BY <1>2 DEF ReadonlyFails, ApplyFails, GatesFail
  <2> DEFINE a == mem[r]
  <2>2. /\ file' = Penalised(a, at[r], elapsed[r])
        /\ banned' = IF a.attempts[at[r]] >= 3 THEN Left(Day, elapsed[r]) ELSE banned
        /\ UNCHANGED << version, held, overwrote >>
        /\ Rests(r)
    BY <1>0, <2>1, ReturnRests DEF Fail
  <2>3. a \in RoadmapRecord /\ a = mem[r]
    BY <1>0
  <2> HIDE DEF a
  <2>4. /\ a.attempts[at[r]] >= 3 => file'.quarantine = Left(Day, elapsed[r])
        /\ file'.bootstrapped = a.bootstrapped
        /\ file'.completed = a.completed
    BY <2>2, <2>3, PenalisedKeeps
  <2> QED
    BY <1>1, <2>2, <2>3, <2>4 DEF Works, Rests
<1>3. CASE ReadonlyDirty(r)
  BY <1>0, <1>1, <1>3, ReturnRests DEF ReadonlyDirty, Works, Rests, history
<1>4. CASE ReadonlyPasses(r)
  <2>1. UNCHANGED << version, banned, held, overwrote >>
    BY <1>4 DEF ReadonlyPasses, history
  <2>2. CASE file' = ClearBackoff(mem[r]) /\ Return(r, "OK")
    BY <1>0, <1>1, <2>1, <2>2, ReturnRests, LiftsKeep DEF Works, Rests
  <2>3. CASE Save(r, mem[r]) /\ Goto(r, "apply") /\ UNCHANGED << call, keep >>
    BY <1>0, <1>1, <2>1, <2>3 DEF Save, Goto, RunnersGood, Works, Only, SameKeep
  <2> QED
    BY <1>4, <2>2, <2>3 DEF ReadonlyPasses
<1>5. CASE ApplyPasses(r)
  BY <1>0, <1>1, <1>5 DEF ApplyPasses, Save, Goto, RunnersGood, Works, Only, SameKeep, history
<1>6. CASE GatesPass(r)
  <2> DEFINE l == Lifted(mem[r])
             s == MarkCompleted(l, at[r])
  <2>1. banned' = 0 /\ UNCHANGED << version, held, overwrote >>
    BY <1>6 DEF GatesPass
  <2>2. /\ l \in RoadmapRecord /\ l.sha # 0 /\ Good(l, earned)
        /\ l.bootstrapped = mem[r].bootstrapped /\ l.completed = mem[r].completed
    <3>1. Good(mem[r], earned) /\ Busy(mem[r], at[r])
      BY <1>1 DEF Inv, RunnersGood
    <3>2. Good(l, earned) /\ l.sha # 0
      BY <3>1, LiftedLike DEF Busy
    <3>3. l.bootstrapped = mem[r].bootstrapped /\ l.completed = mem[r].completed
      BY <1>0, LiftsKeep
    <3> QED
      BY <3>2, <3>3 DEF Good
  <2>3. at[r] \in Milestones
    BY <1>1 DEF Inv, RunnersGood, Busy
  <2>4. /\ s \in RoadmapRecord
        /\ s.bootstrapped = mem[r].bootstrapped
        /\ mem[r].completed \subseteq s.completed
    <3> HIDE DEF l
    <3>1. Good(s, earned \cup {at[r]})
      BY <2>2, <2>3, MarkCompletedGood
    <3>2. s.bootstrapped = l.bootstrapped /\ s.completed = l.completed \cup {at[r]}
      BY <2>2, MarkCompletedKeeps
    <3> QED
      BY <2>2, <3>1, <3>2 DEF Good
  <2>5. \/ file' = s /\ Return(r, "OK")
        \/ file' = s /\ NothingLeft(r, s)
        \/ StoppedByIso(r, s)
        \/ call[r] = "follow" /\ Begins(r, s) /\ UNCHANGED call
    BY <1>6 DEF GatesPass
  <2> HIDE DEF s, l
  <2>6. CASE file' = s /\ (Return(r, "OK") \/ NothingLeft(r, s))
    <3>1. Rests(r)
      BY <1>0, <2>6, ReturnRests DEF NothingLeft
    <3> QED
      BY <1>1, <2>1, <2>4, <2>6, <3>1 DEF Works, Rests
  <2>7. CASE StoppedByIso(r, s)
    <3>1. Rests(r) /\ file' = ClearBackoff(s)
      BY <1>0, <2>7, ReturnRests DEF StoppedByIso
    <3>2. file'.bootstrapped = s.bootstrapped /\ file'.completed = s.completed
      BY <2>4, <3>1, LiftsKeep
    <3> QED
      BY <1>1, <2>1, <2>4, <3>1, <3>2 DEF Works, Rests
  <2>8. CASE call[r] = "follow" /\ Begins(r, s) /\ UNCHANGED call
    <3>1. call' = [call EXCEPT ![r] = call[r]]
      BY <1>0, <2>8 DEF RunnersGood
    <3>2. /\ Only(r) /\ SameKeep(r)
          /\ file'.bootstrapped = s.bootstrapped /\ file'.completed = s.completed
          /\ mem'[r] = file'
      BY <1>0, <2>4, <2>8, <3>1, BeginsWorks
    <3> QED
      BY <1>1, <2>1, <2>4, <3>2 DEF Works
  <2> QED
    BY <2>5, <2>6, <2>7, <2>8
<1> QED
  BY <1>2, <1>3, <1>4, <1>5, <1>6 DEF Milestone

LEMMA FinishSteps ==
    ASSUME Inv, Boot(file), NEW r \in Runners, Finish(r)
    PROVE  Leaves(r) \/ Looks(r) \/ Promotes(r)
<1>0. RunnersGood /\ file \in RoadmapRecord
  BY DEF Inv, Good
<1>1. CASE FinishStart(r)
  <2>1. PICK placeholders \in SUBSET Milestones :
           LET b == Bootstrapped(Seen(placeholders), built)
           IN  /\ file' = b
               /\ \/ UNCHANGED << pc, call, keep >>
                  \/ /\ Goto(r, "loop")
                     /\ call' = [call EXCEPT ![r] = "finish"]
                     /\ keep' = [keep EXCEPT ![r] = b]
    BY <1>1 DEF FinishStart
  <2> DEFINE d == Seen(placeholders)
             b == Bootstrapped(d, built)
  <2>2. /\ d \in RoadmapRecord
        /\ d.paused = file.paused
        /\ d.quarantine = file.quarantine
        /\ Boot(d)
        /\ \A m \in file.completed \ d.completed : file.meta[m] # version
    BY SeenKeeps
  <2>3. /\ b.paused = file.paused /\ b.quarantine = file.quarantine /\ b.bootstrapped
        /\ \A m \in file.completed \ b.completed : file.meta[m] # version
    <3> HIDE DEF d
    <3>1. /\ b.paused = d.paused /\ b.quarantine = d.quarantine /\ b.bootstrapped
          /\ d.completed \subseteq b.completed
      BY <2>2, BootstrappedKeeps
    <3> QED
      BY <2>2, <3>1
  <2>4. pc[r] = "idle" /\ UNCHANGED << version, mem, banned, held, overwrote >>
    BY <1>1 DEF FinishStart
  <2>5. file' = b
    BY <2>1
  <2>6. Only(r) /\ ~ Working(r)' /\ (SameKeep(r) \/ keep'[r] = b)
    <3> HIDE DEF b, d
    <3>1. \/ UNCHANGED << pc, call, keep >>
          \/ /\ pc' = [pc EXCEPT ![r] = "loop"]
             /\ call' = [call EXCEPT ![r] = "finish"]
             /\ keep' = [keep EXCEPT ![r] = b]
      BY <2>1 DEF b, d, Goto
    <3> QED
      BY <1>0, <2>4, <3>1 DEF RunnersGood, Only, Working, SameKeep
  <2> HIDE DEF b, d
  <2> QED
    BY <2>3, <2>4, <2>5, <2>6 DEF Looks, Working, Boot
<1>2. CASE FinishDone(r) \/ FinishStops(r)
  BY <1>0, <1>2, EndedRests DEF FinishDone, FinishStops, Leaves, history
<1>3. CASE Promote(r)
  <2> DEFINE k == keep[r]
             s == MarkCompleted(k, Bundle)
  <2>1. k \in RoadmapRecord /\ call[r] = "finish" /\ pc[r] = "ingest"
    BY <1>0, <1>3 DEF Promote, MayPromote, RunnersGood
  <2>2. /\ file' = s /\ keep' = [keep EXCEPT ![r] = s]
        /\ overwrote' = (overwrote \/ file # k)
        /\ pc' = [pc EXCEPT ![r] = "promoted"]
        /\ UNCHANGED << version, call, mem, banned, held >>
    BY <1>3 DEF Promote, Goto
  <2>3. /\ s.paused = k.paused /\ s.quarantine = k.quarantine
        /\ s.bootstrapped = k.bootstrapped /\ k.completed \subseteq s.completed
    <3> HIDE DEF k
    <3> QED
      BY <2>1, MarkCompletedKeeps
  <2>4. k = keep[r]
    OBVIOUS
  <2> HIDE DEF s, k
  <2> QED
    BY <1>0, <2>1, <2>2, <2>3, <2>4 DEF RunnersGood, Promotes, Only, Working
<1>4. CASE PromoteFails(r) \/ PromoteNothing(r)
  BY <1>0, <1>4 DEF PromoteFails, PromoteNothing, Goto, RunnersGood, Leaves, Rests, Only,
                    Working, SameKeep, history
<1>5. CASE FinishContinues(r)
  <2>1. UNCHANGED << file, version, banned, held, overwrote >>
    BY <1>5 DEF FinishContinues, history
  <2>2. CASE Ended(r)
    BY <1>0, <2>1, <2>2, EndedRests DEF Leaves
  <2>3. CASE Goto(r, "loop") /\ UNCHANGED << call, keep, mem, elapsed >>
    BY <1>0, <2>1, <2>3 DEF Goto, RunnersGood, Leaves, Rests, Only, Working, SameKeep
  <2> QED
    BY <1>5, <2>2, <2>3 DEF FinishContinues
<1> QED
  BY <1>1, <1>2, <1>3, <1>4, <1>5 DEF Finish

LEMMA RunnerSteps ==
    ASSUME Inv, Boot(file), Next
    PROVE  Environment \/ \E r \in Runners : Leaves(r) \/ Looks(r) \/ Works(r) \/ Promotes(r)
<1>1. ASSUME NEW r \in Runners, Kill(r)
      PROVE  Leaves(r)
  BY <1>1, EndedRests DEF Inv, Kill, Leaves, history
<1> QED
  BY <1>1, FollowSteps, MilestoneSteps, FinishSteps DEF Next
\* What the operator, the editor and the clock leave alone.
LEMMA EnvironmentKeeps ==
    ASSUME Inv, Environment
    PROVE  /\ pc' = pc /\ call' = call /\ overwrote' = overwrote
           /\ \A r \in Runners :
                 /\ keep'[r].bootstrapped = keep[r].bootstrapped
                 /\ mem'[r].bootstrapped = mem[r].bootstrapped
                 /\ mem'[r].completed = mem[r].completed
           /\ \/ file'.completed = {}
              \/ file'.completed = file.completed /\ file'.bootstrapped = file.bootstrapped
           /\ \/ banned' = 0
              \/ banned' = banned /\ file'.quarantine = file.quarantine
              \/ banned' = banned - 1 /\ file'.quarantine >= file.quarantine - 1
           /\ held' => file'.paused \/ (held /\ file'.paused = file.paused)
           /\ held' => held \/ \A r \in Runners : ~ Working(r)
<1>0. RunnersGood /\ RestGood /\ file \in RoadmapRecord
  BY DEF Inv, Good
<1>1. CASE Pause \/ Resume
  <2>1. UNCHANGED << pc, call, keep, mem, overwrote, banned >>
    BY <1>1 DEF Pause, Resume, runners
  <2>2. /\ file'.completed = file.completed /\ file'.bootstrapped = file.bootstrapped
        /\ file'.quarantine = file.quarantine
    BY <1>0, <1>1, PausesKeep DEF Pause, Resume
  <2>3. CASE Pause
    BY <1>0, <2>1, <2>2, <2>3, PausesKeep DEF Pause
  <2>4. CASE Resume
    BY <2>1, <2>2, <2>4 DEF Resume
  <2> QED
    BY <1>1, <2>3, <2>4
<1>2. CASE Sync
  <2>1. UNCHANGED << pc, call, keep, mem, overwrote, banned, held >>
    BY <1>2 DEF Sync, runners, history
  <2>2. /\ file'.completed = file.completed /\ file'.bootstrapped = file.bootstrapped
        /\ file'.quarantine = file.quarantine /\ file'.paused = file.paused
    BY <1>0, <1>2 DEF Sync, RoadmapRecord
  <2> QED
    BY <2>1, <2>2
<1>3. CASE SyncReset
  <2>1. file'.completed = {} /\ banned' = 0 /\ held' = FALSE
    BY <1>3 DEF SyncReset, DefaultState
  <2>2. UNCHANGED << pc, call, keep, mem, overwrote >>
    BY <1>3 DEF SyncReset, runners
  <2> QED
    BY <2>1, <2>2
<1>4. CASE Edit \/ Clean
  BY <1>4 DEF Edit, Clean, runners, history
<1>5. CASE Tick
  <2>1. /\ file' = Passed(file)
        /\ keep' = [r \in Runners |-> Passed(keep[r])]
        /\ mem' = [r \in Runners |-> Passed(mem[r])]
        /\ banned' = IF banned > 0 THEN banned - 1 ELSE 0
        /\ UNCHANGED << pc, call, held, overwrote >>
    BY <1>5 DEF Tick
  <2>2. /\ file'.completed = file.completed /\ file'.bootstrapped = file.bootstrapped
        /\ file'.quarantine >= file.quarantine - 1 /\ file'.paused = file.paused
    <3> DEFINE g == file
    <3>1. g \in RoadmapRecord /\ file' = Passed(g)
      BY <1>0, <2>1
    <3> HIDE DEF g
    <3>2. /\ file'.completed = g.completed /\ file'.bootstrapped = g.bootstrapped
          /\ file'.quarantine = IF g.quarantine > 0 THEN g.quarantine - 1 ELSE 0
          /\ file'.paused = g.paused
      BY <3>1, PassedKeeps
    <3>3. g.quarantine \in Nat
      BY <3>1 DEF RoadmapRecord
    <3>4. file'.quarantine >= g.quarantine - 1
      BY <3>2, <3>3
    <3> QED
      BY <3>2, <3>4 DEF g
  <2>3. ASSUME NEW r \in Runners
        PROVE  /\ keep'[r].bootstrapped = keep[r].bootstrapped
               /\ mem'[r].bootstrapped = mem[r].bootstrapped
               /\ mem'[r].completed = mem[r].completed
    <3> DEFINE k == keep[r]
               m == mem[r]
    <3>1. k \in RoadmapRecord /\ m \in RoadmapRecord
      BY <1>0 DEF RunnersGood
    <3>2. keep'[r] = Passed(k) /\ mem'[r] = Passed(m)
      BY <2>1
    <3> HIDE DEF k, m
    <3>3. /\ keep'[r].bootstrapped = k.bootstrapped
          /\ mem'[r].bootstrapped = m.bootstrapped
          /\ mem'[r].completed = m.completed
      BY <3>1, <3>2, PassedKeeps
    <3> QED
      BY <3>3 DEF k, m
  <2>4. banned' \in {0, banned - 1}
    BY <2>1
  <2> QED
    BY <2>1, <2>2, <2>3, <2>4
<1> QED
  BY <1>1, <1>2, <1>3, <1>4, <1>5 DEF Environment

-------------------------------------------------------------------------------
\* ---- bootstrap, pause, quarantine, progress ---------------------------------------

\* What is saved, and all that may be saved later, has been bootstrapped.
BootstrappedOnce ==
    /\ Boot(file)
    /\ \A r \in Runners :
          /\ Working(r) => mem[r].bootstrapped
          /\ call[r] = "finish" => keep[r].bootstrapped

LEMMA BootstrappedOnceStep ==
    ASSUME Inv, BootstrappedOnce, [Next]_vars
    PROVE  BootstrappedOnce'
<1>0. Boot(file)
  BY DEF BootstrappedOnce
<1>1. CASE UNCHANGED vars
  BY <1>1 DEF vars, runners, BootstrappedOnce, Boot, Working
<1>2. CASE Environment
  BY <1>2, EnvironmentKeeps DEF BootstrappedOnce, Boot, Working
<1>3. ASSUME NEW r \in Runners, Leaves(r)
      PROVE  BootstrappedOnce'
  BY <1>3 DEF Leaves, Rests, Only, SameKeep, BootstrappedOnce, Boot, Working
<1>4. ASSUME NEW r \in Runners, Looks(r)
      PROVE  BootstrappedOnce'
  <2>1. Boot(file)'
    BY <1>4 DEF Looks, Boot
  <2>2. ASSUME NEW q \in Runners
        PROVE  /\ Working(q)' => mem'[q].bootstrapped
               /\ call'[q] = "finish" => keep'[q].bootstrapped
    <3>1. CASE q = r
      BY <1>4, <3>1 DEF Looks, SameKeep, BootstrappedOnce
    <3>2. CASE q # r
      BY <1>4, <3>2 DEF Looks, Only, BootstrappedOnce, Working
    <3> QED
      BY <3>1, <3>2
  <2> QED
    BY <2>1, <2>2 DEF BootstrappedOnce
<1>5. ASSUME NEW r \in Runners, Works(r)
      PROVE  BootstrappedOnce'
  <2>1. Boot(file)'
    BY <1>5 DEF Works, Boot, BootstrappedOnce
  <2>2. ASSUME NEW q \in Runners
        PROVE  /\ Working(q)' => mem'[q].bootstrapped
               /\ call'[q] = "finish" => keep'[q].bootstrapped
    <3>1. CASE q = r
      BY <1>5, <3>1 DEF Works, SameKeep, BootstrappedOnce
    <3>2. CASE q # r
      BY <1>5, <3>2 DEF Works, Only, BootstrappedOnce, Working
    <3> QED
      BY <3>1, <3>2
  <2> QED
    BY <2>1, <2>2 DEF BootstrappedOnce
<1>6. ASSUME NEW r \in Runners, Promotes(r)
      PROVE  BootstrappedOnce'
  <2>1. Boot(file)'
    BY <1>6 DEF Promotes, Boot, BootstrappedOnce
  <2>2. ASSUME NEW q \in Runners
        PROVE  /\ Working(q)' => mem'[q].bootstrapped
               /\ call'[q] = "finish" => keep'[q].bootstrapped
    <3>1. CASE q = r
      BY <1>6, <3>1 DEF Promotes, BootstrappedOnce
    <3>2. CASE q # r
      BY <1>6, <3>2 DEF Promotes, Only, BootstrappedOnce, Working
    <3> QED
      BY <3>1, <3>2
  <2> QED
    BY <2>1, <2>2 DEF BootstrappedOnce
<1> QED
  BY <1>0, <1>1, <1>2, <1>3, <1>4, <1>5, <1>6, RunnerSteps

LEMMA Bootstraps == Spec => []BootstrappedOnce
<1>1. Init => BootstrappedOnce
  BY DEF Init, BootstrappedOnce, Boot, DefaultState, Working
<1>2. Inv /\ BootstrappedOnce /\ [Next]_vars => BootstrappedOnce'
  BY BootstrappedOnceStep
<1> QED
  BY <1>1, <1>2, Invariance, PTL DEF Spec

\* As long as no promotion has overwritten the state, a pause that found no milestone
\* at work is in the file, and none is at work.
PauseInForce ==
    ~ overwrote /\ held => file.paused /\ \A r \in Runners : ~ Working(r)

LEMMA PauseInForceStep ==
    ASSUME Inv, BootstrappedOnce, PauseInForce, [Next]_vars
    PROVE  PauseInForce'
<1>1. CASE UNCHANGED vars
  BY <1>1 DEF vars, runners, history, PauseInForce, Working
<1>2. CASE Environment
  BY <1>2, EnvironmentKeeps DEF PauseInForce, Working
<1>3. ASSUME NEW r \in Runners, Leaves(r)
      PROVE  PauseInForce'
  BY <1>3 DEF Leaves, Rests, Only, PauseInForce, Working
<1>4. ASSUME NEW r \in Runners, Looks(r)
      PROVE  PauseInForce'
  BY <1>4 DEF Looks, Only, PauseInForce, Working
<1>5. ASSUME NEW r \in Runners, Works(r)
      PROVE  PauseInForce'
  BY <1>5 DEF Works, PauseInForce
<1>6. ASSUME NEW r \in Runners, Promotes(r)
      PROVE  PauseInForce'
  BY <1>6 DEF Promotes, Only, PauseInForce, Working
<1> QED
  BY <1>1, <1>2, <1>3, <1>4, <1>5, <1>6, RunnerSteps DEF BootstrappedOnce

\* Only a runner that looks at the file can take up a milestone.
LEMMA StartsLook ==
    ASSUME Inv, BootstrappedOnce, Next, NEW q \in Runners, Starts(q)
    PROVE  Looks(q)
<1>0. ~ Working(q) /\ Working(q)'
  BY DEF Starts, Working
<1>1. CASE Environment
  BY <1>0, <1>1, EnvironmentKeeps DEF Working
<1>2. ASSUME NEW r \in Runners, Leaves(r) \/ Works(r) \/ Promotes(r)
      PROVE  FALSE
  BY <1>0, <1>2 DEF Leaves, Rests, Works, Promotes, Only, Working
<1>3. ASSUME NEW r \in Runners, Looks(r)
      PROVE  r = q
  BY <1>0, <1>3 DEF Looks, Only, Working
<1> QED
  BY <1>1, <1>2, <1>3, RunnerSteps DEF BootstrappedOnce

\* A pause that finds no milestone at work keeps every runner from taking one up
\* until the resume, with any number of runners and whatever they are in the middle
\* of (pause of orchestrator.py, and the look of follow at paused before it begins),
\* unless a finish has saved its old copy.
THEOREM PauseKept == Spec => PauseHolds
<1>1. Init => PauseInForce
  BY DEF Init, PauseInForce
<1>2. Inv /\ BootstrappedOnce /\ PauseInForce /\ [Next]_vars => PauseInForce'
  BY PauseInForceStep
<1>3. Inv /\ BootstrappedOnce /\ PauseInForce /\ [Next]_vars
         => [\A r \in Runners : Starts(r) /\ ~ overwrote => ~ held]_vars
  <2> SUFFICES ASSUME Inv, BootstrappedOnce, PauseInForce, Next,
                      NEW r \in Runners, Starts(r), ~ overwrote, held
               PROVE  FALSE
    OBVIOUS
  <2>1. Looks(r) /\ Working(r)'
    BY StartsLook DEF Starts, Working
  <2> QED
    BY <2>1 DEF Looks, PauseInForce
<1> QED
  BY <1>1, <1>2, <1>3, Invariance, Bootstraps, PTL DEF Spec, PauseHolds

\* The calls come one after the other.
OneRunner == \A r, q \in Runners : r = q

\* As long as no promotion has overwritten the state, the file knows of the whole
\* quarantine that is left, and a milestone is at work only when none is.
QuarantineInForce ==
    ~ overwrote =>
        /\ banned =< file.quarantine
        /\ \A r \in Runners : Working(r) => banned = 0

LEMMA QuarantineInForceStep ==
    ASSUME OneRunner, Inv, BootstrappedOnce, QuarantineInForce, [Next]_vars
    PROVE  QuarantineInForce'
<1>0. banned \in Nat /\ file.quarantine \in Nat /\ Inv' /\ file'.quarantine \in Nat
  <2>1. Inv'
    BY InvStep
  <2> QED
    BY <2>1 DEF Inv, RestGood, Good, RoadmapRecord
<1>1. CASE UNCHANGED vars
  BY <1>1 DEF vars, runners, history, QuarantineInForce, Working
<1>2. CASE Environment
  <2>1. /\ pc' = pc /\ overwrote' = overwrote
        /\ \/ banned' = 0
           \/ banned' = banned /\ file'.quarantine = file.quarantine
           \/ banned' = banned - 1 /\ file'.quarantine >= file.quarantine - 1
    BY <1>2, EnvironmentKeeps
  <2>2. banned' \in Nat
    BY <1>0 DEF Inv, RestGood
  <2>3. ASSUME ~ overwrote
        PROVE  /\ banned' =< file'.quarantine
               /\ \A r \in Runners : Working(r) => banned' = 0
    <3>1. banned =< file.quarantine
      BY <2>3 DEF QuarantineInForce
    <3>2. banned' =< file'.quarantine
      BY <1>0, <2>1, <2>2, <3>1
    <3>3. banned = 0 => banned' = 0
      BY <1>0, <2>1, <2>2
    <3> QED
      BY <2>3, <3>2, <3>3 DEF QuarantineInForce
  <2> QED
    BY <2>1, <2>3 DEF QuarantineInForce, Working
<1>3. ASSUME NEW r \in Runners, Leaves(r)
      PROVE  QuarantineInForce'
  BY <1>3 DEF Leaves, Rests, Only, QuarantineInForce, Working
<1>4. ASSUME NEW r \in Runners, Looks(r)
      PROVE  QuarantineInForce'
  <2>1. ASSUME ~ overwrote'
        PROVE  /\ banned' =< file'.quarantine
               /\ Working(r)' => banned' = 0
    BY <1>0, <1>4, <2>1 DEF Looks, QuarantineInForce
  <2> QED
    BY <2>1 DEF QuarantineInForce, OneRunner
<1>5. ASSUME NEW r \in Runners, Works(r)
      PROVE  QuarantineInForce'
  <2>1. ASSUME ~ overwrote'
        PROVE  /\ banned' =< file'.quarantine
               /\ Working(r)' => banned' = 0
    BY <1>0, <1>5, <2>1 DEF Works, QuarantineInForce
  <2> QED
    BY <2>1 DEF QuarantineInForce, OneRunner
<1>6. ASSUME NEW r \in Runners, Promotes(r)
      PROVE  QuarantineInForce'
  <2>1. ASSUME ~ overwrote'
        PROVE  banned' =< file'.quarantine /\ ~ Working(r)'
    BY <1>0, <1>6, <2>1 DEF Promotes, QuarantineInForce
  <2> QED
    BY <2>1 DEF QuarantineInForce, OneRunner
<1> QED
  BY <1>1, <1>2, <1>3, <1>4, <1>5, <1>6, RunnerSteps DEF BootstrappedOnce

\* Whatever is paused, resumed, edited, synchronised or killed in between, no
\* milestone is taken up before the day that a third failure costs is over
\* (quarantine_milestone and is_quarantined of state.py), when the calls come one
\* after the other and no finish has saved its old copy.
THEOREM QuarantineKept ==
    ASSUME OneRunner
    PROVE  Spec => QuarantineHolds
<1>1. Init => QuarantineInForce
  BY DEF Init, QuarantineInForce, DefaultState
<1>2. Inv /\ BootstrappedOnce /\ QuarantineInForce /\ [Next]_vars => QuarantineInForce'
  BY QuarantineInForceStep
<1>3. Inv /\ BootstrappedOnce /\ QuarantineInForce /\ [Next]_vars
         => [\A r \in Runners : Starts(r) /\ ~ overwrote => banned' = 0]_vars
  <2> SUFFICES ASSUME Inv, BootstrappedOnce, QuarantineInForce, Next,
                      NEW r \in Runners, Starts(r), ~ overwrote
               PROVE  banned' = 0
    OBVIOUS
  <2>1. Looks(r) /\ Working(r)'
    BY StartsLook DEF Starts, Working
  <2>2. banned \in Nat /\ file.quarantine \in Nat
    BY DEF Inv, RestGood, Good, RoadmapRecord
  <2> QED
    BY <2>1, <2>2 DEF Looks, QuarantineInForce
<1> QED
  BY <1>1, <1>2, <1>3, Invariance, Bootstraps, PTL DEF Spec, QuarantineHolds

\* What a milestone at work has in memory knows of everything completed in the file.
MemoryAhead ==
    \A r \in Runners : Working(r) => file.completed \subseteq mem[r].completed

LEMMA MemoryAheadStep ==
    ASSUME OneRunner, Inv, BootstrappedOnce, MemoryAhead, [Next]_vars
    PROVE  MemoryAhead'
<1>1. CASE UNCHANGED vars
  BY <1>1 DEF vars, runners, MemoryAhead, Working
<1>2. CASE Environment
  BY <1>2, EnvironmentKeeps DEF MemoryAhead, Working
<1>3. ASSUME NEW r \in Runners, Leaves(r) \/ Looks(r) \/ Works(r) \/ Promotes(r)
      PROVE  MemoryAhead'
  <2>1. Working(r)' => file'.completed \subseteq mem'[r].completed
    BY <1>3 DEF Leaves, Rests, Looks, Works, Promotes
  <2> QED
    BY <2>1 DEF MemoryAhead, OneRunner
<1> QED
  BY <1>1, <1>2, <1>3, RunnerSteps DEF BootstrappedOnce

\* No save loses a completed milestone without a cause, although every save writes
\* the whole state from memory (save_state of state.py), when the calls come one
\* after the other.
THEOREM ProgressIsKept ==
    ASSUME OneRunner
    PROVE  Spec => ProgressKept
<1>1. Init => MemoryAhead
  BY DEF Init, MemoryAhead, Working
<1>2. Inv /\ BootstrappedOnce /\ MemoryAhead /\ [Next]_vars => MemoryAhead'
  BY MemoryAheadStep
<1>3. Inv /\ BootstrappedOnce /\ MemoryAhead /\ [Next]_vars
         => [\A m \in file.completed \ file'.completed :
                file.meta[m] # version \/ file'.completed = {} \/ overwrote']_vars
  <2> SUFFICES ASSUME Inv, BootstrappedOnce, MemoryAhead, Next,
                      NEW m \in file.completed \ file'.completed
               PROVE  file.meta[m] # version \/ file'.completed = {} \/ overwrote'
    OBVIOUS
  <2>1. CASE Environment
    BY <2>1, EnvironmentKeeps
  <2>2. ASSUME NEW r \in Runners, Leaves(r) \/ Looks(r) \/ Works(r) \/ Promotes(r)
        PROVE  file.meta[m] # version \/ overwrote'
    BY <2>2 DEF Leaves, Looks, Works, Promotes, MemoryAhead
  <2> QED
    BY <2>1, <2>2, RunnerSteps DEF BootstrappedOnce
<1> QED
  BY <1>1, <1>2, <1>3, Invariance, Bootstraps, PTL DEF Spec, ProgressKept

===============================================================================
