------------------------- MODULE AutonomyHistory_proofs -------------------------
(***************************************************************************)
(* Proofs about the record of an intent's outcomes, for any policy and     *)
(* histories of any length: what the few numbers of the record say of the  *)
(* whole past.                                                             *)
(***************************************************************************)
EXTENDS AutonomyHistory, FiniteSetTheorems, SequenceTheorems, TLAPS

USE AutonomyAssumption, HistoryAssumption

-------------------------------------------------------------------------------
\* ---- counting -----------------------------------------------------------------------
\* A finite set has two elements or more exactly if two different ones can be named.
LEMMA TwoOrMore ==
    ASSUME NEW S, IsFiniteSet(S)
    PROVE  Cardinality(S) >= 2 <=> \E x, y \in S : x # y
<1>0. Cardinality(S) \in Nat
  BY FS_CardinalityType
<1>1. ASSUME NEW x \in S, NEW y \in S, x # y PROVE Cardinality(S) >= 2
  <2>0. IsFiniteSet({x}) /\ Cardinality({x}) = 1 /\ y \notin {x}
    BY <1>1, FS_Singleton
  <2>1. IsFiniteSet({x} \cup {y}) /\ Cardinality({x} \cup {y}) = 1 + 1
    BY <2>0, FS_AddElement
  <2>2. {x} \cup {y} \in SUBSET S
    OBVIOUS
  <2> QED
    BY <1>0, <2>1, <2>2, FS_Subset
<1>2. ASSUME Cardinality(S) >= 2 PROVE \E x, y \in S : x # y
  <2>1. Cardinality(S) # 0 /\ Cardinality(S) # 1
    BY <1>0, <1>2
  <2>2. S # {} /\ ~ \E x : S = {x}
    BY <2>1, FS_EmptySet, FS_Singleton
  <2> QED
    BY <2>2
<1> QED
  BY <1>1, <1>2

\* Where in a history an outcome is found.
Places(h, outcome) == {i \in DOMAIN h : h[i] = outcome}

LEMMA PlacesFinite ==
    ASSUME NEW h \in Seq(Outcomes), NEW o
    PROVE  IsFiniteSet(Places(h, o)) /\ Cardinality(Places(h, o)) \in Nat
<1>1. IsFiniteSet(1 .. Len(h))
  BY LenProperties, FS_Interval
<1>2. Places(h, o) \in SUBSET (1 .. Len(h))
  BY LenProperties DEF Places
<1> QED
  BY <1>1, <1>2, FS_Subset, FS_CardinalityType

LEMMA SuccessesCount ==
    ASSUME NEW h \in Seq(Outcomes)
    PROVE  /\ Successes(h) \in Nat
           /\ Successes(h) > 0 => \E i \in 1 .. Len(h) : h[i] = "SUCCESS"
<1>1. Successes(h) = Cardinality(Places(h, "SUCCESS"))
  BY DEF Successes, Places
<1>2. IsFiniteSet(Places(h, "SUCCESS")) /\ Successes(h) \in Nat
  BY <1>1, PlacesFinite
<1>3. Successes(h) > 0 => Places(h, "SUCCESS") # {}
  BY <1>1, <1>2, FS_EmptySet
<1> QED
  BY <1>2, <1>3, LenProperties DEF Places

LEMMA SuccessesAppend ==
    ASSUME NEW h \in Seq(Outcomes), NEW o \in Outcomes
    PROVE  Successes(Append(h, o)) = Successes(h) + (IF o = "SUCCESS" THEN 1 ELSE 0)
<1> DEFINE g == Append(h, o)
           n == Len(h) + 1
<1>1. /\ Len(h) \in Nat /\ DOMAIN h = 1 .. Len(h)
      /\ g \in Seq(Outcomes) /\ DOMAIN g = 1 .. n /\ g[n] = o
      /\ \A i \in 1 .. Len(h) : g[i] = h[i]
  BY AppendProperties, LenProperties
<1> HIDE DEF g
<1>2. Places(g, "SUCCESS") = IF o = "SUCCESS" THEN Places(h, "SUCCESS") \cup {n}
                                              ELSE Places(h, "SUCCESS")
  BY <1>1 DEF Places
<1>3. n \notin Places(h, "SUCCESS")
  BY <1>1 DEF Places
<1>4. IsFiniteSet(Places(h, "SUCCESS")) /\ Cardinality(Places(h, "SUCCESS")) \in Nat
  BY PlacesFinite
<1>5. Cardinality(Places(g, "SUCCESS")) =
         Cardinality(Places(h, "SUCCESS")) + (IF o = "SUCCESS" THEN 1 ELSE 0)
  BY <1>2, <1>3, <1>4, FS_AddElement
<1> QED
  BY <1>5 DEF Successes, Places, g

\* ---- the last three outcomes ------------------------------------------------------
LastThree(h) == SubSeq(h, IF Len(h) > 3 THEN Len(h) - 2 ELSE 1, Len(h))

LEMMA LastThreeProperties ==
    ASSUME NEW h \in Seq(Outcomes)
    PROVE  /\ LastThree(h) \in Seq(Outcomes)
           /\ Len(h) <= 3 => LastThree(h) = h
           /\ Len(h) >= 3 =>
                 /\ Len(LastThree(h)) = 3
                 /\ LastThree(h) = SubSeq(h, Len(h) - 2, Len(h))
                 /\ \A k \in 1 .. 3 : LastThree(h)[k] = h[Len(h) - 3 + k]
<1> DEFINE n == Len(h)
           m == n - 2
<1>1. n \in Nat
  BY LenProperties
<1>2. \A i \in 1 .. n : h[i] \in Outcomes
  BY ElementOfSeq
<1>3. LastThree(h) = SubSeq(h, IF n > 3 THEN m ELSE 1, n)
  BY DEF LastThree
<1> HIDE DEF n
<1>4. ASSUME n <= 3 PROVE LastThree(h) = h
  <2>1. LastThree(h) = SubSeq(h, 1, n)
    BY <1>1, <1>3, <1>4
  <2> QED
    BY <2>1, SubSeqFull DEF n
<1>5. ASSUME n >= 3
      PROVE  /\ LastThree(h) \in Seq(Outcomes) /\ Len(LastThree(h)) = 3
             /\ LastThree(h) = SubSeq(h, m, n)
             /\ \A k \in 1 .. 3 : LastThree(h)[k] = h[n - 3 + k]
  <2>1. LastThree(h) = SubSeq(h, m, n)
    <3>1. n = 3 => m = 1
      OBVIOUS
    <3>2. n > 3 \/ n = 3
      BY <1>1, <1>5
    <3> QED
      BY <1>3, <3>1, <3>2
  <2>2. m \in Int /\ n \in Int /\ m <= n /\ n - m + 1 = 3
    BY <1>1
  <2>3. \A i \in m .. n : h[i] \in Outcomes
    <3>1. \A i \in m .. n : i \in 1 .. n
      BY <1>1, <1>5
    <3> QED
      BY <1>2, <3>1
  <2>4. \A k \in 1 .. 3 : m + k - 1 = n - 3 + k
    BY <1>1
  <2> HIDE DEF m
  <2>5. /\ SubSeq(h, m, n) \in Seq(Outcomes) /\ Len(SubSeq(h, m, n)) = 3
        /\ \A k \in 1 .. 3 : SubSeq(h, m, n)[k] = h[m + k - 1]
    BY <2>2, <2>3, SubSeqProperties
  <2> QED
    BY <2>1, <2>4, <2>5
<1>6. n <= 3 \/ n >= 3
  BY <1>1
<1> QED
  BY <1>4, <1>5, <1>6 DEF n

\* recent.append(outcome); recent[-3:] keeps the last three of them all.
LEMMA RememberLastThree ==
    ASSUME NEW h \in Seq(Outcomes), NEW o \in Outcomes
    PROVE  Remember(LastThree(h), o) = LastThree(Append(h, o))
<1> DEFINE g == Append(h, o)
<1>1. /\ Len(h) \in Nat /\ g \in Seq(Outcomes) /\ Len(g) = Len(h) + 1
      /\ g[Len(h) + 1] = o /\ \A i \in 1 .. Len(h) : g[i] = h[i]
  BY AppendProperties, LenProperties
<1>2. CASE Len(h) < 3
  <2>1. LastThree(h) = h
    BY <1>1, <1>2, LastThreeProperties
  <2>2. LastThree(g) = g
    <3> HIDE DEF g
    <3> QED
      BY <1>1, <1>2, LastThreeProperties
  <2> QED
    BY <1>2, <2>1, <2>2 DEF Remember
<1>3. CASE Len(h) >= 3
  <2> DEFINE t == LastThree(h)
             u == LastThree(g)
  <2>1. t \in Seq(Outcomes) /\ Len(t) = 3 /\ \A k \in 1 .. 3 : t[k] = h[Len(h) - 3 + k]
    BY <1>3, LastThreeProperties
  <2>2. u \in Seq(Outcomes) /\ Len(u) = 3 /\ \A k \in 1 .. 3 : u[k] = g[Len(g) - 3 + k]
    <3>1. Len(g) >= 3
      BY <1>1, <1>3
    <3> HIDE DEF g
    <3> QED
      BY <1>1, <3>1, LastThreeProperties
  <2> HIDE DEF t, u, g
  <2>3. u[1] = t[2] /\ u[2] = t[3] /\ u[3] = o
    <3>1. t[2] = h[Len(h) - 1] /\ t[3] = h[Len(h)]
      BY <1>1, <2>1
    <3>2. u[1] = g[Len(h) - 1] /\ u[2] = g[Len(h)] /\ u[3] = g[Len(h) + 1]
      BY <1>1, <2>2
    <3> QED
      BY <1>1, <1>3, <3>1, <3>2
  <2>4. u = << u[1], u[2], u[3] >>
    BY <2>2
  <2>5. Remember(t, o) = << t[2], t[3], o >>
    BY <2>1 DEF Remember
  <2> QED
    BY <2>3, <2>4, <2>5 DEF t, u, g
<1> QED
  BY <1>1, <1>2, <1>3

\* Two failures among three outcomes.
LEMMA TwoFailures ==
    ASSUME NEW t \in Seq(Outcomes), Len(t) = 3
    PROVE  /\ Failures(t) >= 2 <=> \E i, j \in 1 .. 3 : i # j /\ t[i] = "FAIL" /\ t[j] = "FAIL"
           /\ Failures(t) >= 2 => Successes(t) <= 1
<1> DEFINE F == Places(t, "FAIL")
           S == Places(t, "SUCCESS")
<1>1. IsFiniteSet(F) /\ IsFiniteSet(S) /\ Cardinality(F) \in Nat /\ Cardinality(S) \in Nat
  BY PlacesFinite
<1>2. Failures(t) = Cardinality(F) /\ Successes(t) = Cardinality(S)
  BY DEF Failures, Successes, Places
<1>3. /\ \A i : i \in F <=> i \in 1 .. 3 /\ t[i] = "FAIL"
      /\ \A i : i \in S <=> i \in 1 .. 3 /\ t[i] = "SUCCESS"
  BY LenProperties DEF Places
<1> HIDE DEF F, S
<1>4. /\ Cardinality(F) >= 2 <=> \E i, j \in F : i # j
      /\ Cardinality(S) >= 2 <=> \E i, j \in S : i # j
  BY <1>1, TwoOrMore
<1>5. ~ (Cardinality(F) >= 2 /\ Cardinality(S) >= 2)
  <2> SUFFICES ASSUME NEW i \in F, NEW j \in F, i # j, NEW k \in S, NEW l \in S, k # l
               PROVE  FALSE
    BY <1>4
  <2>1. F \cap S = {}
    BY <1>3
  <2>2. i \in 1 .. 3 /\ j \in 1 .. 3 /\ k \in 1 .. 3 /\ l \in 1 .. 3
    BY <1>3
  <2>3. i # k /\ i # l /\ j # k /\ j # l
    BY <2>1
  <2> QED
    BY <2>2, <2>3
<1> QED
  BY <1>1, <1>2, <1>3, <1>4, <1>5

-------------------------------------------------------------------------------
\* ---- the record ---------------------------------------------------------------------
Inv ==
    /\ history \in Seq(Outcomes)
    /\ DigestOfHistory
    /\ FullAutoIsEarned

\* What an outcome makes of a record that is a digest of the past.
LEMMA UpdateDigest ==
    ASSUME history \in Seq(Outcomes), DigestOfHistory, NEW o \in Outcomes, Update(o)
    PROVE  /\ history' \in Seq(Outcomes) /\ history' = Append(history, o)
           /\ Len(history') = Len(history) + 1 /\ history'[Len(history')] = o
           /\ record'.samples = Len(history')
           /\ record'.successes = Successes(history')
           /\ record'.recent = LastThree(history')
           /\ record'.mode = Demoted(Promoted(record.mode, Len(history'),
                                              Successes(history')), record'.recent)
<1>1. /\ history' = Append(history, o) /\ record' = UpdateRecord(record, o)
      /\ record.samples = Len(history) /\ record.successes = Successes(history)
      /\ record.recent = LastThree(history)
  BY DEF Update, DigestOfHistory, LastThree
<1>2. /\ history' \in Seq(Outcomes) /\ Len(history') = Len(history) + 1
      /\ history'[Len(history) + 1] = o
  BY <1>1, AppendProperties
<1>3. Successes(history') = Successes(history) + (IF o = "SUCCESS" THEN 1 ELSE 0)
  BY <1>1, SuccessesAppend
<1>4. Remember(LastThree(history), o) = LastThree(history')
  BY <1>1, RememberLastThree
<1> QED
  BY <1>1, <1>2, <1>3, <1>4 DEF UpdateRecord

\* A past in which the threshold was met stays one.
Met(h) ==
    \E n \in 0 .. Len(h) :
       n >= MinSamples /\ n > 0 /\ RatioReached(n, Successes(SubSeq(h, 1, n)))

LEMMA MetStays ==
    ASSUME NEW h \in Seq(Outcomes), NEW o \in Outcomes, Met(h)
    PROVE  Met(Append(h, o))
<1>1. PICK n \in 0 .. Len(h) :
         n >= MinSamples /\ n > 0 /\ RatioReached(n, Successes(SubSeq(h, 1, n)))
  BY DEF Met
<1> DEFINE g == Append(h, o)
<1>2. /\ Len(h) \in Nat /\ g \in Seq(Outcomes) /\ Len(g) = Len(h) + 1
      /\ \A i \in 1 .. Len(h) : g[i] = h[i]
  BY AppendProperties, LenProperties
<1> HIDE DEF g
<1>3. /\ \A i \in 1 .. n : g[i] = h[i] /\ h[i] \in Outcomes
      /\ 1 \in Int /\ n \in Int /\ 1 <= n /\ n - 1 + 1 = n
      /\ \A i \in 1 .. n : 1 + i - 1 = i
  BY <1>1, <1>2, ElementOfSeq
<1>4. /\ SubSeq(h, 1, n) \in Seq(Outcomes) /\ Len(SubSeq(h, 1, n)) = n
      /\ \A i \in 1 .. n : SubSeq(h, 1, n)[i] = h[i]
  BY <1>3, SubSeqProperties
<1>5. /\ SubSeq(g, 1, n) \in Seq(Outcomes) /\ Len(SubSeq(g, 1, n)) = n
      /\ \A i \in 1 .. n : SubSeq(g, 1, n)[i] = g[i]
  BY <1>3, SubSeqProperties
<1>6. SubSeq(g, 1, n) = SubSeq(h, 1, n)
  BY <1>3, <1>4, <1>5, SeqEqual
<1>7. n \in 0 .. Len(g)
  BY <1>2
<1> QED
  BY <1>1, <1>6, <1>7 DEF Met, g

LEMMA MetNow ==
    ASSUME NEW h \in Seq(Outcomes), Len(h) > 0, Len(h) >= MinSamples,
           RatioReached(Len(h), Successes(h))
    PROVE  Met(h)
<1>1. SubSeq(h, 1, Len(h)) = h
  BY SubSeqFull
<1>2. Len(h) \in 0 .. Len(h)
  <2>1. Len(h) \in Nat
    BY LenProperties
  <2> QED
    BY <2>1
<1> QED
  BY <1>1, <1>2 DEF Met

\* full_auto is lost to two failures in the last three runs, and only so.
LEMMA FullAutoStep ==
    ASSUME NEW mode, NEW samples, NEW successes, NEW recent
    PROVE  LET new == Demoted(Promoted(mode, samples, successes), recent) IN
           /\ new = "full_auto" =>
                 /\ ~ (Len(recent) = 3 /\ Failures(recent) >= 2)
                 /\ mode = "full_auto" \/ (samples >= MinSamples
                                           /\ RatioReached(samples, successes))
           /\ mode = "full_auto" /\ new # "full_auto" =>
                 Len(recent) = 3 /\ Failures(recent) >= 2
BY DEF Demoted, Promoted

LEMMA InitHistory == Init => Inv
<1> SUFFICES ASSUME Init PROVE Inv
  OBVIOUS
<1>1. history = << >> /\ record.samples = 0 /\ record.successes = 0
      /\ record.mode = CfgMode /\ record.recent = << >>
  BY DEF Init, InitialRecord
<1>2. history \in Seq(Outcomes) /\ Len(history) = 0
  BY <1>1
<1>3. Successes(history) = 0
  <2>1. {i \in DOMAIN history : history[i] = "SUCCESS"} = {}
    BY <1>1
  <2> QED
    BY <2>1, FS_EmptySet DEF Successes
<1>4. LastThree(history) = << >>
  <2>1. Len(history) <= 3
    BY <1>2
  <2> QED
    BY <1>1, <1>2, <2>1, LastThreeProperties
<1>5. DigestOfHistory
  BY <1>1, <1>2, <1>3, <1>4 DEF DigestOfHistory, LastThree
<1>6. FullAutoIsEarned
  BY <1>1, <1>2 DEF FullAutoIsEarned
<1> QED
  BY <1>2, <1>5, <1>6 DEF Inv

LEMMA UpdateKeeps ==
    ASSUME Inv, NEW o \in Outcomes, Update(o)
    PROVE  Inv'
<1>1. /\ history' \in Seq(Outcomes) /\ history' = Append(history, o)
      /\ Len(history') = Len(history) + 1
      /\ record'.samples = Len(history')
      /\ record'.successes = Successes(history')
      /\ record'.recent = LastThree(history')
      /\ record'.mode = Demoted(Promoted(record.mode, Len(history'),
                                         Successes(history')), record'.recent)
  BY UpdateDigest DEF Inv
<1>2. DigestOfHistory'
  BY <1>1 DEF DigestOfHistory, LastThree
<1>3. Len(history) \in Nat /\ history \in Seq(Outcomes)
  BY LenProperties DEF Inv
<1>4. ASSUME record'.mode = "full_auto"
      PROVE  /\ CfgMode = "full_auto" \/ Met(history')
             /\ ~ (Len(history') >= 3 /\ Failures(record'.recent) >= 2)
  <2>1. /\ ~ (Len(record'.recent) = 3 /\ Failures(record'.recent) >= 2)
        /\ record.mode = "full_auto" \/ (Len(history') >= MinSamples
                                 /\ RatioReached(Len(history'), Successes(history')))
    BY <1>1, <1>4, FullAutoStep
  <2>2. Len(history') >= 3 => Len(record'.recent) = 3
    BY <1>1, LastThreeProperties
  <2>3. CASE record.mode = "full_auto"
    <3>1. CfgMode = "full_auto" \/ Met(history)
      BY <2>3 DEF Inv, FullAutoIsEarned, Met, Prefix
    <3> QED
      BY <1>1, <1>3, <2>1, <2>2, <3>1, MetStays
  <2>4. CASE Len(history') >= MinSamples /\ RatioReached(Len(history'), Successes(history'))
    <3>1. Len(history') > 0
      BY <1>1, <1>3
    <3>2. Met(history')
      BY <1>1, <2>4, <3>1, MetNow
    <3> QED
      BY <2>1, <2>2, <3>2
  <2> QED
    BY <2>1, <2>3, <2>4
<1>5. FullAutoIsEarned'
  BY <1>4 DEF FullAutoIsEarned, Met, Prefix
<1> QED
  BY <1>1, <1>2, <1>5 DEF Inv

LEMMA HistoryAlways == Spec => []Inv
<1>1. Inv /\ [Next]_vars => Inv'
  <2> SUFFICES ASSUME Inv, [Next]_vars PROVE Inv'
    OBVIOUS
  <2>1. CASE UNCHANGED vars
    BY <2>1 DEF vars, Inv, DigestOfHistory, FullAutoIsEarned, Prefix
  <2>2. CASE Done
    BY <2>2 DEF Done, vars, Inv, DigestOfHistory, FullAutoIsEarned, Prefix
  <2> QED
    BY <2>1, <2>2, UpdateKeeps DEF Next
<1> QED
  BY <1>1, InitHistory, PTL DEF Spec

\* The record an intent has in autonomy_store.v1.json is a true digest of its whole past,
\* however long: samples and successes count every outcome and recent holds the last three
\* (update_autonomy_record in autonomy.py).
THEOREM RecordIsDigest == Spec => []DigestOfHistory
<1>1. Inv => DigestOfHistory
  BY DEF Inv
<1> QED
  BY <1>1, HistoryAlways, PTL

\* An intent that may act without a human was configured so or has met the threshold over
\* enough runs, and has not failed twice in its last three, for any threshold and any
\* min_samples (autonomy.py:109 to 118).
THEOREM AutonomyEarned == Spec => []FullAutoIsEarned
<1>1. Inv => FullAutoIsEarned
  BY DEF Inv
<1> QED
  BY <1>1, HistoryAlways, PTL

\* full_auto must be earned, and no run succeeds without it.
Earnable == CfgMode # "full_auto" /\ ThresholdNum > 0

\* Where an intent must earn full_auto, it is gained only with the threshold met over the
\* whole past, and lost only by a failure, the second one in three runs.  An intent that
\* was configured full_auto may be demoted by a success: the third outcome, after two
\* failures (autonomy.py:115).
THEOREM ModeMoves ==
    ASSUME Earnable
    PROVE  Spec => ModeMovesForCause
<1> DEFINE Cause ==
       /\ (record.mode # "full_auto" /\ record'.mode = "full_auto") =>
             /\ RatioReached(Len(history'), Successes(history'))
             /\ Len(history') >= MinSamples
       /\ (record.mode = "full_auto" /\ record'.mode # "full_auto") =>
             /\ history'[Len(history')] = "FAIL"
             /\ Successes(SubSeq(history', Len(history') - 2, Len(history'))) =< 1
<1>1. ASSUME Inv, NEW o \in Outcomes, Update(o) PROVE Cause
  <2>1. /\ history' \in Seq(Outcomes) /\ history' = Append(history, o)
        /\ Len(history') = Len(history) + 1 /\ history'[Len(history')] = o
        /\ record'.recent = LastThree(history')
        /\ record'.mode = Demoted(Promoted(record.mode, Len(history'),
                                           Successes(history')), record'.recent)
    BY <1>1, UpdateDigest DEF Inv
  <2>2. Len(history) \in Nat /\ history \in Seq(Outcomes)
    BY <1>1, LenProperties DEF Inv
  <2>3. record.mode # "full_auto" /\ record'.mode = "full_auto" =>
           RatioReached(Len(history'), Successes(history')) /\ Len(history') >= MinSamples
    BY <2>1, FullAutoStep
  <2>4. ASSUME record.mode = "full_auto", record'.mode # "full_auto"
        PROVE  /\ o = "FAIL"
               /\ Successes(SubSeq(history', Len(history') - 2, Len(history'))) =< 1
    <3>1. Len(LastThree(history')) = 3 /\ Failures(LastThree(history')) >= 2
      BY <2>1, <2>4, FullAutoStep
    <3>2. Len(history') >= 3
      <4> DEFINE m == Len(history')
      <4>1. m \in Nat
        BY <2>1, <2>2
      <4>2. m <= 3 => m = 3
        BY <2>1, <3>1, LastThreeProperties
      <4> HIDE DEF m
      <4>3. m >= 3
        BY <4>1, <4>2
      <4> QED
        BY <4>3 DEF m
    <3>3. /\ LastThree(history') \in Seq(Outcomes)
          /\ LastThree(history') = SubSeq(history', Len(history') - 2, Len(history'))
          /\ \A k \in 1 .. 3 : LastThree(history')[k] = history'[Len(history') - 3 + k]
      BY <2>1, <3>2, LastThreeProperties
    <3>4. Successes(LastThree(history')) <= 1
      BY <3>1, <3>3, TwoFailures
    <3>5. PICK i \in 1 .. 3, j \in 1 .. 3 :
             i # j /\ LastThree(history')[i] = "FAIL" /\ LastThree(history')[j] = "FAIL"
      BY <3>1, <3>3, TwoFailures
    <3>6. ASSUME o # "FAIL" PROVE FALSE
      <4> DEFINE n == Len(history)
      <4>1. \A k \in 1 .. n : history'[k] = history[k]
        BY <2>1, <2>2, AppendProperties
      <4>2. LastThree(history')[3] # "FAIL"
        BY <2>1, <2>2, <3>3, <3>6
      <4>3. LastThree(history')[1] = "FAIL" /\ LastThree(history')[2] = "FAIL"
        BY <3>5, <4>2
      <4>4. LastThree(history')[1] = history'[n - 1] /\ LastThree(history')[2] = history'[n]
        <5>1. Len(history') - 3 + 1 = n - 1 /\ Len(history') - 3 + 2 = n
          BY <2>1, <2>2
        <5>2. 1 \in 1 .. 3 /\ 2 \in 1 .. 3
          OBVIOUS
        <5> HIDE DEF n
        <5> QED
          BY <3>3, <5>1, <5>2
      <4>5. n >= 2 /\ history[n - 1] = "FAIL" /\ history[n] = "FAIL"
        BY <2>1, <2>2, <3>2, <4>1, <4>3, <4>4
      <4>6. CASE n >= 3
        <5>1. /\ LastThree(history) \in Seq(Outcomes) /\ Len(LastThree(history)) = 3
              /\ \A k \in 1 .. 3 : LastThree(history)[k] = history[n - 3 + k]
          BY <2>2, <4>6, LastThreeProperties
        <5>2. LastThree(history)[2] = "FAIL" /\ LastThree(history)[3] = "FAIL"
          BY <2>2, <4>5, <5>1
        <5>3. Failures(LastThree(history)) >= 2
          BY <5>1, <5>2, TwoFailures
        <5> QED
          BY <1>1, <2>4, <4>6, <5>3 DEF Inv, FullAutoIsEarned, DigestOfHistory, LastThree
      <4>7. CASE n = 2
        <5>1. PICK k \in 0 .. n : k > 0 /\ RatioReached(k, Successes(SubSeq(history, 1, k)))
          BY <1>1, <2>4 DEF Inv, FullAutoIsEarned, Prefix, Earnable
        <5>2. /\ \A i1 \in 1 .. k : history[i1] \in Outcomes
              /\ 1 \in Int /\ k \in Int /\ 1 <= k /\ k - 1 + 1 = k
              /\ \A i1 \in 1 .. k : 1 + i1 - 1 = i1
          BY <2>2, <5>1, ElementOfSeq
        <5>3. /\ SubSeq(history, 1, k) \in Seq(Outcomes)
              /\ Len(SubSeq(history, 1, k)) = k
              /\ \A i1 \in 1 .. k : SubSeq(history, 1, k)[i1] = history[i1]
          BY <5>2, SubSeqProperties
        <5>4. \A i1 \in 1 .. k : SubSeq(history, 1, k)[i1] # "SUCCESS"
          BY <2>2, <4>5, <4>7, <5>3
        <5>5. Successes(SubSeq(history, 1, k)) = 0
          <6> DEFINE sub == SubSeq(history, 1, k)
          <6>1. sub \in Seq(Outcomes) /\ Len(sub) = k
            BY <5>3
          <6>2. \A i1 \in 1 .. Len(sub) : sub[i1] # "SUCCESS"
            BY <5>4, <6>1
          <6> HIDE DEF sub
          <6>3. Successes(sub) \in Nat /\ ~ (Successes(sub) > 0)
            BY <6>1, <6>2, SuccessesCount
          <6> QED
            BY <6>3 DEF sub
        <5>6. 0 * ThresholdDen >= ThresholdNum * k
          BY <5>1, <5>5 DEF RatioReached
        <5> QED
          BY <5>1, <5>2, <5>6 DEF Earnable
      <4>8. n = 2 \/ n >= 3
        <5>1. n \in Nat
          BY <2>2
        <5> HIDE DEF n
        <5> QED
          BY <4>5, <5>1
      <4> QED
        BY <4>6, <4>7, <4>8
    <3> QED
      BY <3>3, <3>4, <3>6
  <2> QED
    BY <2>1, <2>3, <2>4
<1>2. Inv /\ [Next]_vars => [Cause]_vars
  <2> SUFFICES ASSUME Inv, [Next]_vars PROVE [Cause]_vars
    OBVIOUS
  <2> QED
    BY <1>1 DEF Next, Done
<1> HIDE DEF Cause
<1>3. Spec => [][Cause]_vars
  BY <1>2, HistoryAlways, PTL DEF Spec
<1> QED
  BY <1>3 DEF ModeMovesForCause, Cause

===============================================================================
