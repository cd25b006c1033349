------------------------------- MODULE Wal_proofs -------------------------------
(***************************************************************************)
(* Proofs about the write-ahead log, for any number of processes, writes,  *)
(* crashes and torn lines.                                                 *)
(*                                                                         *)
(* TypeCorrect holds for every use of the log.  The others assume what the *)
(* docstring of src/shared/wal.py asks for, a process that recovers when it*)
(* starts (RecoverFirst), and what nothing asks for, one process at a time *)
(* (Alone).                                                                *)
(***************************************************************************)
EXTENDS Wal, TLAPS

USE WalAssumption

\* ---- the types ------------------------------------------------------------------
Ids == 1 .. MaxWrites
Lines == [id : Ids, status : {"PENDING", "COMMITTED"}]
Mem == [val : 0 .. MaxWrites, todo : SUBSET Ids, lines : SUBSET Lines]
Labels == {"idle", "scan", "replay", "confirm", "ready", "write", "commit", "truncate"}

Types ==
    /\ log \in SUBSET Lines
    /\ unended \in BOOLEAN
    /\ store \in 0 .. MaxWrites
    /\ pc \in [Procs -> Labels]
    /\ mem \in [Procs -> Mem]
    /\ issued \in 0 .. MaxWrites
    /\ torn \in Nat
    /\ \A p \in Procs : pc[p] \in {"write", "commit"} => mem[p].val \in Ids

\* What a process can replay is in the log.
LEMMA UncommittedTyped ==
    ASSUME NEW lines \in SUBSET Lines
    PROVE  Uncommitted(lines) \in SUBSET Ids
BY DEF Uncommitted, Lines

LEMMA KeptTyped ==
    ASSUME NEW lines \in SUBSET Lines
    PROVE  Kept(lines) \in SUBSET Lines
BY DEF Kept

LEMMA NoMemTyped == NoMem \in Mem
<1>1. 0 \in 0 .. MaxWrites
  OBVIOUS
<1> QED
  BY <1>1 DEF NoMem, Mem

LEMMA InitTypes == Init => Types
<1>1. Init => mem \in [Procs -> Mem]
  BY NoMemTyped DEF Init
<1>2. Init => pc \in [Procs -> Labels] /\ \A p \in Procs : pc[p] = "idle"
  BY DEF Init, Labels
<1>3. Init => store \in 0 .. MaxWrites /\ issued \in 0 .. MaxWrites /\ torn \in Nat
  BY DEF Init
<1>4. Init => log \in SUBSET Lines /\ unended \in BOOLEAN
  BY DEF Init
<1> QED
  BY <1>1, <1>2, <1>3, <1>4 DEF Types

LEMMA NextTypes ==
    ASSUME Types, [Next]_vars
    PROVE  Types'
<1> USE DEF Types, Labels, At, Goto, Exit, NoMem, Mem, counters
<1>1. CASE UNCHANGED vars
  BY <1>1 DEF vars
<1>2. ASSUME NEW p \in Procs, Start(p) PROVE Types'
  BY <1>2 DEF Start
<1>3. ASSUME NEW p \in Procs, Recover(p) PROVE Types'
  BY <1>3, UncommittedTyped DEF Recover
<1>4. ASSUME NEW p \in Procs, Replay(p) PROVE Types'
  BY <1>4 DEF Replay, Oldest, Ids
<1>5. ASSUME NEW p \in Procs, Confirm(p) PROVE Types'
  <2>1. PICK n \in mem[p].todo : AppendLine(Line(n, "COMMITTED"))
                               /\ mem' = [mem EXCEPT ![p].todo = @ \ {n}]
    BY <1>5 DEF Confirm
  <2>2. Line(n, "COMMITTED") \in Lines
    BY DEF Line, Lines
  <2> QED
    BY <1>5, <2>1, <2>2 DEF Confirm, AppendLine
<1>6. ASSUME NEW p \in Procs, Recovered(p) PROVE Types'
  BY <1>6 DEF Recovered
<1>7. ASSUME NEW p \in Procs, Begin(p) PROVE Types'
  <2>1. issued + 1 \in Ids
    BY <1>7 DEF Begin, Ids
  <2>2. Line(issued + 1, "PENDING") \in Lines
    BY <2>1 DEF Line, Lines
  <2>3. issued + 1 \in 0 .. MaxWrites
    BY <2>1 DEF Ids
  <2> QED
    BY <1>7, <2>1, <2>2, <2>3 DEF Begin, AppendLine
<1>8. ASSUME NEW p \in Procs, Write(p) PROVE Types'
  BY <1>8 DEF Write
<1>9. ASSUME NEW p \in Procs, WriteFails(p) PROVE Types'
  BY <1>9 DEF WriteFails
<1>10. ASSUME NEW p \in Procs, Commit(p) PROVE Types'
  <2>1. Line(mem[p].val, "COMMITTED") \in Lines
    BY <1>10 DEF Commit, Line, Lines
  <2>2. log' \in SUBSET Lines /\ unended' \in BOOLEAN
    BY <1>10, <2>1 DEF Commit, AppendLine
  <2>3. mem' \in [Procs -> Mem]
    BY <1>10, NoMemTyped DEF Commit
  <2>4. \A q \in Procs : pc'[q] \in {"write", "commit"} => mem'[q].val \in Ids
    BY <1>10 DEF Commit
  <2> QED
    BY <1>10, <2>2, <2>3, <2>4 DEF Commit
<1>11. ASSUME NEW p \in Procs, ReadLog(p) PROVE Types'
  BY <1>11 DEF ReadLog
<1>12. ASSUME NEW p \in Procs, Truncate(p) PROVE Types'
  <2>1. mem[p].lines \in SUBSET Lines
    OBVIOUS
  <2>2. log' \in SUBSET Lines /\ unended' \in BOOLEAN
    BY <1>12, <2>1, KeptTyped DEF Truncate
  <2>3. mem' \in [Procs -> Mem]
    BY <1>12, NoMemTyped DEF Truncate
  <2>4. \A q \in Procs : pc'[q] \in {"write", "commit"} => mem'[q].val \in Ids
    BY <1>12 DEF Truncate
  <2> QED
    BY <1>12, <2>2, <2>3, <2>4 DEF Truncate
<1>13. ASSUME NEW p \in Procs, Finish(p) PROVE Types'
  BY <1>13 DEF Finish
<1>14. ASSUME NEW p \in Procs, Crash(p) PROVE Types'
  BY <1>14 DEF Crash
<1>15. ASSUME NEW p \in Procs, CrashInAppend(p) PROVE Types'
  BY <1>15 DEF CrashInAppend
<1> QED
  BY <1>1, <1>2, <1>3, <1>4, <1>5, <1>6, <1>7, <1>8, <1>9, <1>10, <1>11, <1>12, <1>13,
     <1>14, <1>15 DEF Next, Recovery, Transaction

\* The types of the log, the store and the processes: no process commits or replays
\* anything but a write that was begun (Wal.tla, TypeOK).
THEOREM TypeCorrect == Spec => []TypeOK
<1>1. Init => Types
  BY InitTypes
<1>2. Types /\ [Next]_vars => Types'
  BY NextTypes
<1>3. Types => TypeOK
  BY DEF Types, TypeOK, Mem, Labels, Lines, Ids
<1> QED
  BY <1>1, <1>2, <1>3, PTL DEF Spec

-------------------------------------------------------------------------------
\* ---- recovery -------------------------------------------------------------------
\* What one more line of the log does to the writes that can be replayed.
LEMMA IntentAdds ==
    ASSUME NEW lines \in SUBSET Lines, NEW n, Line(n, "COMMITTED") \notin lines
    PROVE  Uncommitted(lines \cup {Line(n, "PENDING")}) = Uncommitted(lines) \cup {n}
<1>1. Line(n, "COMMITTED") # Line(n, "PENDING")
  BY DEF Line
<1>2. \A k : Line(k, "COMMITTED") # Line(n, "PENDING")
  BY DEF Line
<1>3. Line(n, "PENDING").id = n /\ Line(n, "PENDING").status = "PENDING"
  BY DEF Line
<1> QED
  BY <1>1, <1>2, <1>3 DEF Uncommitted

LEMMA CommitRemoves ==
    ASSUME NEW lines \in SUBSET Lines, NEW n
    PROVE  Uncommitted(lines \cup {Line(n, "COMMITTED")}) = Uncommitted(lines) \ {n}
<1>1. Line(n, "COMMITTED").id = n /\ Line(n, "COMMITTED").status = "COMMITTED"
  BY DEF Line
<1>2. \A k : Line(k, "COMMITTED") = Line(n, "COMMITTED") <=> k = n
  BY DEF Line
<1> QED
  BY <1>1, <1>2 DEF Uncommitted

\* One process at a time is between its start and its end.
Single == \A p, q \in Procs : pc[p] # "idle" /\ pc[q] # "idle" => p = q

\* The log against the store.
Covers ==
    /\ unended = FALSE
    /\ \A l \in log : l.id <= issued
    /\ Uncommitted(log) \subseteq {issued}
    /\ store # issued => store = issued - 1 /\ Uncommitted(log) = {issued}

\* What a process knows at each of its steps.
Knows(p) ==
    /\ pc[p] \in {"ready", "truncate"} => Uncommitted(log) = {} /\ store = issued
    /\ pc[p] = "truncate" => mem[p].lines = log
    /\ pc[p] \in {"replay", "confirm"} => mem[p].todo = Uncommitted(log)
    /\ pc[p] = "confirm" => Uncommitted(log) = {issued} /\ store = issued
    /\ pc[p] \in {"write", "commit"} => mem[p].val = issued /\ Uncommitted(log) = {issued}
    /\ pc[p] = "commit" => store = issued

Whole == torn = 0 => Covers /\ \A p \in Procs : Knows(p)

Recovering == Types /\ Single /\ Whole

LEMMA NextSingle ==
    ASSUME Alone, Types, Single, [Next]_vars
    PROVE  Single'
<1> USE DEF Single, Types, Labels, At, Goto, Exit, counters
<1>1. CASE UNCHANGED vars
  BY <1>1 DEF vars
<1>2. ASSUME NEW p \in Procs, Recovery(p) PROVE Single'
  BY <1>2 DEF Recovery, Start, Recover, Replay, Confirm, Recovered
<1>3. ASSUME NEW p \in Procs, Transaction(p) PROVE Single'
  BY <1>3 DEF Transaction, Begin, Write, WriteFails, Commit
<1>4. ASSUME NEW p \in Procs, ReadLog(p) \/ Truncate(p) \/ Finish(p) PROVE Single'
  BY <1>4 DEF ReadLog, Truncate, Finish
<1>5. ASSUME NEW p \in Procs, Crash(p) \/ CrashInAppend(p) PROVE Single'
  BY <1>5 DEF Crash, CrashInAppend
<1> QED
  BY <1>1, <1>2, <1>3, <1>4, <1>5 DEF Next

\* A step of p that no crash tears keeps the log and the store in line: what the others
\* know is nothing, as they are idle.
LEMMA NextWhole ==
    ASSUME Alone, RecoverFirst, Recovering, [Next]_vars
    PROVE  Whole'
<1> SUFFICES ASSUME torn' = 0
             PROVE  Covers' /\ \A p \in Procs : Knows(p)'
  BY DEF Whole
<1>0. torn = 0
  BY DEF Recovering, Types, Next, vars, counters, Recovery, Transaction, Start, Recover,
         Replay, Confirm, Recovered, Begin, Write, WriteFails, Commit, ReadLog, Truncate,
         Finish, Crash, CrashInAppend
<1>a. Types /\ Single /\ Covers /\ \A p \in Procs : Knows(p)
  BY <1>0 DEF Recovering, Whole
<1>b. Single' /\ Types'
  BY <1>a, NextSingle, NextTypes
<1>c. ASSUME NEW p \in Procs, pc'[p] # "idle", Knows(p)' PROVE \A q \in Procs : Knows(q)'
  BY <1>b, <1>c DEF Single, Knows
<1>d. ASSUME NEW p \in Procs, pc'[p] = "idle", \A q \in Procs \ {p} : pc'[q] = "idle"
      PROVE  \A q \in Procs : Knows(q)'
  BY <1>d DEF Knows
<1> USE <1>a DEF Types, Mem, Labels, At, Goto, Exit, counters
<1>1. CASE UNCHANGED vars
  BY <1>1 DEF vars, Covers, Knows
<1>2. ASSUME NEW p \in Procs, Start(p) PROVE Covers' /\ \A q \in Procs : Knows(q)'
  <2>1. Covers' /\ pc'[p] = "scan" /\ Knows(p)'
    BY <1>2 DEF Start, Covers, Knows
  <2> QED
    BY <2>1, <1>c
<1>3. ASSUME NEW p \in Procs, Recover(p) PROVE Covers' /\ \A q \in Procs : Knows(q)'
  <2>1. Covers' /\ pc'[p] = "replay" /\ mem'[p].todo = Uncommitted(log)'
    BY <1>3, UncommittedTyped DEF Recover, Covers
  <2>2. Knows(p)'
    BY <2>1 DEF Knows
  <2> QED
    BY <2>1, <2>2, <1>c
<1>4. ASSUME NEW p \in Procs, Replay(p) PROVE Covers' /\ \A q \in Procs : Knows(q)'
  <2>1. PICK n \in mem[p].todo : store' = n
    BY <1>4 DEF Replay
  <2>2. mem[p].todo = Uncommitted(log) /\ Uncommitted(log) \subseteq {issued}
    BY <1>4 DEF Replay, Knows, Covers
  <2>3. n = issued /\ Uncommitted(log) = {issued}
    BY <2>1, <2>2
  <2>4. Covers' /\ pc'[p] = "confirm" /\ Knows(p)'
    BY <1>4, <2>1, <2>2, <2>3 DEF Replay, Covers, Knows
  <2> QED
    BY <2>4, <1>c
<1>5. ASSUME NEW p \in Procs, Confirm(p) PROVE Covers' /\ \A q \in Procs : Knows(q)'
  <2>1. PICK n \in mem[p].todo : AppendLine(Line(n, "COMMITTED"))
                               /\ mem' = [mem EXCEPT ![p].todo = @ \ {n}]
    BY <1>5 DEF Confirm
  <2>2. n = issued /\ store = issued /\ mem[p].todo = {issued} /\ Uncommitted(log) = {issued}
    BY <1>5, <2>1 DEF Confirm, Knows
  <2>3. log' = log \cup {Line(issued, "COMMITTED")} /\ unended' = FALSE
    BY <2>1, <2>2 DEF AppendLine, Covers
  <2>4. Uncommitted(log)' = {}
    BY <2>2, <2>3, CommitRemoves
  <2>5. Line(issued, "COMMITTED").id = issued
    BY DEF Line
  <2>6. issued' = issued /\ store' = store
    BY <1>5 DEF Confirm
  <2>7. \A l \in log' : l.id <= issued'
    BY <2>3, <2>5, <2>6 DEF Covers
  <2>8. Covers'
    BY <2>2, <2>3, <2>4, <2>6, <2>7 DEF Covers
  <2>9. pc'[p] = "replay" /\ mem'[p].todo = {}
    BY <1>5, <2>1, <2>2 DEF Confirm
  <2>10. Knows(p)'
    BY <2>4, <2>9 DEF Knows
  <2> QED
    BY <2>8, <2>9, <2>10, <1>c
<1>6. ASSUME NEW p \in Procs, Recovered(p) PROVE Covers' /\ \A q \in Procs : Knows(q)'
  <2>1. Covers' /\ pc'[p] = "ready" /\ Knows(p)'
    BY <1>6 DEF Recovered, Covers, Knows
  <2> QED
    BY <2>1, <1>c
<1>7. ASSUME NEW p \in Procs, Begin(p) PROVE Covers' /\ \A q \in Procs : Knows(q)'
  <2>1. Uncommitted(log) = {} /\ store = issued
    BY <1>7 DEF Begin, Knows
  <2>2. log' = log \cup {Line(issued', "PENDING")} /\ unended' = FALSE /\ issued' = issued + 1
    BY <1>7 DEF Begin, AppendLine, Covers
  <2>3. Line(issued', "COMMITTED") \notin log
    BY <2>2 DEF Line, Covers
  <2>4. Uncommitted(log)' = {issued'}
    BY <2>1, <2>2, <2>3, IntentAdds
  <2>5. Line(issued', "PENDING").id = issued'
    BY DEF Line
  <2>6. \A l \in log' : l.id <= issued'
    BY <2>2, <2>5 DEF Covers, Lines, Ids
  <2>7. store' = store /\ store = issued' - 1
    BY <1>7, <2>1, <2>2 DEF Begin
  <2>8. Covers'
    BY <2>2, <2>4, <2>6, <2>7 DEF Covers
  <2>9. pc'[p] = "write" /\ mem'[p].val = issued'
    BY <1>7, <2>2 DEF Begin
  <2>10. Knows(p)'
    BY <2>4, <2>9 DEF Knows
  <2> QED
    BY <2>8, <2>9, <2>10, <1>c
<1>8. ASSUME NEW p \in Procs, Write(p) PROVE Covers' /\ \A q \in Procs : Knows(q)'
  <2>1. Covers' /\ pc'[p] = "commit" /\ Knows(p)'
    BY <1>8 DEF Write, Covers, Knows
  <2> QED
    BY <2>1, <1>c
<1>9. ASSUME NEW p \in Procs, WriteFails(p) \/ Finish(p) \/ Crash(p)
      PROVE  Covers' /\ \A q \in Procs : Knows(q)'
  <2>1. Covers' /\ pc'[p] = "idle" /\ pc[p] # "idle"
    BY <1>9 DEF WriteFails, Finish, Crash, Covers
  <2>2. \A q \in Procs \ {p} : pc'[q] = "idle"
    BY <1>9, <2>1 DEF WriteFails, Finish, Crash, Single
  <2> QED
    BY <2>1, <2>2, <1>d
<1>10. ASSUME NEW p \in Procs, Commit(p) PROVE Covers' /\ \A q \in Procs : Knows(q)'
  <2>1. mem[p].val = issued /\ Uncommitted(log) = {issued} /\ store = issued
    BY <1>10 DEF Commit, Knows
  <2>2. log' = log \cup {Line(issued, "COMMITTED")} /\ unended' = FALSE
    BY <1>10, <2>1 DEF Commit, AppendLine, Covers
  <2>3. Uncommitted(log)' = {}
    BY <2>1, <2>2, CommitRemoves
  <2>4. Line(issued, "COMMITTED").id = issued
    BY DEF Line
  <2>5. issued' = issued /\ store' = store
    BY <1>10 DEF Commit
  <2>6. \A l \in log' : l.id <= issued'
    BY <2>2, <2>4, <2>5 DEF Covers
  <2>7. Covers'
    BY <2>1, <2>2, <2>3, <2>5, <2>6 DEF Covers
  <2>8. pc'[p] = "ready" /\ store' = issued'
    BY <1>10, <2>1 DEF Commit
  <2>9. Knows(p)'
    BY <2>3, <2>8 DEF Knows
  <2> QED
    BY <2>7, <2>8, <2>9, <1>c
<1>11. ASSUME NEW p \in Procs, ReadLog(p) PROVE Covers' /\ \A q \in Procs : Knows(q)'
  <2>1. Covers' /\ pc'[p] = "truncate" /\ Knows(p)'
    BY <1>11 DEF ReadLog, Covers, Knows
  <2> QED
    BY <2>1, <1>c
<1>12. ASSUME NEW p \in Procs, Truncate(p) PROVE Covers' /\ \A q \in Procs : Knows(q)'
  <2>1. mem[p].lines = log /\ Uncommitted(log) = {} /\ store = issued
    BY <1>12 DEF Truncate, Knows
  <2>2. Kept(log) = {}
    BY <2>1 DEF Kept
  <2>3. log' = {}
    BY <1>12, <2>1, <2>2 DEF Truncate
  <2>4. Uncommitted(log)' = {}
    BY <2>3 DEF Uncommitted
  <2>5. unended' = FALSE
    BY <1>12 DEF Truncate, Covers
  <2>6. Covers'
    BY <1>12, <2>1, <2>3, <2>4, <2>5 DEF Truncate, Covers
  <2>7. pc'[p] = "ready" /\ Knows(p)'
    BY <1>12, <2>1, <2>4 DEF Truncate, Knows
  <2> QED
    BY <2>6, <2>7, <1>c
<1>13. ASSUME NEW p \in Procs, CrashInAppend(p) PROVE Covers' /\ \A q \in Procs : Knows(q)'
  BY <1>13, <1>0 DEF CrashInAppend
<1> QED
  BY <1>1, <1>2, <1>3, <1>4, <1>5, <1>6, <1>7, <1>8, <1>9, <1>10, <1>11, <1>12, <1>13
     DEF Next, Recovery, Transaction

LEMMA InitRecovering == Init => Recovering
<1> SUFFICES ASSUME Init PROVE Single /\ Whole
  BY InitTypes DEF Recovering
<1>1. Uncommitted(log) = {}
  BY DEF Init, Uncommitted
<1> QED
  BY <1>1 DEF Init, Single, Whole, Covers, Knows

LEMMA RecoveringAlways == Alone /\ RecoverFirst /\ Spec => []Recovering
<1> SUFFICES ASSUME Alone, RecoverFirst PROVE Spec => []Recovering
  OBVIOUS
<1>1. Recovering /\ [Next]_vars => Recovering'
  BY NextTypes, NextSingle, NextWhole DEF Recovering
<1> QED
  BY <1>1, InitRecovering, PTL DEF Spec

\* Whoever recovers when it starts, alone, finds every write that was begun in the store,
\* however many processes died before it and wherever (wal.py, recover and transaction).
THEOREM RecoveryComplete == Alone /\ RecoverFirst /\ Spec => []RecoveredIsLatest
<1>1. Recovering => RecoveredIsLatest
  BY DEF Recovering, Whole, Knows, RecoveredIsLatest, At
<1> QED
  BY <1>1, RecoveringAlways, PTL

\* At every moment the log holds what the store lacks, and nothing older.
THEOREM LogComplete == Alone /\ RecoverFirst /\ Spec => []LogCoversStore
<1>1. Recovering => LogCoversStore
  BY DEF Recovering, Whole, Covers, LogCoversStore
<1> QED
  BY <1>1, RecoveringAlways, PTL

\* No write and no replay takes the store back, as long as no line was torn.
THEOREM StoreForward == Alone /\ RecoverFirst /\ Spec => ForwardWhileWhole
<1> SUFFICES ASSUME Alone, RecoverFirst PROVE Spec => ForwardWhileWhole
  OBVIOUS
<1>1. ASSUME Recovering, [Next]_vars PROVE [torn = 0 => store' >= store]_store
  <2> SUFFICES ASSUME torn = 0, store' # store PROVE store' >= store
    OBVIOUS
  <2>1. Types /\ Covers /\ \A p \in Procs : Knows(p)
    BY <1>1 DEF Recovering, Whole
  <2>2. store <= issued
    BY <2>1 DEF Covers, Types
  <2>3. PICK p \in Procs : Replay(p) \/ Write(p)
    BY <1>1 DEF Next, vars, counters, Recovery, Transaction, Start, Recover, Confirm,
                Recovered, Begin, WriteFails, Commit, ReadLog, Truncate, Finish, Crash,
                CrashInAppend
  <2>4. store' = issued
    BY <2>1, <2>3 DEF Replay, Write, At, Knows, Covers
  <2> QED
    BY <2>1, <2>2, <2>4 DEF Types
<1>2. Spec => []Recovering
  BY RecoveringAlways
<1> QED
  BY <1>1, <1>2, PTL DEF Spec, ForwardWhileWhole

===============================================================================
