---------------------------------- MODULE Wal ----------------------------------
(***************************************************************************)
(* The write-ahead log of one store (src/shared/wal.py) and the processes  *)
(* that write the store through it: the work-item states, and the          *)
(* idempotency, quota and autonomy stores of the runner.                   *)
(*                                                                         *)
(* A write appends its intent (PENDING, with the whole new store), replaces *)
(* the store file atomically, and appends COMMITTED.  The usage in the     *)
(* module's docstring has every process replay what is PENDING when it     *)
(* starts.  Values of the store are numbered in the order of their         *)
(* intents.                                                                *)
(*                                                                         *)
(* With Alone = TRUE one process at a time uses the store; the log has no  *)
(* lock of its own.  A crash may tear the line that was being appended: it *)
(* has no newline then, and the next line is written on to it.             *)
(*                                                                         *)
(* Operators said to be faulty are used by no specification: each is a     *)
(* slip the code could have had in the operator that follows it.           *)
(***************************************************************************)
EXTENDS Naturals

CONSTANTS
    Procs,
    Alone,          \* does one process at a time use the store?
    RecoverFirst,   \* does a process replay the log when it starts?
    MaxWrites,      \* bound on the writes
    MaxCrashes,     \* bound on the processes that die
    MaxTorn         \* bound on the lines a crash tears

ASSUME WalAssumption ==
    /\ Alone \in BOOLEAN /\ RecoverFirst \in BOOLEAN
    /\ MaxWrites \in Nat /\ MaxCrashes \in Nat /\ MaxTorn \in Nat

VARIABLES
    log,        \* the lines of <store>.wal.jsonl that can be read
    unended,    \* does the file end in the middle of a line?
    store,      \* the value in the store file
    pc,
    mem,        \* what each process keeps in memory
    issued,     \* the number of the last write
    crashes,
    torn

vars == << log, unended, store, pc, mem, issued, crashes, torn >>
counters == << issued, crashes, torn >>

-------------------------------------------------------------------------------
Line(id, status) == [id |-> id, status |-> status]

\* _append: after a torn line the new one is written on to it, and _read_entries
\* skips the two as one.
AppendLine(line) ==
    /\ log' = IF unended THEN log ELSE log \cup {line}
    /\ unended' = FALSE

\* Faulty: what has been committed is replayed as well.
AllPending(lines) == {l.id : l \in {k \in lines : k.status = "PENDING"}}

\* recover: the writes that are PENDING without a COMMITTED record.
Uncommitted(lines) ==
    {l.id : l \in {k \in lines : k.status = "PENDING" /\ Line(k.id, "COMMITTED") \notin lines}}

\* truncate keeps what recover would return.
Kept(lines) == {l \in lines : l.status = "PENDING" /\ l.id \in Uncommitted(lines)}

NoMem == [val |-> 0, todo |-> {}, lines |-> {}]

Init ==
    /\ log = {}
    /\ unended = FALSE
    /\ store = 0
    /\ pc = [p \in Procs |-> "idle"]
    /\ mem = [p \in Procs |-> NoMem]
    /\ issued = 0
    /\ crashes = 0
    /\ torn = 0

At(p, label) == pc[p] = label
Goto(p, label) == pc' = [pc EXCEPT ![p] = label]
Exit(p) == Goto(p, "idle") /\ mem' = [mem EXCEPT ![p] = NoMem]

-------------------------------------------------------------------------------
\* ---- recovery at startup -------------------------------------------------------
Start(p) ==
    /\ At(p, "idle")
    /\ Alone => \A q \in Procs : At(q, "idle")
    /\ Goto(p, IF RecoverFirst THEN "scan" ELSE "ready")
    /\ UNCHANGED << log, unended, store, mem, counters >>

\* Faulty: what is to be replayed is marked as committed first.
MarkThenReplay(p) ==
    /\ At(p, "scan")
    /\ mem' = [mem EXCEPT ![p].todo = Uncommitted(log)]
    /\ log' = log \cup {Line(n, "COMMITTED") : n \in Uncommitted(log)}
    /\ Goto(p, "replay")
    /\ UNCHANGED << unended, store, counters >>

Recover(p) ==
    /\ At(p, "scan")
    /\ mem' = [mem EXCEPT ![p].todo = Uncommitted(log)]
    /\ Goto(p, "replay")
    /\ UNCHANGED << log, unended, store, counters >>

\* Entries are replayed in the order of the log, the oldest first.
Oldest(p, n) == n \in mem[p].todo /\ \A k \in mem[p].todo : n <= k

Replay(p) ==
    /\ At(p, "replay")
    /\ \E n \in mem[p].todo : Oldest(p, n) /\ store' = n
    /\ Goto(p, "confirm")
    /\ UNCHANGED << log, unended, mem, counters >>

\* mark_committed of a replayed entry
Confirm(p) ==
    /\ At(p, "confirm")
    /\ \E n \in mem[p].todo :
          /\ Oldest(p, n)
          /\ AppendLine(Line(n, "COMMITTED"))
          /\ mem' = [mem EXCEPT ![p].todo = @ \ {n}]
    /\ Goto(p, "replay")
    /\ UNCHANGED << store, counters >>

Recovered(p) ==
    /\ At(p, "replay")
    /\ mem[p].todo = {}
    /\ Goto(p, "ready")
    /\ UNCHANGED << log, unended, store, mem, counters >>

\* ---- a guarded write -------------------------------------------------------------
\* transaction() appends the intent before it yields.
Begin(p) ==
    /\ At(p, "ready")
    /\ issued < MaxWrites
    /\ issued' = issued + 1
    /\ mem' = [mem EXCEPT ![p].val = issued + 1]
    /\ AppendLine(Line(issued + 1, "PENDING"))
    /\ Goto(p, "write")
    /\ UNCHANGED << store, crashes, torn >>

\* write_json_atomic
Write(p) ==
    /\ At(p, "write")
    /\ store' = mem[p].val
    /\ Goto(p, "commit")
    /\ UNCHANGED << log, unended, mem, counters >>

\* The write raises: the entry stays PENDING, and the command ends.
WriteFails(p) ==
    /\ At(p, "write")
    /\ Exit(p)
    /\ UNCHANGED << log, unended, store, counters >>

\* Faulty: commit() marks the transaction as committed in memory only.
CommitInMemory(p) ==
    /\ At(p, "commit")
    /\ mem' = [mem EXCEPT ![p] = NoMem]
    /\ Goto(p, "ready")
    /\ UNCHANGED << log, unended, store, counters >>

\* commit
Commit(p) ==
    /\ At(p, "commit")
    /\ AppendLine(Line(mem[p].val, "COMMITTED"))
    /\ mem' = [mem EXCEPT ![p] = NoMem]
    /\ Goto(p, "ready")
    /\ UNCHANGED << store, counters >>

\* ---- truncate ----------------------------------------------------------------------
ReadLog(p) ==
    /\ At(p, "ready")
    /\ mem' = [mem EXCEPT ![p].lines = log]
    /\ Goto(p, "truncate")
    /\ UNCHANGED << log, unended, store, counters >>

\* The file is replaced by what is kept, when that is less than what was read.
Truncate(p) ==
    LET kept == Kept(mem[p].lines) IN
    /\ At(p, "truncate")
    /\ IF kept # mem[p].lines THEN log' = kept /\ unended' = FALSE
                              ELSE UNCHANGED << log, unended >>
    /\ mem' = [mem EXCEPT ![p] = NoMem]
    /\ Goto(p, "ready")
    /\ UNCHANGED << store, counters >>

Finish(p) ==
    /\ At(p, "ready")
    /\ Exit(p)
    /\ UNCHANGED << log, unended, store, counters >>

\* ---- crashes -------------------------------------------------------------------------
Crash(p) ==
    /\ ~ At(p, "idle")
    /\ crashes < MaxCrashes
    /\ crashes' = crashes + 1
    /\ Exit(p)
    /\ UNCHANGED << log, unended, store, issued, torn >>

\* The crash comes in the middle of an append.
CrashInAppend(p) ==
    /\ pc[p] \in {"ready", "confirm", "commit"}
    /\ crashes < MaxCrashes
    /\ torn < MaxTorn
    /\ crashes' = crashes + 1
    /\ torn' = torn + 1
    /\ unended' = TRUE
    /\ Exit(p)
    /\ UNCHANGED << log, store, issued >>

Recovery(p) == Start(p) \/ Recover(p) \/ Replay(p) \/ Confirm(p) \/ Recovered(p)

Transaction(p) == Begin(p) \/ Write(p) \/ WriteFails(p) \/ Commit(p)

Next ==
    \E p \in Procs :
       \/ Recovery(p) \/ Transaction(p)
       \/ ReadLog(p) \/ Truncate(p) \/ Finish(p)
       \/ Crash(p) \/ CrashInAppend(p)

Spec == Init /\ [][Next]_vars

-------------------------------------------------------------------------------
\* Types of every variable.
TypeOK ==
    /\ log \subseteq [id : 1 .. MaxWrites, status : {"PENDING", "COMMITTED"}]
    /\ unended \in BOOLEAN
    /\ store \in 0 .. MaxWrites
    /\ pc \in [Procs -> {"idle", "scan", "replay", "confirm", "ready", "write", "commit",
                         "truncate"}]
    /\ \A p \in Procs : mem[p].val \in 0 .. MaxWrites
    /\ issued \in 0 .. MaxWrites

\* As long as no line of the log was torn, the store never goes back to an older value,
\* whatever crashes, fails or is replayed: "uncommitted WAL entries are replayed to bring
\* state up to date" (wal.py).
ForwardWhileWhole == [][torn = 0 => store' >= store]_store

\* A process that has recovered finds every write that was ever begun in the store: an
\* intent that reached the log whole is carried out in the end, by its writer or by a
\* replay.
RecoveredIsLatest ==
    torn = 0 => \A p \in Procs :
        At(p, "ready") => store = issued /\ Uncommitted(log) = {}

\* What the log can still replay is what the store may lack: only the newest write,
\* and nothing when the store is up to date.
LogCoversStore ==
    torn = 0 =>
        /\ Uncommitted(log) \subseteq {issued}
        /\ store # issued => store = issued - 1 /\ Uncommitted(log) = {issued}

===============================================================================
