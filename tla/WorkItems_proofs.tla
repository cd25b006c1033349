---------------------------- MODULE WorkItems_proofs ----------------------------
(***************************************************************************)
(* Proofs about the work items, for any number of tickets, agents, edits   *)
(* and kills, any ticket lifetimes and any sharing of run ids.             *)
(*                                                                         *)
(* TypeCorrect holds for every interleaving.  The others assume ~ Overlap: *)
(* no store is loaded between another process' load and save of it.        *)
(***************************************************************************)
EXTENDS WorkItems, Integers, TLAPS

USE BoundsAssumption, RolesAssumption, RunIdsAssumption, NoItemAssumption

\* ---- the types ------------------------------------------------------------------
Labels == {"idle", "pick", "leaseLoad", "leaseSave", "lookup", "load", "save", "record",
           "act", "relLoad", "leaseFree", "claimSave", "transfer"}

Entry == [state : States, fp : Nat]
Lease == [run : SUBSET Agents, until : Nat]
ClaimEntry == [owner : SUBSET Agents, until : Nat]

Job == [op : {"none", "exec", "close", "reopen", "claim", "release"},
        item : Items \cup {NoItem}, todo : SUBSET Items, slots : Int,
        vers : [Items -> Nat], target : States, applied : SUBSET Items, until : Nat,
        heir : SUBSET Agents, leases : [Items -> Lease], states : [Items -> Entry],
        claims : [Items -> ClaimEntry]]

FileTypes ==
    /\ intake \in [Items -> [open : BOOLEAN, ver : 1 .. MaxVersion]]
    /\ leases \in [Items -> Lease]
    /\ claims \in [Items -> ClaimEntry]
    /\ states \in [Items -> Entry]
    /\ report \in SUBSET Items

ProcTypes ==
    /\ pc \in [Agents -> Labels]
    /\ job \in [Agents -> Job]
    /\ \A a \in Agents : pc[a] \notin {"idle", "pick"} => job[a].item \in Items

Types == FileTypes /\ ProcTypes /\ now \in Nat /\ acted \in [Items -> Nat]

LEMMA StateTypes ==
    /\ \A s \in {"", "OPEN", "PLANNED", "IN_PROGRESS", "APPLIED", "CLOSED", "NOOP"} : s \in States
    /\ \A i \in Items : Outcome(i) \in {"PLANNED", "NOOP", "APPLIED"}
BY DEF States, FinalStates, Outcome

LEMMA EntryTypes ==
    /\ NoLease \in Lease
    /\ NoClaim \in ClaimEntry
    /\ \A t \in States, v \in Nat : [state |-> t, fp |-> v] \in Entry
BY DEF NoLease, Lease, NoClaim, ClaimEntry, Entry

LEMMA NoJobTyped ==
    /\ NoJob \in Job
    /\ NoJob.leases \in [Items -> Lease]
    /\ NoJob.states \in [Items -> Entry]
    /\ NoJob.claims \in [Items -> ClaimEntry]
<1> DEFINE noLeases == [i \in Items |-> NoLease]
           noStates == [i \in Items |-> [state |-> "", fp |-> 0]]
           noClaims == [i \in Items |-> NoClaim]
           noVers == [i \in Items |-> 0]
<1>1. noLeases \in [Items -> Lease] /\ noClaims \in [Items -> ClaimEntry]
  BY EntryTypes
<1>2. noStates \in [Items -> Entry] /\ noVers \in [Items -> Nat] /\ "" \in States
  BY EntryTypes, StateTypes
<1>3. NoJob = [op |-> "none", item |-> NoItem, todo |-> {}, slots |-> 0, vers |-> noVers,
               target |-> "", applied |-> {}, until |-> 0, heir |-> {},
               leases |-> noLeases, states |-> noStates, claims |-> noClaims]
  BY DEF NoJob
<1> HIDE DEF noLeases, noStates, noClaims, noVers
<1>4. NoJob \in Job
  <2>1. "none" \in {"none", "exec", "close", "reopen", "claim", "release"}
    OBVIOUS
  <2>2. NoItem \in Items \cup {NoItem} /\ {} \in SUBSET Items /\ {} \in SUBSET Agents
    OBVIOUS
  <2>3. 0 \in Int /\ 0 \in Nat
    OBVIOUS
  <2> QED
    BY <1>1, <1>2, <1>3, <2>1, <2>2, <2>3, Zenon DEF Job
<1> QED
  BY <1>4 DEF Job

\* A step changes a few fields of the job of its agent.
LEMMA FieldsTyped ==
    ASSUME NEW j \in Job
    PROVE  /\ \A x \in Items : [j EXCEPT !.item = x] \in Job
           /\ \A x \in SUBSET Items : [j EXCEPT !.todo = x] \in Job
           /\ \A x \in Int : [j EXCEPT !.slots = x] \in Job
           /\ \A x \in States : [j EXCEPT !.target = x] \in Job
           /\ \A x \in SUBSET Items : [j EXCEPT !.applied = x] \in Job
           /\ \A x \in Nat : [j EXCEPT !.until = x] \in Job
           /\ \A x \in SUBSET Agents : [j EXCEPT !.heir = x] \in Job
           /\ \A x \in [Items -> Lease] : [j EXCEPT !.leases = x] \in Job
           /\ \A x \in [Items -> Entry] : [j EXCEPT !.states = x] \in Job
           /\ \A x \in [Items -> ClaimEntry] : [j EXCEPT !.claims = x] \in Job
BY DEF Job

\* Its item is the one field that the others do not touch.
LEMMA ItemKept ==
    ASSUME NEW j \in Job, NEW x
    PROVE  /\ [j EXCEPT !.todo = x].item = j.item /\ [j EXCEPT !.slots = x].item = j.item
           /\ [j EXCEPT !.target = x].item = j.item /\ [j EXCEPT !.applied = x].item = j.item
           /\ [j EXCEPT !.until = x].item = j.item /\ [j EXCEPT !.heir = x].item = j.item
           /\ [j EXCEPT !.leases = x].item = j.item /\ [j EXCEPT !.states = x].item = j.item
           /\ [j EXCEPT !.claims = x].item = j.item /\ [j EXCEPT !.item = x].item = x
BY DEF Job

LEMMA OneProcess ==
    ASSUME ProcTypes, NEW a \in Agents, NEW label \in Labels, Goto(a, label),
           NEW j \in Job, job' = [job EXCEPT ![a] = j],
           label \in {"idle", "pick"} \/ j.item \in Items
    PROVE  ProcTypes'
BY DEF ProcTypes, Goto

LEMMA InitTypes == Init => Types
<1> SUFFICES ASSUME Init PROVE Types
  OBVIOUS
<1>1. [state |-> "", fp |-> 0] \in Entry
  BY StateTypes, EntryTypes
<1>2. intake \in [Items -> [open : BOOLEAN, ver : 1 .. MaxVersion]]
  <2>1. 1 \in 1 .. MaxVersion
    OBVIOUS
  <2>2. [open |-> TRUE, ver |-> 1] \in [open : BOOLEAN, ver : 1 .. MaxVersion]
    BY <2>1
  <2> QED
    BY <2>2 DEF Init
<1>3. leases \in [Items -> Lease] /\ claims \in [Items -> ClaimEntry]
  BY EntryTypes DEF Init
<1>4. states \in [Items -> Entry] /\ report \in SUBSET Items
  BY <1>1 DEF Init
<1>5. pc \in [Agents -> Labels] /\ job \in [Agents -> Job]
  BY NoJobTyped DEF Init, Labels
<1> QED
  BY <1>2, <1>3, <1>4, <1>5 DEF Init, Types, FileTypes, ProcTypes

\* What the entries and the copies of a step are made of.
LEMMA EntriesTyped ==
    ASSUME Types, NEW a \in Agents
    PROVE  /\ \A t \in States, v \in Nat : [state |-> t, fp |-> v] \in Entry
           /\ \A u \in Nat : [run |-> RunIdOf[a], until |-> u] \in Lease
           /\ \A o \in SUBSET Agents : Renewed(o) \in ClaimEntry
           /\ now + LeaseTtl \in Nat /\ now + ClaimTtl \in Nat
<1>1. RunIdOf[a] \in SUBSET Agents
  OBVIOUS
<1> QED
  BY <1>1 DEF Types, Entry, Lease, ClaimEntry, Renewed

LEMMA NextTicketTyped ==
    ASSUME Types, NEW a \in Agents, NextTicket(a)
    PROVE  ProcTypes'
<1>1. job[a] \in Job
  BY DEF Types, ProcTypes
<1>2. job'[a] \in Job
  BY <1>1, NoJobTyped DEF NextTicket, Types, ProcTypes, Job
<1> QED
  BY <1>2 DEF NextTicket, Goto, Types, ProcTypes, Labels

LEMMA ExitTyped ==
    ASSUME Types, NEW a \in Agents, Exit(a)
    PROVE  ProcTypes'
BY NoJobTyped DEF Exit, Goto, Types, ProcTypes, Labels

LEMMA ExecTypes ==
    ASSUME Types, NEW a \in Agents, Exec(a)
    PROVE  Types'
<1> USE DEF Types, files, history, bounds, At
<1>0. job[a] \in Job /\ pc[a] \in Labels /\ job \in [Agents -> Job]
  BY DEF ProcTypes
<1>a. pc[a] \notin {"idle", "pick"} => job[a].item \in Items
  BY DEF ProcTypes
<1>1. CASE StartExec(a)
  <2> DEFINE todo == {i \in Items : intake[i].open /\ Eligible(i)}
             vers == [i \in Items |-> intake[i].ver]
             j == [NoJob EXCEPT !.op = "exec", !.slots = Limit, !.todo = todo, !.vers = vers]
  <2>1. todo \in SUBSET Items /\ vers \in [Items -> Nat] /\ Limit \in Int
    BY DEF FileTypes
  <2>2. job' = [job EXCEPT ![a] = j] /\ Goto(a, "pick")
    BY <1>1 DEF StartExec
  <2> HIDE DEF todo, vers
  <2>3. j \in Job
    BY <2>1, NoJobTyped DEF Job
  <2> HIDE DEF j
  <2>4. ProcTypes'
    BY <2>2, <2>3, OneProcess DEF Labels
  <2> QED
    BY <1>1, <2>4 DEF StartExec, FileTypes
<1>2. CASE SkipTicket(a)
  <2>1. PICK i \in Items : job' = [job EXCEPT ![a] = [job[a] EXCEPT !.todo = @ \ {i}]]
    BY <1>0, <1>2 DEF SkipTicket
  <2>2. job[a].todo \ {i} \in SUBSET Items
    BY <1>0 DEF Job
  <2>3. [job[a] EXCEPT !.todo = @ \ {i}] \in Job
    BY <1>0, <2>2, FieldsTyped
  <2> QED
    BY <1>2, <2>1, <2>3 DEF SkipTicket, ProcTypes, FileTypes
<1>3. CASE PickTicket(a)
  <2>1. PICK i \in Items : job' = [job EXCEPT ![a] = [job[a] EXCEPT !.item = i]]
    BY <1>0, <1>3 DEF PickTicket
  <2> DEFINE j == [job[a] EXCEPT !.item = i]
  <2>2. j \in Job /\ j.item \in Items
    BY <1>0, FieldsTyped, ItemKept
  <2> HIDE DEF j
  <2>3. job' = [job EXCEPT ![a] = j] /\ Goto(a, "leaseLoad")
    BY <1>3, <2>1 DEF PickTicket, j
  <2>4. ProcTypes'
    BY <2>2, <2>3, OneProcess DEF Labels
  <2> QED
    BY <1>3, <2>4 DEF PickTicket, FileTypes
<1>4. CASE TicketLocked(a)
  BY <1>4, NextTicketTyped DEF TicketLocked, FileTypes
<1>5. CASE LoadLeases(a)
  <2> DEFINE k == [job[a] EXCEPT !.leases = leases]
             j == [k EXCEPT !.until = now + LeaseTtl]
  <2>1. job' = [job EXCEPT ![a] = j] /\ Goto(a, "leaseSave")
    BY <1>0, <1>5 DEF LoadLeases
  <2>2. now + LeaseTtl \in Nat /\ leases \in [Items -> Lease]
    BY DEF FileTypes
  <2>3. k \in Job /\ k.item = job[a].item
    BY <1>0, <2>2, FieldsTyped, ItemKept
  <2> HIDE DEF k
  <2>4. j \in Job /\ j.item = job[a].item
    BY <2>2, <2>3, FieldsTyped, ItemKept
  <2> HIDE DEF j
  <2>5. ProcTypes'
    BY <1>5, <1>a, <2>1, <2>4, OneProcess DEF LoadLeases, Labels
  <2> QED
    BY <1>5, <2>5 DEF LoadLeases, FileTypes
<1>6. CASE SaveLease(a)
  <2>1. leases' \in [Items -> Lease]
    BY <1>0, <1>6, EntriesTyped DEF SaveLease, Job
  <2>2. job' = [job EXCEPT ![a] = [job[a] EXCEPT !.leases = NoJob.leases]]
    BY <1>0, <1>6 DEF SaveLease
  <2>3. [job[a] EXCEPT !.leases = NoJob.leases] \in Job
        /\ [job[a] EXCEPT !.leases = NoJob.leases].item = job[a].item
    BY <1>0, NoJobTyped, FieldsTyped, ItemKept
  <2>4. ProcTypes'
    BY <1>6, <1>a, <2>2, <2>3, OneProcess DEF SaveLease, Labels
  <2> QED
    BY <1>6, <2>1, <2>4 DEF SaveLease, FileTypes
<1>7. CASE AlreadyDone(a)
  BY <1>7 DEF AlreadyDone, ProcTypes, FileTypes, Goto, Labels
<1>8. CASE ToBeDone(a)
  <2>1. job' = [job EXCEPT ![a] = [job[a] EXCEPT !.target = "IN_PROGRESS"]]
    BY <1>0, <1>8 DEF ToBeDone
  <2>2. [job[a] EXCEPT !.target = "IN_PROGRESS"] \in Job
        /\ [job[a] EXCEPT !.target = "IN_PROGRESS"].item = job[a].item
    BY <1>0, StateTypes, FieldsTyped, ItemKept
  <2>3. ProcTypes'
    BY <1>8, <1>a, <2>1, <2>2, OneProcess DEF ToBeDone, Labels
  <2> QED
    BY <1>8, <2>3 DEF ToBeDone, FileTypes
<1>9. CASE LoadStates(a)
  <2>1. job' = [job EXCEPT ![a] = [job[a] EXCEPT !.states = states]]
    BY <1>0, <1>9 DEF LoadStates
  <2>2. [job[a] EXCEPT !.states = states] \in Job
        /\ [job[a] EXCEPT !.states = states].item = job[a].item
    BY <1>0, FieldsTyped, ItemKept DEF FileTypes
  <2>3. ProcTypes'
    BY <1>9, <1>a, <2>1, <2>2, OneProcess DEF LoadStates, Labels
  <2> QED
    BY <1>9, <2>3 DEF LoadStates, FileTypes
<1>10. CASE Refuse(a)
  BY <1>10, ExitTyped DEF Refuse, FileTypes
<1>11. CASE SaveStates(a)
  <2>1. job[a].vers[job[a].item] \in Nat /\ job[a].target \in States
    BY <1>0, <1>a, <1>11 DEF SaveStates, Job
  <2>2. [state |-> job[a].target, fp |-> job[a].vers[job[a].item]] \in Entry
    BY <2>1, EntryTypes
  <2>3. states' \in [Items -> Entry]
    BY <1>0, <1>11, <2>2 DEF SaveStates, SavedStates, Job
  <2>4. job' = [job EXCEPT ![a] = [job[a] EXCEPT !.states = NoJob.states]]
    BY <1>0, <1>11 DEF SaveStates
  <2>5. [job[a] EXCEPT !.states = NoJob.states] \in Job
        /\ [job[a] EXCEPT !.states = NoJob.states].item = job[a].item
    BY <1>0, NoJobTyped, FieldsTyped, ItemKept
  <2>6. ProcTypes'
    BY <1>11, <1>a, <2>4, <2>5, OneProcess DEF SaveStates, Labels
  <2> QED
    BY <1>11, <2>3, <2>6 DEF SaveStates, FileTypes
<1>12. CASE Record(a)
  <2>1. CASE job[a].op # "exec"
    BY <1>12, <2>1, ExitTyped DEF Record, FileTypes
  <2>2. CASE job[a].op = "exec" /\ job[a].target = "IN_PROGRESS"
    BY <1>12, <2>2 DEF Record, ProcTypes, FileTypes, Goto, Labels
  <2>3. CASE job[a].op = "exec" /\ job[a].target # "IN_PROGRESS"
    <3> DEFINE applied == IF job[a].target = "APPLIED" THEN job[a].applied \cup {job[a].item}
                          ELSE job[a].applied
    <3>1. job' = [job EXCEPT ![a] = [job[a] EXCEPT !.applied = applied]] /\ Goto(a, "relLoad")
      BY <1>0, <1>12, <2>3 DEF Record
    <3>2. applied \in SUBSET Items
      BY <1>0, <1>a, <1>12 DEF Record, Job
    <3> HIDE DEF applied
    <3>3. [job[a] EXCEPT !.applied = applied] \in Job
          /\ [job[a] EXCEPT !.applied = applied].item = job[a].item
      BY <1>0, <3>2, FieldsTyped, ItemKept
    <3>4. ProcTypes'
      BY <1>12, <1>a, <3>1, <3>3, OneProcess DEF Record, Labels
    <3> QED
      BY <1>12, <3>4 DEF Record, FileTypes
  <2> QED
    BY <2>1, <2>2, <2>3
<1>13. CASE ActOnTicket(a)
  <2> DEFINE slots == IF Outcome(job[a].item) = "NOOP" THEN job[a].slots ELSE job[a].slots - 1
             k == [job[a] EXCEPT !.target = Outcome(job[a].item)]
             j == [k EXCEPT !.slots = slots]
  <2>1. job[a].item \in Items /\ job[a].slots \in Int
    BY <1>0, <1>a, <1>13 DEF ActOnTicket, Job
  <2>2. acted' \in [Items -> Nat]
    BY <1>13, <2>1 DEF ActOnTicket
  <2>3. Outcome(job[a].item) \in States /\ slots \in Int
    <3>1. Outcome(job[a].item) \in {"PLANNED", "NOOP", "APPLIED"}
      BY <2>1, StateTypes
    <3>2. Outcome(job[a].item) \in States
      BY <3>1, StateTypes
    <3> QED
      BY <2>1, <3>2
  <2>4. job' = [job EXCEPT ![a] = j] /\ Goto(a, "load")
    <3>1. [job[a] EXCEPT !.target = Outcome(job[a].item)].slots = job[a].slots
      BY <1>0 DEF Job
    <3> QED
      BY <1>0, <1>13, <3>1 DEF ActOnTicket
  <2> HIDE DEF slots
  <2>5. k \in Job /\ k.item = job[a].item
    BY <1>0, <2>3, FieldsTyped, ItemKept
  <2> HIDE DEF k
  <2>6. j \in Job /\ j.item = job[a].item
    BY <2>3, <2>5, FieldsTyped, ItemKept
  <2> HIDE DEF j
  <2>7. ProcTypes'
    BY <2>1, <2>4, <2>6, OneProcess DEF Labels
  <2> QED
    BY <1>13, <2>2, <2>7 DEF ActOnTicket, FileTypes
<1>14. CASE LoadLeasesAgain(a)
  <2>1. job' = [job EXCEPT ![a] = [job[a] EXCEPT !.leases = leases]]
    BY <1>0, <1>14 DEF LoadLeasesAgain
  <2>2. [job[a] EXCEPT !.leases = leases] \in Job
        /\ [job[a] EXCEPT !.leases = leases].item = job[a].item
    BY <1>0, FieldsTyped, ItemKept DEF FileTypes
  <2>3. ProcTypes'
    BY <1>14, <1>a, <2>1, <2>2, OneProcess DEF LoadLeasesAgain, Labels
  <2> QED
    BY <1>14, <2>3 DEF LoadLeasesAgain, FileTypes
<1>15. CASE FreeLease(a)
  <2>1. leases' \in [Items -> Lease]
    BY <1>0, <1>15, EntryTypes DEF FreeLease, FileTypes, Job
  <2> QED
    BY <1>15, <2>1, NextTicketTyped DEF FreeLease, FileTypes
<1>16. CASE FinishExec(a)
  <2>1. report' \in SUBSET Items
    BY <1>0, <1>16 DEF FinishExec, Job
  <2> QED
    BY <1>16, <2>1, ExitTyped DEF FinishExec, FileTypes
<1> QED
  BY <1>1, <1>2, <1>3, <1>4, <1>5, <1>6, <1>7, <1>8, <1>9, <1>10, <1>11, <1>12, <1>13,
     <1>14, <1>15, <1>16 DEF Exec

LEMMA OperateTypes ==
    ASSUME Types, NEW a \in Agents, Operate(a)
    PROVE  Types'
<1> USE DEF Types, files, history, bounds, At
<1>0. job[a] \in Job /\ pc[a] \in Labels /\ job \in [Agents -> Job]
  BY DEF ProcTypes
<1>a. pc[a] \notin {"idle", "pick"} => job[a].item \in Items
  BY DEF ProcTypes
<1>1. CASE BuildIntake(a)
  <2>1. intake' \in [Items -> [open : BOOLEAN, ver : 1 .. MaxVersion]]
    BY <1>1 DEF BuildIntake
  <2> QED
    BY <1>1, <2>1 DEF BuildIntake, ProcTypes, FileTypes
<1>2. CASE Close(a)
  <2>1. PICK i \in Items, op \in {"close", "reopen"} :
           job' = [job EXCEPT ![a] = [NoJob EXCEPT !.op = op, !.item = i,
                      !.target = IF op = "close" THEN "CLOSED" ELSE "OPEN"]]
    BY <1>2 DEF Close
  <2>2. job'[a] \in Job /\ job'[a].item = i
    BY <2>1, NoJobTyped, StateTypes DEF ProcTypes, Job
  <2> QED
    BY <1>2, <2>1, <2>2 DEF Close, ProcTypes, FileTypes, Goto, Labels
<1>3. CASE Claim(a)
  <2>1. PICK i \in Items :
           job' = [job EXCEPT ![a] = [NoJob EXCEPT !.op = "claim", !.item = i,
                      !.claims = [claims EXCEPT ![i] = Renewed({a})]]]
    BY <1>3 DEF Claim
  <2>2. [claims EXCEPT ![i] = Renewed({a})] \in [Items -> ClaimEntry]
    BY EntriesTyped DEF FileTypes
  <2>3. job'[a] \in Job /\ job'[a].item = i
    BY <2>1, <2>2, NoJobTyped DEF ProcTypes, Job
  <2> QED
    BY <1>3, <2>1, <2>3 DEF Claim, ProcTypes, FileTypes, Goto, Labels
<1>4. CASE ReleaseClaim(a)
  <2>1. PICK i \in Items, heir \in {{}} \cup {{b} : b \in Agents \ {a}} :
           job' = [job EXCEPT ![a] = [NoJob EXCEPT !.op = "release", !.item = i,
                      !.heir = heir, !.claims = [claims EXCEPT ![i] = NoClaim]]]
    BY <1>4 DEF ReleaseClaim
  <2>2. [claims EXCEPT ![i] = NoClaim] \in [Items -> ClaimEntry] /\ heir \in SUBSET Agents
    BY EntryTypes DEF FileTypes
  <2>3. job'[a] \in Job /\ job'[a].item = i
    BY <2>1, <2>2, NoJobTyped DEF ProcTypes, Job
  <2> QED
    BY <1>4, <2>1, <2>3 DEF ReleaseClaim, ProcTypes, FileTypes, Goto, Labels
<1>5. CASE SaveClaims(a)
  <2>1. claims' \in [Items -> ClaimEntry]
    BY <1>0, <1>5 DEF SaveClaims, Job
  <2>2. ProcTypes'
    <3>1. CASE job[a].heir = {}
      BY <1>5, <3>1, ExitTyped DEF SaveClaims
    <3>2. CASE job[a].heir # {}
      <4>1. job' = [job EXCEPT ![a] = [job[a] EXCEPT !.claims = NoJob.claims]]
            /\ Goto(a, "transfer")
        BY <1>0, <1>5, <3>2 DEF SaveClaims
      <4>2. [job[a] EXCEPT !.claims = NoJob.claims] \in Job
            /\ [job[a] EXCEPT !.claims = NoJob.claims].item = job[a].item
        BY <1>0, NoJobTyped, FieldsTyped, ItemKept
      <4> QED
        BY <1>5, <1>a, <4>1, <4>2, OneProcess DEF SaveClaims, Labels
    <3> QED
      BY <3>1, <3>2
  <2> QED
    BY <1>5, <2>1, <2>2 DEF SaveClaims, FileTypes
<1>6. CASE Transfer(a)
  <2>1. CASE ~ MayClaim(job[a].item, job[a].heir)
    BY <1>6, <2>1, ExitTyped DEF Transfer, FileTypes
  <2>2. CASE MayClaim(job[a].item, job[a].heir)
    <3>1. [claims EXCEPT ![job[a].item] = Renewed(job[a].heir)] \in [Items -> ClaimEntry]
      BY <1>0, EntriesTyped DEF FileTypes, Job
    <3> DEFINE k == [job[a] EXCEPT !.claims = [claims EXCEPT ![job[a].item] =
                                                       Renewed(job[a].heir)]]
               j == [k EXCEPT !.heir = {}]
    <3>2. job' = [job EXCEPT ![a] = j] /\ Goto(a, "claimSave")
      BY <1>0, <1>6, <2>2 DEF Transfer
    <3>3. k \in Job /\ k.item = job[a].item
      BY <1>0, <3>1, FieldsTyped, ItemKept
    <3> HIDE DEF k
    <3>4. j \in Job /\ j.item = job[a].item
      BY <3>3, FieldsTyped, ItemKept
    <3> HIDE DEF j
    <3>5. ProcTypes'
      BY <1>6, <1>a, <3>2, <3>4, OneProcess DEF Transfer, Labels
    <3> QED
      BY <1>6, <3>5 DEF Transfer, FileTypes
  <2> QED
    BY <2>1, <2>2
<1> QED
  BY <1>1, <1>2, <1>3, <1>4, <1>5, <1>6 DEF Operate

LEMMA NextTypes ==
    ASSUME Types, [Next]_vars
    PROVE  Types'
<1>1. CASE UNCHANGED vars
  BY <1>1 DEF vars, files, history, Types, FileTypes, ProcTypes
<1>2. ASSUME NEW a \in Agents, Kill(a) PROVE Types'
  BY <1>2, ExitTyped DEF Kill, files, history, Types, FileTypes
<1>3. CASE Tick
  BY <1>3 DEF Tick, files, history, Types, FileTypes, ProcTypes
<1> QED
  BY <1>1, <1>2, <1>3, ExecTypes, OperateTypes DEF Next

\* Every store keeps its shape, whatever is loaded, saved, lost or killed
\* (WorkItems.tla, TypeOK).
THEOREM TypeCorrect == Spec => []TypeOK
<1>1. Types /\ [Next]_vars => Types'
  BY NextTypes
<1>2. Types => TypeOK
  BY DEF Types, FileTypes, ProcTypes, TypeOK, Job, Labels, Entry, Lease, ClaimEntry
<1> QED
  BY <1>1, <1>2, InitTypes, PTL DEF Spec

-------------------------------------------------------------------------------
\* ---- the lifecycle of a ticket ----------------------------------------------------
Started(i) == [item |-> i, state |-> "IN_PROGRESS", result |-> "STARTED"]

\* The stages of an agent that may change a ticket's state, or write its output.
Stages == {"load", "save", "record", "act"}

ExecStages == {"pick", "leaseLoad", "leaseSave", "lookup"}

\* The agent has moved its ticket to IN_PROGRESS and not written the output yet.
Starting(a) ==
    /\ job[a].op = "exec"
    /\ pc[a] = "act" \/ (pc[a] = "record" /\ job[a].target = "IN_PROGRESS")

\* It has written the output and not saved what came of it.
Ending(a) ==
    /\ job[a].op = "exec"
    /\ pc[a] \in {"load", "save"} /\ job[a].target # "IN_PROGRESS"

Working(a) == Starting(a) \/ Ending(a)

\* What the store, the outputs and the run log say of a ticket.
Settled(i) ==
    /\ states[i].state \in {"", "IN_PROGRESS", "APPLIED", "CLOSED"}
    /\ acted[i] <= 1
    /\ states[i].state = "" => acted[i] = 0
    /\ states[i].state = "APPLIED" => acted[i] = 1 /\ Started(i) \in runs

\* Which steps an agent takes.
Step(a) ==
    /\ pc[a] \in {"load", "save", "record"} =>
          \/ job[a].op = "exec" /\ job[a].target \in {"IN_PROGRESS", "PLANNED", "NOOP", "APPLIED"}
          \/ job[a].op = "close" /\ job[a].target = "CLOSED"
          \/ job[a].op = "reopen" /\ job[a].target = "OPEN" /\ pc[a] = "load"
    /\ pc[a] \in ExecStages \cup {"act"} => job[a].op = "exec"

\* What it may rely on when it takes them.
Relies(a) ==
    LET i == job[a].item IN
    /\ pc[a] = "load" /\ job[a].op = "reopen" => states[i].state = "CLOSED"
    /\ pc[a] = "save" => /\ job[a].states = states
                         /\ ValidTransition(states[i].state, job[a].target)
    /\ Starting(a) => states[i].state = "IN_PROGRESS" /\ acted[i] = 0
    /\ pc[a] = "act" \/ Ending(a) => Started(i) \in runs
    /\ Ending(a) => /\ states[i].state = "IN_PROGRESS"
                    /\ job[a].target = "APPLIED" => acted[i] = 1

OneSaver == \A a, b \in Agents : pc[a] = "save" /\ pc[b] = "save" => a = b

OneWorker ==
    \A a, b \in Agents : Working(a) /\ Working(b) /\ job[a].item = job[b].item => a = b

LifecycleInv ==
    /\ \A i \in Items : Settled(i)
    /\ \A a \in Agents : Step(a) /\ Relies(a)
    /\ OneSaver /\ OneWorker

\* A step of a that leaves the stores of the lifecycle alone and after which a is at none
\* of these stages.
Quiet(a) ==
    /\ states' = states /\ acted' = acted /\ runs \subseteq runs'
    /\ \A b \in Agents \ {a} : pc'[b] = pc[b] /\ job'[b] = job[b]
    /\ pc'[a] \notin Stages
    /\ pc'[a] \in ExecStages => job'[a].op = "exec"

LEMMA QuietKeeps ==
    ASSUME LifecycleInv, NEW a \in Agents, Quiet(a)
    PROVE  LifecycleInv'
<1> USE DEF Quiet, Stages, ExecStages
<1>1. ASSUME NEW b \in Agents, b # a
      PROVE  Step(b)' /\ Relies(b)' /\ (Working(b)' <=> Working(b)) /\ job'[b] = job[b]
  BY <1>1 DEF LifecycleInv, Step, Relies, Working, Starting, Ending
<1>2. Step(a)' /\ Relies(a)' /\ ~ Working(a)'
  BY DEF Step, Relies, Working, Starting, Ending
<1>3. \A i \in Items : Settled(i)'
  BY DEF LifecycleInv, Settled
<1>4. OneSaver'
  BY DEF LifecycleInv, OneSaver
<1>5. OneWorker'
  BY <1>1, <1>2 DEF LifecycleInv, OneWorker
<1> QED
  BY <1>1, <1>2, <1>3, <1>4, <1>5 DEF LifecycleInv

\* The steps that are quiet.
LEMMA QuietSteps ==
    ASSUME Types, LifecycleInv, NEW a \in Agents,
           \/ StartExec(a) \/ SkipTicket(a) \/ PickTicket(a) \/ TicketLocked(a)
           \/ LoadLeases(a) \/ SaveLease(a) \/ AlreadyDone(a) \/ Refuse(a)
           \/ LoadLeasesAgain(a) \/ FreeLease(a) \/ FinishExec(a)
           \/ Claim(a) \/ ReleaseClaim(a) \/ SaveClaims(a) \/ Transfer(a) \/ Kill(a)
    PROVE  Quiet(a)
<1> USE DEF Quiet, Stages, ExecStages, Types, ProcTypes, files, history, At, Goto
<1>0. job[a] \in Job /\ Step(a)
  BY DEF LifecycleInv
<1>a. \A x : [job[a] EXCEPT !.todo = x].op = job[a].op
             /\ [job[a] EXCEPT !.item = x].op = job[a].op
             /\ [job[a] EXCEPT !.leases = x].op = job[a].op
             /\ [job[a] EXCEPT !.until = x].op = job[a].op
  BY <1>0 DEF Job
<1>b. pc[a] \in ExecStages => job[a].op = "exec"
  BY <1>0 DEF Step
<1>1. CASE StartExec(a) \/ SkipTicket(a) \/ PickTicket(a)
  <2>1. CASE StartExec(a)
    <3>1. job'[a].op = "exec"
      BY <2>1 DEF StartExec, NoJob
    <3> QED
      BY <2>1, <3>1 DEF StartExec
  <2>2. CASE SkipTicket(a)
    BY <1>a, <1>b, <2>2 DEF SkipTicket
  <2>3. CASE PickTicket(a)
    BY <1>a, <1>b, <2>3 DEF PickTicket
  <2> QED
    BY <1>1, <2>1, <2>2, <2>3
<1>c. ASSUME NextTicket(a) PROVE job'[a].op = "exec"
  BY <1>c DEF NextTicket, NoJob
<1>2. CASE TicketLocked(a) \/ LoadLeases(a) \/ SaveLease(a)
  <2>1. CASE TicketLocked(a)
    BY <1>c, <2>1 DEF TicketLocked, NextTicket
  <2>2. CASE LoadLeases(a)
    <3>1. job'[a].op = job[a].op
      BY <1>0, <2>2 DEF LoadLeases, Job
    <3> QED
      BY <1>b, <2>2, <3>1 DEF LoadLeases
  <2>3. CASE SaveLease(a)
    BY <1>a, <1>b, <2>3 DEF SaveLease
  <2> QED
    BY <1>2, <2>1, <2>2, <2>3
<1>3. CASE AlreadyDone(a) \/ Refuse(a)
  BY <1>3 DEF AlreadyDone, Refuse, Exit
<1>4. CASE LoadLeasesAgain(a) \/ FreeLease(a) \/ FinishExec(a)
  BY <1>c, <1>4 DEF LoadLeasesAgain, FreeLease, FinishExec, NextTicket, Exit
<1>5. CASE Claim(a) \/ ReleaseClaim(a)
  BY <1>5 DEF Claim, ReleaseClaim
<1>6. CASE SaveClaims(a) \/ Transfer(a) \/ Kill(a)
  BY <1>6 DEF SaveClaims, Transfer, Kill, Exit
<1> QED
  BY <1>1, <1>2, <1>3, <1>4, <1>5, <1>6

\* The others are where they were.
LEMMA OthersKept ==
    ASSUME LifecycleInv, NEW a \in Agents, NEW b \in Agents, b # a,
           pc'[b] = pc[b], job'[b] = job[b], states' = states, acted' = acted,
           runs \subseteq runs'
    PROVE  Step(b)' /\ Relies(b)' /\ (Working(b)' <=> Working(b))
BY DEF LifecycleInv, Step, Relies, Working, Starting, Ending

\* What it takes for one agent's step to keep the invariant.
LEMMA Combined ==
    ASSUME LifecycleInv, NEW a \in Agents,
           \A i \in Items : Settled(i)',
           \A b \in Agents \ {a} : /\ Step(b)' /\ Relies(b)' /\ (Working(b)' => Working(b))
                                   /\ pc'[b] = pc[b] /\ job'[b] = job[b],
           Step(a)', Relies(a)',
           pc'[a] = "save" => \A b \in Agents \ {a} : pc[b] # "save",
           Working(a)' => \A b \in Agents \ {a} :
                             Working(b) => job[b].item # job'[a].item
    PROVE  LifecycleInv'
<1>1. OneSaver'
  BY DEF LifecycleInv, OneSaver
<1>2. OneWorker'
  BY DEF LifecycleInv, OneWorker
<1> QED
  BY <1>1, <1>2 DEF LifecycleInv

LEMMA ToBeDoneKeeps ==
    ASSUME Types, LifecycleInv, NEW a \in Agents, ToBeDone(a)
    PROVE  LifecycleInv'
<1> USE DEF ToBeDone, Types, ProcTypes, files, history, At, Goto
<1>1. \A b \in Agents \ {a} : pc'[b] = pc[b] /\ job'[b] = job[b]
  OBVIOUS
<1>2. states' = states /\ acted' = acted /\ runs' = runs
  OBVIOUS
<1>3. pc'[a] = "load" /\ job'[a].target = "IN_PROGRESS" /\ job'[a].op = job[a].op
  BY DEF Job
<1>4. job[a].op = "exec"
  BY DEF LifecycleInv, Step, ExecStages
<1>5. \A i \in Items : Settled(i)'
  BY <1>2 DEF LifecycleInv, Settled
<1>6. Step(a)' /\ Relies(a)' /\ ~ Working(a)'
  BY <1>3, <1>4 DEF Step, Relies, Working, Starting, Ending, ExecStages
<1> QED
  BY <1>1, <1>2, <1>3, <1>5, <1>6, OthersKept, Combined

LEMMA CloseKeeps ==
    ASSUME Types, LifecycleInv, NEW a \in Agents, Close(a)
    PROVE  LifecycleInv'
<1> USE DEF Types, ProcTypes, files, history, At, Goto
<1>1. PICK i \in Items, op \in {"close", "reopen"} :
         /\ op = "reopen" => states[i].state = "CLOSED"
         /\ job' = [job EXCEPT ![a] = [NoJob EXCEPT !.op = op, !.item = i,
                       !.target = IF op = "close" THEN "CLOSED" ELSE "OPEN"]]
  BY DEF Close
<1>2. \A b \in Agents \ {a} : pc'[b] = pc[b] /\ job'[b] = job[b]
  BY <1>1 DEF Close
<1>3. states' = states /\ acted' = acted /\ runs' = runs
  BY DEF Close
<1>4. pc'[a] = "load" /\ job'[a].op = op /\ job'[a].item = i
      /\ job'[a].target = (IF op = "close" THEN "CLOSED" ELSE "OPEN")
  BY <1>1, NoJobTyped DEF Close, Job
<1>5. \A k \in Items : Settled(k)'
  BY <1>3 DEF LifecycleInv, Settled
<1>6. Step(a)' /\ Relies(a)' /\ ~ Working(a)'
  BY <1>1, <1>3, <1>4 DEF Step, Relies, Working, Starting, Ending, ExecStages
<1> QED
  BY <1>2, <1>3, <1>4, <1>5, <1>6, OthersKept, Combined

LEMMA LoadStatesKeeps ==
    ASSUME ~ Overlap, Types, LifecycleInv, NEW a \in Agents, LoadStates(a)
    PROVE  LifecycleInv'
<1> USE DEF LoadStates, Types, ProcTypes, files, history, At, Goto
<1>1. \A b \in Agents \ {a} : pc'[b] = pc[b] /\ job'[b] = job[b]
  OBVIOUS
<1>2. states' = states /\ acted' = acted /\ runs' = runs
  OBVIOUS
<1>3. job[a] \in Job /\ job' = [job EXCEPT ![a] = [job[a] EXCEPT !.states = states]]
  OBVIOUS
<1>4. pc'[a] = "save" /\ job'[a].states = states /\ job'[a].op = job[a].op
      /\ job'[a].item = job[a].item /\ job'[a].target = job[a].target
  BY <1>3 DEF Job
<1>5. \A b \in Agents : pc[b] # "save"
  BY DEF MayLoad
<1>6. \A i \in Items : Settled(i)'
  BY <1>2 DEF LifecycleInv, Settled
<1>7. Step(a) /\ Relies(a) /\ ValidTransition(states[job[a].item].state, job[a].target)
  BY DEF LifecycleInv
<1>8. job[a].op # "reopen"
  BY <1>7 DEF Step, Relies, ValidTransition, AllowedTransitions, ExecStages
<1>9. Step(a)'
  BY <1>4, <1>7, <1>8 DEF Step, ExecStages
<1>10. Working(a)' <=> Working(a)
  BY <1>4 DEF Working, Starting, Ending
<1>11. Relies(a)'
  BY <1>2, <1>4, <1>7, <1>8 DEF Relies, Starting, Ending, ValidTransition
<1>12. \A b \in Agents \ {a} : Working(b) /\ Working(a) => job[b].item # job[a].item
  BY DEF LifecycleInv, OneWorker
<1> QED
  BY <1>1, <1>2, <1>4, <1>5, <1>6, <1>9, <1>10, <1>11, <1>12, OthersKept, Combined

\* The moves of a ticket that are ever saved.
LEMMA SavedMoves ==
    ASSUME Types, LifecycleInv, NEW a \in Agents, SaveStates(a)
    PROVE  LET i == job[a].item IN
           /\ i \in Items
           /\ states' = [states EXCEPT ![i] = [state |-> job[a].target,
                                               fp |-> job[a].vers[i]]]
           /\ \/ states[i].state = "" /\ job[a].target = "IN_PROGRESS"
              \/ states[i].state = "IN_PROGRESS" /\ job[a].target = "APPLIED" /\ Ending(a)
              \/ /\ states[i].state \in {"", "APPLIED"} /\ job[a].target = "CLOSED"
                 /\ job[a].op = "close"
<1> DEFINE i == job[a].item
<1>1. i \in Items /\ pc[a] = "save"
  BY DEF SaveStates, At, Types, ProcTypes
<1>2. Step(a) /\ Relies(a) /\ Settled(i)
  BY <1>1 DEF LifecycleInv
<1>3. job[a].states = states
  BY <1>1, <1>2 DEF Relies
<1>4. << states[i].state, job[a].target >> \in AllowedTransitions
  BY <1>1, <1>2 DEF Relies, ValidTransition
<1>5. states[i].state \in {"", "IN_PROGRESS", "APPLIED", "CLOSED"}
  BY <1>2 DEF Settled
<1>6. CASE job[a].op = "exec" /\ job[a].target = "IN_PROGRESS"
  BY <1>1, <1>3, <1>4, <1>5, <1>6 DEF AllowedTransitions, SaveStates, SavedStates
<1>7. CASE job[a].op = "exec" /\ job[a].target # "IN_PROGRESS"
  <2>1. Ending(a)
    BY <1>1, <1>7 DEF Ending
  <2>2. states[i].state = "IN_PROGRESS"
    BY <1>2, <2>1 DEF Relies
  <2>3. job[a].target \in {"PLANNED", "NOOP", "APPLIED"}
    BY <1>1, <1>2, <1>7 DEF Step
  <2>4. job[a].target = "APPLIED"
    BY <1>4, <2>2, <2>3 DEF AllowedTransitions
  <2> QED
    BY <1>1, <1>3, <2>1, <2>2, <2>4 DEF SaveStates, SavedStates
<1>8. CASE job[a].op = "close" /\ job[a].target = "CLOSED"
  BY <1>1, <1>3, <1>4, <1>5, <1>8 DEF AllowedTransitions, SaveStates, SavedStates
<1> QED
  BY <1>1, <1>2, <1>6, <1>7, <1>8 DEF Step

LEMMA SaveStatesKeeps ==
    ASSUME Types, LifecycleInv, NEW a \in Agents, SaveStates(a)
    PROVE  LifecycleInv'
<1> USE DEF Types, ProcTypes, files, history, At, Goto
<1>0. PICK i \in Items : i = job[a].item
  BY SavedMoves
<1>1. \A b \in Agents \ {a} : pc'[b] = pc[b] /\ job'[b] = job[b]
  BY DEF SaveStates
<1>2. acted' = acted /\ runs' = runs
  BY DEF SaveStates
<1>3. pc[a] = "save" /\ pc'[a] = "record" /\ job'[a].op = job[a].op
      /\ job[a].item = i /\ job'[a].item = i /\ job'[a].target = job[a].target
  <2>1. job[a] \in Job /\ job' = [job EXCEPT ![a] = [job[a] EXCEPT !.states = NoJob.states]]
    BY DEF SaveStates
  <2> QED
    BY <1>0, <2>1 DEF SaveStates, Job
<1>4. states'[i].state = job[a].target /\ \A k \in Items \ {i} : states'[k] = states[k]
  <2>1. states' = [states EXCEPT ![i] = [state |-> job[a].target, fp |-> job[a].vers[i]]]
    BY <1>0, SavedMoves
  <2> QED
    BY <2>1 DEF FileTypes
<1>5. \/ states[i].state = "" /\ job[a].target = "IN_PROGRESS"
      \/ states[i].state = "IN_PROGRESS" /\ job[a].target = "APPLIED" /\ Ending(a)
      \/ states[i].state \in {"", "APPLIED"} /\ job[a].target = "CLOSED" /\ job[a].op = "close"
  BY <1>0, SavedMoves
<1>6. Relies(a) /\ Step(a) /\ \A k \in Items : Settled(k)
  BY <1>4 DEF LifecycleInv
<1>7. \A k \in Items : Settled(k)'
  <2>1. \A k \in Items \ {i} : Settled(k)'
    BY <1>2, <1>4, <1>6 DEF Settled
  <2>2. job[a].target = "APPLIED" => acted[i] = 1 /\ Started(i) \in runs
    BY <1>3, <1>5, <1>6 DEF Relies, Ending
  <2>3. Settled(i)'
    BY <1>2, <1>4, <1>5, <1>6, <2>2 DEF Settled, Started
  <2> QED
    BY <2>1, <2>3
<1>8. Step(a)'
  BY <1>3, <1>5, <1>6 DEF Step, ExecStages
<1>9. Working(a)' => job[a].target = "IN_PROGRESS" /\ Starting(a)'
  BY <1>3 DEF Working, Starting, Ending
<1>10. Relies(a)'
  BY <1>2, <1>3, <1>4, <1>5, <1>6, <1>9 DEF Relies, Working, Settled, Ending, Starting
<1>11. ASSUME NEW b \in Agents \ {a}
       PROVE  /\ pc[b] # "save"
              /\ Working(b) => job[b].item # i
              /\ Step(b)' /\ Relies(b)' /\ (Working(b)' => Working(b))
  <2>1. pc[b] # "save"
    BY <1>3 DEF LifecycleInv, OneSaver
  <2>2. Step(b) /\ Relies(b)
    BY DEF LifecycleInv
  <2>3. ASSUME Working(b), job[b].item = i PROVE FALSE
    <3>1. states[i].state = "IN_PROGRESS"
      BY <2>2, <2>3 DEF Working, Relies
    <3>2. Working(a)
      BY <1>5, <3>1 DEF Working
    <3> QED
      BY <1>0, <2>3, <3>2 DEF LifecycleInv, OneWorker
  <2>4. Working(b)' <=> Working(b)
    BY <1>1 DEF Working, Starting, Ending
  <2>5. Step(b)'
    BY <1>1, <2>2 DEF Step
  <2>6. job[b].item \in Items \/ ~ (pc[b] \in Stages)
    BY DEF Stages
  <2>7. CASE job[b].item = i
    <3>1. ~ Working(b) /\ ~ Working(b)'
      BY <2>3, <2>4, <2>7
    <3>2. pc[b] # "act"
      BY <2>2, <3>1 DEF Step, Working, Starting
    <3>3. ~ (pc[b] = "load" /\ job[b].op = "reopen")
      BY <1>5, <2>2, <2>7 DEF Relies
    <3> QED
      BY <1>1, <2>1, <2>3, <2>4, <2>5, <3>1, <3>2, <3>3 DEF Relies, Working
  <2>8. CASE job[b].item # i
    <3>1. Relies(b)'
      BY <1>1, <1>2, <1>4, <2>1, <2>2, <2>6, <2>8 DEF Relies, Starting, Ending, Stages
    <3> QED
      BY <2>1, <2>4, <2>5, <2>8, <3>1
  <2> QED
    BY <2>7, <2>8
<1> QED
  BY <1>1, <1>3, <1>7, <1>8, <1>9, <1>10, <1>11, Combined

LEMMA RecordKeeps ==
    ASSUME Types, LifecycleInv, NEW a \in Agents, Record(a)
    PROVE  LifecycleInv'
<1> USE DEF Types, ProcTypes, files, history, At, Goto
<1>1. \A b \in Agents \ {a} : pc'[b] = pc[b] /\ job'[b] = job[b]
  BY DEF Record, Exit
<1>2. states' = states /\ acted' = acted /\ runs \subseteq runs'
  BY DEF Record
<1>3. CASE job[a].op # "exec" \/ job[a].target # "IN_PROGRESS"
  <2>1. pc'[a] \in {"idle", "relLoad"}
    BY <1>3 DEF Record, Exit
  <2>2. Quiet(a)
    BY <1>1, <1>2, <2>1 DEF Quiet, Stages, ExecStages
  <2> QED
    BY <2>2, QuietKeeps
<1>4. CASE job[a].op = "exec" /\ job[a].target = "IN_PROGRESS"
  <2>1. pc[a] = "record" /\ pc'[a] = "act" /\ job' = job
    BY <1>4 DEF Record
  <2>2. Started(job[a].item) \in runs'
    BY <1>4 DEF Record, Result, Started
  <2>3. Step(a) /\ Relies(a) /\ Starting(a)
    BY <1>4, <2>1 DEF LifecycleInv, Starting
  <2>4. Step(a)' /\ Starting(a)' /\ ~ Ending(a)'
    BY <1>4, <2>1 DEF Step, Starting, Ending, ExecStages
  <2>5. Relies(a)'
    BY <1>2, <2>1, <2>2, <2>3, <2>4 DEF Relies, Started
  <2>6. \A i \in Items : Settled(i)'
    BY <1>2 DEF LifecycleInv, Settled
  <2>7. \A b \in Agents \ {a} : Working(b) => job[b].item # job[a].item
    BY <2>3 DEF LifecycleInv, OneWorker, Working
  <2> QED
    BY <1>1, <1>2, <2>1, <2>4, <2>5, <2>6, <2>7, OthersKept, Combined
<1> QED
  BY <1>3, <1>4

LEMMA ActKeeps ==
    ASSUME Types, LifecycleInv, NEW a \in Agents, ActOnTicket(a)
    PROVE  LifecycleInv'
<1> USE DEF Types, ProcTypes, files, history, At, Goto
<1>0. PICK i \in Items : i = job[a].item
  BY DEF ActOnTicket
<1>1. \A b \in Agents \ {a} : pc'[b] = pc[b] /\ job'[b] = job[b]
  BY DEF ActOnTicket
<1>2. states' = states /\ runs' = runs /\ pc[a] = "act" /\ pc'[a] = "load"
  BY DEF ActOnTicket
<1>3. job'[a].op = job[a].op /\ job'[a].item = i /\ job'[a].target = Outcome(i)
  <2>1. job[a] \in Job
    OBVIOUS
  <2> QED
    BY <1>0, <2>1 DEF ActOnTicket, Job
<1>4. Step(a) /\ Relies(a) /\ Starting(a) /\ job[a].op = "exec"
  BY <1>2 DEF LifecycleInv, Step, Starting
<1>5. states[i].state = "IN_PROGRESS" /\ acted[i] = 0 /\ Started(i) \in runs
  BY <1>0, <1>2, <1>4 DEF Relies
<1>6. /\ acted'[i] = IF Outcome(i) = "NOOP" THEN 0 ELSE 1
      /\ \A k \in Items \ {i} : acted'[k] = acted[k]
  BY <1>0, <1>5 DEF ActOnTicket
<1>7. Outcome(i) \in {"PLANNED", "NOOP", "APPLIED"}
  BY StateTypes
<1>8. \A k \in Items : Settled(k)'
  <2>1. \A k \in Items \ {i} : Settled(k)'
    BY <1>2, <1>6 DEF LifecycleInv, Settled
  <2>2. Settled(i)'
    BY <1>2, <1>5, <1>6 DEF Settled
  <2> QED
    BY <2>1, <2>2
<1>9. Step(a)' /\ Ending(a)' /\ ~ Starting(a)'
  BY <1>2, <1>3, <1>4, <1>7 DEF Step, Ending, Starting, ExecStages
<1>10. Relies(a)'
  BY <1>2, <1>3, <1>4, <1>5, <1>6, <1>9 DEF Relies, Started
<1>11. \A b \in Agents \ {a} : Working(b) => job[b].item # i
  BY <1>0, <1>4 DEF LifecycleInv, OneWorker, Working
<1>12. ASSUME NEW b \in Agents \ {a}
       PROVE  Step(b)' /\ Relies(b)' /\ (Working(b)' => Working(b))
  <2>1. Step(b) /\ Relies(b)
    BY DEF LifecycleInv
  <2>2. Step(b)' /\ (Working(b)' <=> Working(b))
    BY <1>1, <2>1 DEF Step, Working, Starting, Ending
  <2>3. Working(b) => job[b].item \in Items /\ acted'[job[b].item] = acted[job[b].item]
    BY <1>6, <1>11 DEF Working, Starting, Ending
  <2>4. Relies(b)'
    BY <1>1, <1>2, <2>1, <2>3 DEF Relies, Working, Starting, Ending
  <2> QED
    BY <2>2, <2>4
<1> QED
  BY <1>1, <1>2, <1>3, <1>8, <1>9, <1>10, <1>11, <1>12, Combined

LEMMA LifecycleKept ==
    ASSUME ~ Overlap, Types, LifecycleInv, [Next]_vars
    PROVE  LifecycleInv'
<1>1. CASE UNCHANGED << states, acted, runs, pc, job >>
  <2>1. \A i \in Items : Settled(i)'
    BY <1>1 DEF LifecycleInv, Settled
  <2>2. \A a \in Agents : Step(a)' /\ (Starting(a)' <=> Starting(a)) /\ (Ending(a)' <=> Ending(a))
    BY <1>1 DEF LifecycleInv, Step, Starting, Ending
  <2>3. \A a \in Agents : Relies(a)'
    BY <1>1, <2>2 DEF LifecycleInv, Relies
  <2>4. OneSaver' /\ OneWorker'
    BY <1>1, <2>2 DEF LifecycleInv, OneSaver, OneWorker, Working
  <2> QED
    BY <2>1, <2>2, <2>3, <2>4 DEF LifecycleInv
<1>2. CASE UNCHANGED vars \/ Tick
  BY <1>1, <1>2 DEF vars, Tick, files, history
<1>3. ASSUME NEW a \in Agents, BuildIntake(a) PROVE LifecycleInv'
  BY <1>1, <1>3 DEF BuildIntake, history
<1>4. ASSUME NEW a \in Agents, Exec(a) PROVE LifecycleInv'
  BY <1>4, QuietSteps, QuietKeeps, ToBeDoneKeeps, LoadStatesKeeps, SaveStatesKeeps,
     RecordKeeps, ActKeeps DEF Exec
<1>5. ASSUME NEW a \in Agents, Operate(a) PROVE LifecycleInv'
  BY <1>3, <1>5, QuietSteps, QuietKeeps, CloseKeeps DEF Operate
<1>6. ASSUME NEW a \in Agents, Kill(a) PROVE LifecycleInv'
  BY <1>6, QuietSteps, QuietKeeps
<1> QED
  BY <1>2, <1>4, <1>5, <1>6 DEF Next

LEMMA InitLifecycle == Init => LifecycleInv
<1> SUFFICES ASSUME Init PROVE LifecycleInv
  OBVIOUS
<1>1. \A i \in Items : Settled(i)
  <2> TAKE i \in Items
  <2>1. states[i].state = "" /\ acted[i] = 0
    BY DEF Init
  <2>2. 0 <= 1
    OBVIOUS
  <2>3. states[i].state # "APPLIED"
    BY <2>1
  <2> QED
    BY <2>1, <2>2, <2>3, Zenon DEF Settled
<1>2. \A a \in Agents : pc[a] = "idle"
  BY DEF Init
<1>3. \A a \in Agents : Step(a) /\ Relies(a) /\ ~ Working(a)
  BY <1>2 DEF Step, Relies, Working, Starting, Ending, ExecStages
<1> QED
  BY <1>1, <1>2, <1>3 DEF LifecycleInv, OneSaver, OneWorker

LEMMA LifecycleAlways == ~ Overlap /\ Spec => [](Types /\ LifecycleInv)
<1> SUFFICES ASSUME ~ Overlap PROVE Spec => [](Types /\ LifecycleInv)
  OBVIOUS
<1>1. Init => Types /\ LifecycleInv
  BY InitTypes, InitLifecycle
<1>2. Types /\ LifecycleInv /\ [Next]_vars => (Types /\ LifecycleInv)'
  BY NextTypes, LifecycleKept
<1> QED
  BY <1>1, <1>2, PTL DEF Spec

\* The output of a ticket is written at most once, however many executors run, are killed
\* or lose their lease (work_intake_exec_ticket.py, shared/status.py validate_transition).
THEOREM OutputOnce == ~ Overlap /\ Spec => []ActedOnce
<1>1. Types /\ LifecycleInv => ActedOnce
  BY DEF LifecycleInv, Settled, ActedOnce
<1> QED
  BY <1>1, LifecycleAlways, PTL

\* What the store calls APPLIED was written, and its start is on the run log.
THEOREM AppliedSound == ~ Overlap /\ Spec => []AppliedIsReal
<1>1. Types /\ LifecycleInv => AppliedIsReal
  BY DEF LifecycleInv, Settled, AppliedIsReal, Started
<1> QED
  BY <1>1, LifecycleAlways, PTL

-------------------------------------------------------------------------------
\* ---- the refinement -----------------------------------------------------------------
Phases == [i \in Items |-> Phase(i)]

\* One ticket moves, the others stay.
LEMMA PhaseMoves ==
    ASSUME NEW i \in Items, NEW from, NEW to, Phase(i) \in from, Phase(i)' = to,
           \A k \in Items \ {i} : Phase(k)' = Phase(k)
    PROVE  Lifecycle!Move(i, from, to)
<1>1. Phases[i] \in from
  BY DEF Phases
<1>2. Phases' = [Phases EXCEPT ![i] = to]
  BY DEF Phases
<1> QED
  BY <1>1, <1>2 DEF Lifecycle!Move, Phases

LEMMA SavedImplements ==
    ASSUME Types, LifecycleInv, NEW a \in Agents, SaveStates(a)
    PROVE  Lifecycle!Next
<1> USE DEF Types, FileTypes
<1>0. PICK i \in Items : i = job[a].item
  BY SavedMoves
<1>1. states' = [states EXCEPT ![i] = [state |-> job[a].target, fp |-> job[a].vers[i]]]
  BY <1>0, SavedMoves
<1>2. acted' = acted
  BY DEF SaveStates, history
<1>3. states'[i].state = job[a].target /\ \A k \in Items \ {i} : states'[k] = states[k]
  BY <1>1
<1>4. \A k \in Items \ {i} : Phase(k)' = Phase(k)
  BY <1>2, <1>3 DEF Phase
<1>5. Settled(i) /\ Relies(a)
  BY DEF LifecycleInv
<1>6. CASE states[i].state = "" /\ job[a].target = "IN_PROGRESS"
  <2>1. acted[i] = 0 /\ acted'[i] = 0
    BY <1>2, <1>5, <1>6 DEF Settled
  <2>2. Phase(i) = "WAITING"
    BY <1>6 DEF Phase
  <2>3. states'[i].state = "IN_PROGRESS" /\ ~ (acted'[i] > 0)
    <3>1. ~ (0 > 0)
      OBVIOUS
    <3> QED
      BY <1>3, <1>6, <2>1, <3>1, Zenon
  <2>4. Phase(i)' = "STARTED"
    BY <2>1, <2>3 DEF Phase
  <2> QED
    BY <1>4, <2>2, <2>4, PhaseMoves DEF Lifecycle!Next, Lifecycle!Start
<1>7. CASE states[i].state = "IN_PROGRESS" /\ job[a].target = "APPLIED" /\ Ending(a)
  <2>1. acted[i] = 1
    BY <1>0, <1>5, <1>7 DEF Relies
  <2>2. Phase(i) = "ACTED" /\ Phase(i)' = "APPLIED"
    BY <1>3, <1>7, <2>1 DEF Phase
  <2> QED
    BY <1>4, <2>2, PhaseMoves DEF Lifecycle!Next, Lifecycle!Apply
<1>8. CASE states[i].state \in {"", "APPLIED"} /\ job[a].target = "CLOSED"
  <2>1. Phase(i) \in {"WAITING", "APPLIED"} /\ Phase(i)' = "CLOSED"
    BY <1>3, <1>8 DEF Phase
  <2> QED
    BY <1>4, <2>1, PhaseMoves DEF Lifecycle!Next, Lifecycle!Close
<1> QED
  BY <1>0, <1>6, <1>7, <1>8, SavedMoves

LEMMA ActImplements ==
    ASSUME Types, LifecycleInv, NEW a \in Agents, ActOnTicket(a)
    PROVE  Lifecycle!Next \/ UNCHANGED Phases
<1> USE DEF Types, ProcTypes
<1>0. PICK i \in Items : i = job[a].item
  BY DEF ActOnTicket, At
<1>1. states' = states
  BY DEF ActOnTicket, files
<1>2. Step(a) /\ Relies(a) /\ pc[a] = "act"
  BY DEF LifecycleInv, ActOnTicket, At
<1>3. states[i].state = "IN_PROGRESS" /\ acted[i] = 0
  BY <1>0, <1>2 DEF Step, Relies, Starting
<1>4. CASE Outcome(i) = "NOOP"
  <2>1. acted' = acted
    BY <1>0, <1>4 DEF ActOnTicket
  <2> QED
    BY <1>1, <2>1 DEF Phases, Phase
<1>5. CASE Outcome(i) # "NOOP"
  <2>1. acted'[i] = 1 /\ \A k \in Items \ {i} : acted'[k] = acted[k]
    BY <1>0, <1>3, <1>5 DEF ActOnTicket
  <2>2. Phase(i) = "STARTED" /\ Phase(i)' = "ACTED"
    BY <1>1, <1>3, <2>1 DEF Phase
  <2>3. \A k \in Items \ {i} : Phase(k)' = Phase(k)
    BY <1>1, <2>1 DEF Phase
  <2> QED
    BY <2>2, <2>3, PhaseMoves DEF Lifecycle!Next, Lifecycle!Act
<1> QED
  BY <1>4, <1>5

LEMMA NextImplements ==
    ASSUME Types, LifecycleInv, [Next]_vars
    PROVE  Lifecycle!Next \/ UNCHANGED Phases
<1>1. CASE states' = states /\ acted' = acted
  BY <1>1 DEF Phases, Phase
<1>2. CASE UNCHANGED vars \/ Tick
  BY <1>1, <1>2 DEF vars, Tick, files, history
<1>3. ASSUME NEW a \in Agents, Exec(a) PROVE Lifecycle!Next \/ UNCHANGED Phases
  <2>1. CASE ToBeDone(a) \/ LoadStates(a) \/ Record(a)
    BY <1>1, <2>1 DEF ToBeDone, LoadStates, Record, files, history
  <2> QED
    BY <1>1, <1>3, <2>1, QuietSteps, SavedImplements, ActImplements DEF Exec, Quiet
<1>4. ASSUME NEW a \in Agents, Operate(a) PROVE Lifecycle!Next \/ UNCHANGED Phases
  <2>1. CASE BuildIntake(a) \/ Close(a)
    BY <1>1, <2>1 DEF BuildIntake, Close, files, history
  <2> QED
    BY <1>1, <1>4, <2>1, QuietSteps DEF Operate, Quiet
<1>5. ASSUME NEW a \in Agents, Kill(a) PROVE Lifecycle!Next \/ UNCHANGED Phases
  BY <1>1, <1>5, QuietSteps DEF Quiet
<1> QED
  BY <1>2, <1>3, <1>4, <1>5 DEF Next

\* The commands implement the lifecycle of a ticket, for any number of agents: every step
\* starts, writes, applies or closes one ticket, or leaves all of them as they are.
THEOREM LifecycleImplemented == ~ Overlap /\ Spec => ImplementsTicketLifecycle
<1> SUFFICES ASSUME ~ Overlap PROVE Spec => ImplementsTicketLifecycle
  OBVIOUS
<1>1. Init => Lifecycle!Init
  <2> SUFFICES ASSUME Init PROVE Lifecycle!Init
    OBVIOUS
  <2>1. ASSUME NEW i \in Items PROVE states[i].state = ""
    BY DEF Init
  <2>2. ASSUME NEW i \in Items PROVE Phase(i) = "WAITING"
    BY <2>1 DEF Phase
  <2> QED
    BY <2>2 DEF Lifecycle!Init
<1>2. ASSUME Types, LifecycleInv, [Next]_vars
      PROVE  [Lifecycle!Next]_([i \in Items |-> Phase(i)])
  BY <1>2, NextImplements DEF Phases
<1>3. Spec => [](Types /\ LifecycleInv)
  BY LifecycleAlways
<1> QED
  BY <1>1, <1>2, <1>3, PTL DEF Spec, ImplementsTicketLifecycle, Lifecycle!Spec

===============================================================================
