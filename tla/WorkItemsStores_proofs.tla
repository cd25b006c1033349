------------------------- MODULE WorkItemsStores_proofs -------------------------
(***************************************************************************)
(* Proofs about the two stores that keep agents apart, the leases of the   *)
(* executors and the claims of the operators, for any number of tickets,   *)
(* agents, kills and lifetimes.                                            *)
(*                                                                         *)
(* Both assume ~ Overlap: a store is checked in one copy and saved in      *)
(* another, so a process that loads it in between grants what has just     *)
(* been granted.                                                           *)
(***************************************************************************)
EXTENDS WorkItems_proofs

\* What one agent's step leaves alone: the other agents and the clock.
Alone(a) ==
    /\ now' = now
    /\ \A b \in Agents \ {a} : pc'[b] = pc[b] /\ job'[b] = job[b]

-------------------------------------------------------------------------------
\* ---- the leases -------------------------------------------------------------------
\* Agents that will save the leases they have loaded.
LeaseWriting == {"leaseSave", "leaseFree"}

Executing(a) ==
    /\ job[a].op = "exec"
    /\ pc[a] \in {"lookup", "load", "save", "record", "act", "relLoad", "leaseFree"}

OneLeaseWriter ==
    \A a, b \in Agents : pc[a] \in LeaseWriting /\ pc[b] \in LeaseWriting => a = b

\* A copy of the leases is still what the store says.
CopyOfLeases(a) == pc[a] \in LeaseWriting => job[a].leases = leases

\* The lease that is about to be replaced has run out.
Lapsed(a) == pc[a] = "leaseSave" => leases[job[a].item].until <= now

\* While its lease runs, an executor is the one that the store names.
Granted(a) ==
    Executing(a) /\ now < job[a].until =>
        leases[job[a].item] = [run |-> RunIdOf[a], until |-> job[a].until]

LeaseInv ==
    /\ OneLeaseWriter
    /\ \A a \in Agents : CopyOfLeases(a) /\ Lapsed(a) /\ Granted(a)

\* No two agents share a run id.
OwnRunId == \A a, b \in Agents : RunIdOf[a] = RunIdOf[b] => a = b

\* A step that does not touch the leases, begins no lease and does not change its terms.
LeaseQuiet(a) ==
    /\ Alone(a) /\ leases' = leases
    /\ pc'[a] \notin LeaseWriting
    /\ Executing(a)' => /\ Executing(a)
                        /\ job'[a].until = job[a].until /\ job'[a].item = job[a].item

LEMMA LeaseQuietKeeps ==
    ASSUME LeaseInv, NEW a \in Agents, LeaseQuiet(a)
    PROVE  LeaseInv'
<1> USE DEF LeaseQuiet, Alone
<1>1. ASSUME NEW b \in Agents, b # a
      PROVE  CopyOfLeases(b)' /\ Lapsed(b)' /\ Granted(b)'
  BY <1>1 DEF LeaseInv, CopyOfLeases, Lapsed, Granted, Executing
<1>2. CopyOfLeases(a)' /\ Lapsed(a)' /\ Granted(a)'
  BY DEF LeaseInv, CopyOfLeases, Lapsed, Granted, LeaseWriting
<1>3. OneLeaseWriter'
  BY DEF LeaseInv, OneLeaseWriter
<1> QED
  BY <1>1, <1>2, <1>3 DEF LeaseInv

\* An executor's steps between the grant of its lease and its release keep its ticket
\* and the term of the lease.
LEMMA TermKept ==
    ASSUME NEW j \in Job, NEW x
    PROVE  /\ [j EXCEPT !.target = x].until = j.until /\ [j EXCEPT !.target = x].op = j.op
           /\ [j EXCEPT !.states = x].until = j.until /\ [j EXCEPT !.states = x].op = j.op
           /\ [j EXCEPT !.applied = x].until = j.until /\ [j EXCEPT !.applied = x].op = j.op
           /\ [j EXCEPT !.leases = x].until = j.until /\ [j EXCEPT !.leases = x].op = j.op
           /\ [j EXCEPT !.slots = x].until = j.until /\ [j EXCEPT !.slots = x].op = j.op
BY DEF Job

LEMMA LeaseQuietExec ==
    ASSUME Types, NEW a \in Agents,
           \/ StartExec(a) \/ SkipTicket(a) \/ PickTicket(a) \/ TicketLocked(a)
           \/ AlreadyDone(a) \/ ToBeDone(a) \/ LoadStates(a) \/ Refuse(a) \/ SaveStates(a)
           \/ Record(a) \/ ActOnTicket(a) \/ FinishExec(a)
    PROVE  LeaseQuiet(a)
<1> USE DEF LeaseQuiet, Alone, LeaseWriting, Executing, Types, ProcTypes, files, history, At,
            Goto
<1>0. job[a] \in Job
  OBVIOUS
<1>1. CASE StartExec(a) \/ SkipTicket(a) \/ PickTicket(a)
  BY <1>1 DEF StartExec, SkipTicket, PickTicket
<1>2. CASE TicketLocked(a) \/ Refuse(a) \/ FinishExec(a)
  BY <1>2 DEF TicketLocked, NextTicket, Refuse, FinishExec, Exit
<1>3. CASE AlreadyDone(a)
  BY <1>3 DEF AlreadyDone
<1>4. CASE ToBeDone(a)
  BY <1>0, <1>4, TermKept, ItemKept DEF ToBeDone
<1>5. CASE LoadStates(a)
  BY <1>0, <1>5, TermKept, ItemKept DEF LoadStates
<1>6. CASE SaveStates(a)
  BY <1>0, <1>6, TermKept, ItemKept DEF SaveStates
<1>7. CASE Record(a)
  <2>1. CASE job[a].op # "exec"
    BY <1>7, <2>1 DEF Record, Exit
  <2>2. CASE job[a].op = "exec" /\ job[a].target = "IN_PROGRESS"
    BY <1>7, <2>2 DEF Record
  <2>3. CASE job[a].op = "exec" /\ job[a].target # "IN_PROGRESS"
    <3>1. PICK x : job' = [job EXCEPT ![a] = [job[a] EXCEPT !.applied = x]]
                   /\ Goto(a, "relLoad")
      BY <1>7, <2>3 DEF Record
    <3> QED
      BY <1>0, <1>7, <3>1, TermKept, ItemKept DEF Record
  <2> QED
    BY <2>1, <2>2, <2>3
<1>8. CASE ActOnTicket(a)
  <2>1. PICK x, y : job' = [job EXCEPT ![a] = [job[a] EXCEPT !.target = x, !.slots = y]]
    BY <1>8 DEF ActOnTicket
  <2>2. job'[a].until = job[a].until /\ job'[a].op = job[a].op /\ job'[a].item = job[a].item
    BY <1>0, <2>1 DEF Job
  <2> QED
    BY <1>8, <2>1, <2>2 DEF ActOnTicket
<1> QED
  BY <1>1, <1>2, <1>3, <1>4, <1>5, <1>6, <1>7, <1>8

LEMMA LeaseQuietRest ==
    ASSUME Types, NEW a \in Agents, Operate(a) \/ Kill(a)
    PROVE  LeaseQuiet(a)
<1> USE DEF LeaseQuiet, Alone, LeaseWriting, Executing, Types, ProcTypes, files, history, At,
            Goto
<1>1. CASE BuildIntake(a)
  BY <1>1 DEF BuildIntake, Command
<1>2. CASE Close(a)
  <2>1. PICK i \in Items, op \in {"close", "reopen"} :
           job' = [job EXCEPT ![a] = [NoJob EXCEPT !.op = op, !.item = i,
                      !.target = IF op = "close" THEN "CLOSED" ELSE "OPEN"]]
    BY <1>2 DEF Close
  <2>2. job'[a].op = op
    BY <2>1, NoJobTyped DEF Job
  <2> QED
    BY <1>2, <2>1, <2>2 DEF Close
<1>3. CASE Claim(a) \/ ReleaseClaim(a)
  BY <1>3 DEF Claim, ReleaseClaim
<1>4. CASE SaveClaims(a) \/ Transfer(a) \/ Kill(a)
  BY <1>4 DEF SaveClaims, Transfer, Kill, Exit
<1> QED
  BY <1>1, <1>2, <1>3, <1>4 DEF Operate

\* The store is loaded only while nobody is about to save it.
LEMMA LoadAlone ==
    ASSUME ~ Overlap, NEW a \in Agents, MayLoad(LeaseWriting)
    PROVE  \A b \in Agents : pc[b] \notin LeaseWriting
BY DEF MayLoad

LEMMA LoadLeasesKeeps ==
    ASSUME ~ Overlap, Types, LeaseInv, NEW a \in Agents, LoadLeases(a)
    PROVE  LeaseInv'
<1> USE DEF Types, ProcTypes, files, history, At, Goto
<1>0. job[a] \in Job /\ job[a].item \in Items
  BY DEF LoadLeases
<1>1. \A b \in Agents : pc[b] \notin LeaseWriting
  BY LoadAlone DEF LoadLeases, LeaseWriting
<1>2. /\ job'[a].leases = leases /\ job'[a].item = job[a].item
      /\ pc'[a] = "leaseSave" /\ leases' = leases /\ now' = now
  BY <1>0 DEF LoadLeases, Job
<1>3. leases[job[a].item].until <= now
  BY <1>0 DEF LoadLeases, Live, FileTypes, Lease
<1>4. \A b \in Agents \ {a} : pc'[b] = pc[b] /\ job'[b] = job[b]
  BY DEF LoadLeases
<1>5. CopyOfLeases(a)' /\ Lapsed(a)' /\ Granted(a)'
  BY <1>2, <1>3 DEF CopyOfLeases, Lapsed, Granted, Executing
<1>6. ASSUME NEW b \in Agents \ {a} PROVE CopyOfLeases(b)' /\ Lapsed(b)' /\ Granted(b)'
  BY <1>2, <1>4, <1>6 DEF LeaseInv, CopyOfLeases, Lapsed, Granted, Executing
<1>7. OneLeaseWriter'
  BY <1>1, <1>4 DEF OneLeaseWriter
<1> QED
  BY <1>5, <1>6, <1>7 DEF LeaseInv

\* Whoever still has a running lease on the ticket would be named by the lease that has
\* been found run out.
LEMMA SaveLeaseKeeps ==
    ASSUME Types, LeaseInv, NEW a \in Agents, SaveLease(a)
    PROVE  LeaseInv'
<1> USE DEF Types, ProcTypes, files, history, At, Goto
<1> DEFINE i == job[a].item
           lease == [run |-> RunIdOf[a], until |-> job[a].until]
<1>0. job[a] \in Job /\ i \in Items /\ pc[a] \in LeaseWriting
  BY DEF SaveLease, LeaseWriting
<1>1. leases' = [leases EXCEPT ![i] = lease]
  BY <1>0 DEF SaveLease, LeaseInv, CopyOfLeases
<1>2. leases[i].until <= now
  BY DEF SaveLease, LeaseInv, Lapsed
<1>3. /\ pc'[a] = "lookup" /\ now' = now
      /\ job'[a].item = i /\ job'[a].until = job[a].until
  BY <1>0, TermKept, ItemKept DEF SaveLease
<1>4. \A b \in Agents \ {a} : pc'[b] = pc[b] /\ job'[b] = job[b]
  BY DEF SaveLease
<1>5. \A b \in Agents \ {a} : pc[b] \notin LeaseWriting
  BY <1>0 DEF LeaseInv, OneLeaseWriter
<1>6. CopyOfLeases(a)' /\ Lapsed(a)'
  BY <1>3 DEF CopyOfLeases, Lapsed, LeaseWriting
<1>7. Granted(a)'
  BY <1>0, <1>1, <1>3 DEF Granted, FileTypes
<1>8. ASSUME NEW b \in Agents \ {a} PROVE CopyOfLeases(b)' /\ Lapsed(b)' /\ Granted(b)'
  <2>1. CopyOfLeases(b)' /\ Lapsed(b)'
    BY <1>4, <1>5, <1>8 DEF CopyOfLeases, Lapsed, LeaseWriting
  <2>2. ASSUME Executing(b), now < job[b].until
        PROVE  leases'[job[b].item] = [run |-> RunIdOf[b], until |-> job[b].until]
    <3>1. leases[job[b].item] = [run |-> RunIdOf[b], until |-> job[b].until]
      BY <2>2 DEF LeaseInv, Granted
    <3>2. job[b] \in Job
      OBVIOUS
    <3>3. job[b].item # i
      BY <1>2, <2>2, <3>1, <3>2 DEF Job
    <3>4. job[b].item \in Items
      BY <2>2 DEF Executing
    <3> QED
      BY <1>1, <3>1, <3>3, <3>4 DEF FileTypes
  <2>3. Granted(b)'
    BY <1>3, <1>4, <2>2 DEF Granted, Executing
  <2> QED
    BY <2>1, <2>3
<1>9. OneLeaseWriter'
  BY <1>3, <1>4, <1>5 DEF OneLeaseWriter, LeaseWriting
<1> QED
  BY <1>6, <1>7, <1>8, <1>9 DEF LeaseInv

LEMMA LoadLeasesAgainKeeps ==
    ASSUME ~ Overlap, Types, LeaseInv, NEW a \in Agents, LoadLeasesAgain(a)
    PROVE  LeaseInv'
<1> USE DEF Types, ProcTypes, files, history, At, Goto
<1>0. job[a] \in Job
  OBVIOUS
<1>1. \A b \in Agents : pc[b] \notin LeaseWriting
  BY LoadAlone DEF LoadLeasesAgain, LeaseWriting
<1>2. /\ job'[a].leases = leases /\ job'[a].item = job[a].item /\ job'[a].op = job[a].op
      /\ job'[a].until = job[a].until
      /\ pc[a] = "relLoad" /\ pc'[a] = "leaseFree" /\ leases' = leases /\ now' = now
  BY <1>0 DEF LoadLeasesAgain, Job
<1>3. \A b \in Agents \ {a} : pc'[b] = pc[b] /\ job'[b] = job[b]
  BY DEF LoadLeasesAgain
<1>4. CopyOfLeases(a)' /\ Lapsed(a)' /\ Granted(a)'
  BY <1>2 DEF LeaseInv, CopyOfLeases, Lapsed, Granted, Executing
<1>5. ASSUME NEW b \in Agents \ {a} PROVE CopyOfLeases(b)' /\ Lapsed(b)' /\ Granted(b)'
  BY <1>2, <1>3, <1>5 DEF LeaseInv, CopyOfLeases, Lapsed, Granted, Executing
<1>6. OneLeaseWriter'
  BY <1>1, <1>3 DEF OneLeaseWriter
<1> QED
  BY <1>4, <1>5, <1>6 DEF LeaseInv

\* A lease is given back by the run that has it, and no other agent shares its run id.
LEMMA FreeLeaseKeeps ==
    ASSUME OwnRunId, Types, LeaseInv, NEW a \in Agents, FreeLease(a)
    PROVE  LeaseInv'
<1> USE DEF Types, ProcTypes, files, history, At, Goto
<1> DEFINE i == job[a].item
<1>0. job[a] \in Job /\ i \in Items /\ pc[a] \in LeaseWriting
  BY DEF FreeLease, LeaseWriting
<1>1. leases' = IF leases[i].run = RunIdOf[a] THEN [leases EXCEPT ![i] = NoLease] ELSE leases
  BY <1>0 DEF FreeLease, OwnLease, LeaseInv, CopyOfLeases
<1>2. pc'[a] = "pick" /\ now' = now
  BY DEF FreeLease, NextTicket
<1>3. \A b \in Agents \ {a} : pc'[b] = pc[b] /\ job'[b] = job[b]
  BY DEF FreeLease, NextTicket
<1>4. \A b \in Agents \ {a} : pc[b] \notin LeaseWriting
  BY <1>0 DEF LeaseInv, OneLeaseWriter
<1>5. CopyOfLeases(a)' /\ Lapsed(a)' /\ Granted(a)'
  BY <1>2 DEF CopyOfLeases, Lapsed, Granted, Executing, LeaseWriting
<1>6. ASSUME NEW b \in Agents \ {a} PROVE CopyOfLeases(b)' /\ Lapsed(b)' /\ Granted(b)'
  <2>1. CopyOfLeases(b)' /\ Lapsed(b)'
    BY <1>3, <1>4, <1>6 DEF CopyOfLeases, Lapsed, LeaseWriting
  <2>2. ASSUME Executing(b), now < job[b].until
        PROVE  leases'[job[b].item] = [run |-> RunIdOf[b], until |-> job[b].until]
    <3>1. leases[job[b].item] = [run |-> RunIdOf[b], until |-> job[b].until]
      BY <2>2 DEF LeaseInv, Granted
    <3>2. leases[job[b].item].run # RunIdOf[a]
      BY <3>1 DEF OwnRunId
    <3>3. job[b].item \in Items
      BY <2>2 DEF Executing
    <3> QED
      BY <1>1, <3>1, <3>2, <3>3 DEF FileTypes
  <2>3. Granted(b)'
    BY <1>2, <1>3, <2>2 DEF Granted, Executing
  <2> QED
    BY <2>1, <2>3
<1>7. OneLeaseWriter'
  BY <1>2, <1>3, <1>4 DEF OneLeaseWriter, LeaseWriting
<1> QED
  BY <1>5, <1>6, <1>7 DEF LeaseInv

LEMMA LeaseTick ==
    ASSUME Types, LeaseInv, Tick
    PROVE  LeaseInv'
<1>1. /\ leases' = leases /\ pc' = pc /\ job' = job
      /\ now \in Nat /\ now' = now + 1
  BY DEF Tick, files, Types
<1>2. ASSUME NEW a \in Agents PROVE CopyOfLeases(a)' /\ Lapsed(a)' /\ Granted(a)'
  <2>1. job[a].until \in Nat /\ (pc[a] = "leaseSave" => leases[job[a].item].until \in Nat)
    BY DEF Types, ProcTypes, FileTypes, Job, Lease
  <2> QED
    BY <1>1, <2>1 DEF LeaseInv, CopyOfLeases, Lapsed, Granted, Executing
<1>3. OneLeaseWriter'
  BY <1>1 DEF LeaseInv, OneLeaseWriter
<1> QED
  BY <1>2, <1>3 DEF LeaseInv

LEMMA LeaseInit == Init => LeaseInv
BY DEF Init, LeaseInv, OneLeaseWriter, CopyOfLeases, Lapsed, Granted, Executing, LeaseWriting

LEMMA LeaseNext ==
    ASSUME ~ Overlap, OwnRunId, Types, LeaseInv, [Next]_vars
    PROVE  LeaseInv'
<1>1. CASE UNCHANGED vars
  BY <1>1 DEF vars, files, LeaseInv, OneLeaseWriter, CopyOfLeases, Lapsed, Granted, Executing
<1>2. ASSUME NEW a \in Agents, Exec(a) PROVE LeaseInv'
  BY <1>2, LeaseQuietExec, LeaseQuietKeeps, LoadLeasesKeeps, SaveLeaseKeeps,
     LoadLeasesAgainKeeps, FreeLeaseKeeps DEF Exec
<1>3. ASSUME NEW a \in Agents, Operate(a) \/ Kill(a) PROVE LeaseInv'
  BY <1>3, LeaseQuietRest, LeaseQuietKeeps
<1> QED
  BY <1>1, <1>2, <1>3, LeaseTick DEF Next

\* Two executors never hold the lease of one ticket together (work_item_leases.py), for
\* any number of them and any lease time, provided that each has a run id of its own and
\* that they do not load the store while another one is about to save it.
THEOREM LeasesExclude ==
    ASSUME ~ Overlap, OwnRunId
    PROVE  Spec => []LeaseExclusive
<1>1. Init => Types /\ LeaseInv
  BY InitTypes, LeaseInit
<1>2. Types /\ LeaseInv /\ [Next]_vars => (Types /\ LeaseInv)'
  BY NextTypes, LeaseNext
<1>3. LeaseInv => LeaseExclusive
  <2> SUFFICES ASSUME LeaseInv, NEW a \in Agents, NEW b \in Agents, NEW i \in Items,
                      Holds(a, i), Holds(b, i)
               PROVE  a = b
    BY DEF LeaseExclusive
  <2>1. Executing(a) /\ now < job[a].until /\ Executing(b) /\ now < job[b].until
    BY DEF Executing, Holds
  <2>2. ASSUME NEW c \in Agents, Executing(c), now < job[c].until
        PROVE  leases[job[c].item].run = RunIdOf[c]
    <3>1. leases[job[c].item] = [run |-> RunIdOf[c], until |-> job[c].until]
      BY <2>2 DEF LeaseInv, Granted
    <3> QED
      BY <3>1
  <2>3. job[a].item = job[b].item
    BY DEF Holds
  <2> QED
    BY <2>1, <2>2, <2>3 DEF OwnRunId
<1> QED
  BY <1>1, <1>2, <1>3, PTL DEF Spec

-------------------------------------------------------------------------------
\* ---- the claims -------------------------------------------------------------------
Promises == promised \in [Agents -> [Items -> Nat]]

OneClaimWriter ==
    \A a, b \in Agents : pc[a] = "claimSave" /\ pc[b] = "claimSave" => a = b

\* A copy of the claims differs from the store in the claim that is being changed, and a
\* claim that still runs is given up or renewed there, never handed to somebody else.
ClaimAtHand(a) ==
    pc[a] = "claimSave" =>
        LET i == job[a].item
            claim == job[a].claims[i] IN
        /\ job[a].claims = [claims EXCEPT ![i] = claim]
        /\ claim # NoClaim /\ Live(claims[i]) => claim.owner = claims[i].owner

\* What an agent was told lasts no longer than the claim in the store.
Promised(a, i) ==
    now < promised[a][i] => claims[i].owner = {a} /\ promised[a][i] <= claims[i].until

ClaimInv ==
    /\ Promises
    /\ OneClaimWriter
    /\ \A a \in Agents : ClaimAtHand(a)
    /\ \A a \in Agents, i \in Items : Promised(a, i)

\* A step that does not touch the claims and begins no change of one.
ClaimQuiet(a) ==
    /\ Alone(a) /\ claims' = claims /\ promised' = promised
    /\ pc'[a] # "claimSave"

LEMMA ClaimQuietKeeps ==
    ASSUME ClaimInv, NEW a \in Agents, ClaimQuiet(a)
    PROVE  ClaimInv'
<1> USE DEF ClaimQuiet, Alone
<1>1. ASSUME NEW b \in Agents PROVE ClaimAtHand(b)'
  BY <1>1 DEF ClaimInv, ClaimAtHand, Live
<1>2. ASSUME NEW b \in Agents, NEW i \in Items PROVE Promised(b, i)'
  BY <1>2 DEF ClaimInv, Promised
<1>3. OneClaimWriter' /\ Promises'
  BY DEF ClaimInv, OneClaimWriter, Promises
<1> QED
  BY <1>1, <1>2, <1>3 DEF ClaimInv

LEMMA ClaimQuietSteps ==
    ASSUME Types, NEW a \in Agents, Exec(a) \/ BuildIntake(a) \/ Close(a) \/ Kill(a)
    PROVE  ClaimQuiet(a)
<1> USE DEF ClaimQuiet, Alone, Types, ProcTypes, files, history, At, Goto
<1>1. CASE StartExec(a) \/ SkipTicket(a) \/ PickTicket(a) \/ LoadLeases(a) \/ SaveLease(a)
  BY <1>1 DEF StartExec, SkipTicket, PickTicket, LoadLeases, SaveLease
<1>2. CASE TicketLocked(a) \/ FreeLease(a) \/ Refuse(a) \/ FinishExec(a) \/ Kill(a)
  BY <1>2 DEF TicketLocked, FreeLease, NextTicket, Refuse, FinishExec, Kill, Exit
<1>3. CASE AlreadyDone(a) \/ ToBeDone(a) \/ LoadStates(a) \/ SaveStates(a)
           \/ ActOnTicket(a) \/ LoadLeasesAgain(a)
  BY <1>3 DEF AlreadyDone, ToBeDone, LoadStates, SaveStates, ActOnTicket, LoadLeasesAgain
<1>4. CASE Record(a)
  BY <1>4 DEF Record, Exit
<1>5. CASE BuildIntake(a) \/ Close(a)
  BY <1>5 DEF BuildIntake, Close, Command
<1> QED
  BY <1>1, <1>2, <1>3, <1>4, <1>5 DEF Exec

\* An agent sets out to change a claim in a copy of the store of its own.
LEMMA ChangeBegins ==
    ASSUME ~ Overlap, Types, ClaimInv, NEW a \in Agents, MayLoad({"claimSave"}),
           Alone(a), claims' = claims, promised' = promised,
           NEW i \in Items, NEW claim \in ClaimEntry,
           pc'[a] = "claimSave", job'[a].item = i, job'[a].claims = [claims EXCEPT ![i] = claim],
           claim # NoClaim /\ Live(claims[i]) => claim.owner = claims[i].owner
    PROVE  ClaimInv'
<1> USE DEF Alone
<1>1. \A b \in Agents : pc[b] # "claimSave"
  BY DEF MayLoad
<1>2. job'[a].claims[i] = claim
  BY DEF Types, FileTypes
<1>3. ClaimAtHand(a)'
  BY <1>2 DEF ClaimAtHand, Live
<1>4. ASSUME NEW b \in Agents \ {a} PROVE ClaimAtHand(b)'
  BY <1>1, <1>4 DEF ClaimAtHand
<1>5. ASSUME NEW b \in Agents, NEW j \in Items PROVE Promised(b, j)'
  BY <1>5 DEF ClaimInv, Promised
<1>6. OneClaimWriter' /\ Promises'
  BY <1>1 DEF ClaimInv, OneClaimWriter, Promises
<1> QED
  BY <1>3, <1>4, <1>5, <1>6 DEF ClaimInv

LEMMA ClaimKeeps ==
    ASSUME ~ Overlap, Types, ClaimInv, NEW a \in Agents, Claim(a)
    PROVE  ClaimInv'
<1> USE DEF Types, ProcTypes, files, history, Goto
<1>1. PICK i \in Items :
         /\ MayClaim(i, {a})
         /\ job' = [job EXCEPT ![a] = [NoJob EXCEPT !.op = "claim", !.item = i,
                        !.claims = [claims EXCEPT ![i] = Renewed({a})]]]
  BY DEF Claim
<1>2. job'[a].item = i /\ job'[a].claims = [claims EXCEPT ![i] = Renewed({a})]
  BY <1>1, NoJobTyped DEF Job
<1>3. Renewed({a}) \in ClaimEntry /\ Renewed({a}).owner = {a}
  BY EntriesTyped DEF Renewed
<1>4. Live(claims[i]) => Renewed({a}).owner = claims[i].owner
  BY <1>1, <1>3 DEF MayClaim
<1>5. pc'[a] = "claimSave" /\ Alone(a) /\ claims' = claims /\ promised' = promised
      /\ MayLoad({"claimSave"})
  BY DEF Claim, Alone
<1> QED
  BY <1>2, <1>3, <1>4, <1>5, ChangeBegins

LEMMA ReleaseClaimKeeps ==
    ASSUME ~ Overlap, Types, ClaimInv, NEW a \in Agents, ReleaseClaim(a)
    PROVE  ClaimInv'
<1> USE DEF Types, ProcTypes, files, history, Goto
<1>1. PICK i \in Items, heir \in {{}} \cup {{b} : b \in Agents \ {a}} :
         job' = [job EXCEPT ![a] = [NoJob EXCEPT !.op = "release", !.item = i,
                        !.heir = heir, !.claims = [claims EXCEPT ![i] = NoClaim]]]
  BY DEF ReleaseClaim
<1>2. job'[a].item = i /\ job'[a].claims = [claims EXCEPT ![i] = NoClaim]
  BY <1>1, NoJobTyped DEF Job
<1>3. pc'[a] = "claimSave" /\ Alone(a) /\ claims' = claims /\ promised' = promised
      /\ MayLoad({"claimSave"})
  BY DEF ReleaseClaim, Alone
<1> QED
  BY <1>2, <1>3, EntryTypes, ChangeBegins

LEMMA TransferKeeps ==
    ASSUME ~ Overlap, Types, ClaimInv, NEW a \in Agents, Transfer(a)
    PROVE  ClaimInv'
<1> USE DEF Types, ProcTypes, files, history, Goto, At
<1> DEFINE i == job[a].item
           claim == Renewed(job[a].heir)
<1>0. job[a] \in Job /\ i \in Items
  BY DEF Transfer
<1>1. CASE ~ MayClaim(i, job[a].heir)
  <2>1. ClaimQuiet(a)
    BY <1>1 DEF Transfer, Exit, ClaimQuiet, Alone
  <2> QED
    BY <2>1, ClaimQuietKeeps
<1>2. CASE MayClaim(i, job[a].heir)
  <2>1. job'[a].item = i /\ job'[a].claims = [claims EXCEPT ![i] = claim]
    BY <1>0, <1>2 DEF Transfer, Job
  <2>2. claim \in ClaimEntry /\ claim.owner = job[a].heir
    BY <1>0, EntriesTyped DEF Renewed, Job
  <2>3. Live(claims[i]) => claim.owner = claims[i].owner
    BY <1>2, <2>2 DEF MayClaim
  <2>4. pc'[a] = "claimSave" /\ Alone(a) /\ claims' = claims /\ promised' = promised
        /\ MayLoad({"claimSave"})
    BY <1>2 DEF Transfer, Alone
  <2> HIDE DEF i, claim
  <2> QED
    BY <1>0, <2>1, <2>2, <2>3, <2>4, ChangeBegins DEF i
<1> QED
  BY <1>1, <1>2

\* An agent whose claim still runs keeps it or has been told that it is gone.
LEMMA SaveClaimsKeeps ==
    ASSUME Types, ClaimInv, NEW a \in Agents, SaveClaims(a)
    PROVE  ClaimInv'
<1> USE DEF Types, ProcTypes, files, history, Goto, At
<1> DEFINE i == job[a].item
           claim == job[a].claims[i]
<1>0. job[a] \in Job /\ i \in Items /\ pc[a] = "claimSave" /\ claim \in ClaimEntry
  BY DEF SaveClaims, Job
<1>1. claims' = [claims EXCEPT ![i] = claim]
      /\ (claim # NoClaim /\ Live(claims[i]) => claim.owner = claims[i].owner)
  BY <1>0 DEF SaveClaims, ClaimInv, ClaimAtHand
<1>2. now' = now /\ pc'[a] # "claimSave"
      /\ \A b \in Agents \ {a} : pc'[b] = pc[b] /\ job'[b] = job[b]
  BY DEF SaveClaims, Exit
<1>3. promised' = [b \in Agents |->
         IF claim = NoClaim /\ claims[i].owner = {b} THEN [promised[b] EXCEPT ![i] = 0]
         ELSE IF claim.owner = {b} THEN [promised[b] EXCEPT ![i] = claim.until]
         ELSE promised[b]]
  BY DEF SaveClaims
<1> HIDE DEF claim, i
<1>4. \A b \in Agents \ {a} : pc[b] # "claimSave"
  BY <1>0 DEF ClaimInv, OneClaimWriter
<1>5. ASSUME NEW b \in Agents PROVE ClaimAtHand(b)'
  BY <1>2, <1>4, <1>5 DEF ClaimAtHand
<1>6. OneClaimWriter'
  BY <1>2, <1>4 DEF OneClaimWriter
<1>7. claim.until \in Nat
  BY <1>0 DEF ClaimEntry
<1>8. Promises'
  BY <1>3, <1>7 DEF ClaimInv, Promises
<1>9. ASSUME NEW b \in Agents, NEW j \in Items PROVE Promised(b, j)'
  <2>0. promised[b] \in [Items -> Nat] /\ Promised(b, j)
    BY DEF ClaimInv, Promises
  <2>1. CASE j # i
    <3>1. promised'[b][j] = promised[b][j]
      BY <1>3, <2>0, <2>1
    <3>2. claims'[j] = claims[j]
      BY <1>0, <1>1, <2>1 DEF FileTypes
    <3> QED
      BY <1>2, <2>0, <3>1, <3>2 DEF Promised
  <2>2. CASE j = i
    <3>0. claims'[i] = claim /\ claims[i] \in ClaimEntry
      BY <1>0, <1>1 DEF FileTypes
    <3>1. CASE claim = NoClaim /\ claims[i].owner = {b}
      <4>1. promised'[b][i] = 0
        BY <1>0, <1>3, <2>0, <3>1
      <4> QED
        BY <1>2, <2>2, <4>1 DEF Promised
    <3>2. CASE claim # NoClaim /\ claim.owner = {b}
      <4>1. promised'[b][i] = claim.until
        BY <1>0, <1>3, <2>0, <3>2
      <4> QED
        BY <1>7, <2>2, <3>0, <3>2, <4>1 DEF Promised
    <3>3. CASE ~ (claim = NoClaim /\ claims[i].owner = {b}) /\ claim.owner # {b}
      <4>1. promised'[b][i] = promised[b][i]
        BY <1>3, <3>3
      <4>2. promised[b][i] \in Nat /\ claims[i].until \in Nat
        BY <1>0, <2>0, <3>0 DEF ClaimEntry
      <4>3. ASSUME now < promised[b][i] PROVE FALSE
        <5>1. claims[i].owner = {b} /\ promised[b][i] <= claims[i].until
          BY <2>0, <2>2, <4>3 DEF Promised
        <5>2. now < claims[i].until
          BY <4>2, <4>3, <5>1
        <5> QED
          BY <1>1, <3>3, <5>1, <5>2 DEF Live
      <4> QED
        BY <1>2, <2>2, <4>1, <4>3 DEF Promised
    <3>4. claim = NoClaim => claim.owner # {b}
      BY DEF NoClaim
    <3> QED
      BY <3>1, <3>2, <3>3, <3>4
  <2> QED
    BY <2>1, <2>2
<1> QED
  BY <1>5, <1>6, <1>8, <1>9 DEF ClaimInv

LEMMA ClaimTick ==
    ASSUME Types, ClaimInv, Tick
    PROVE  ClaimInv'
<1>1. /\ claims' = claims /\ promised' = promised /\ pc' = pc /\ job' = job
      /\ now \in Nat /\ now' = now + 1
  BY DEF Tick, files, history, Types
<1>2. ASSUME NEW a \in Agents PROVE ClaimAtHand(a)'
  <2>1. pc[a] = "claimSave" => claims[job[a].item].until \in Nat
    BY DEF Types, ProcTypes, FileTypes, ClaimEntry
  <2> QED
    BY <1>1, <2>1 DEF ClaimInv, ClaimAtHand, Live
<1>3. ASSUME NEW a \in Agents, NEW i \in Items PROVE Promised(a, i)'
  <2>1. promised[a][i] \in Nat
    BY DEF ClaimInv, Promises
  <2> QED
    BY <1>1, <2>1 DEF ClaimInv, Promised
<1>4. OneClaimWriter' /\ Promises'
  BY <1>1 DEF ClaimInv, OneClaimWriter, Promises
<1> QED
  BY <1>2, <1>3, <1>4 DEF ClaimInv

LEMMA ClaimInit == Init => ClaimInv
<1> SUFFICES ASSUME Init PROVE ClaimInv
  OBVIOUS
<1>1. Promises
  BY DEF Init, Promises
<1>2. \A a \in Agents : pc[a] = "idle"
  BY DEF Init
<1>3. \A a \in Agents, i \in Items : promised[a][i] = 0 /\ now = 0
  BY DEF Init
<1> QED
  BY <1>1, <1>2, <1>3 DEF ClaimInv, OneClaimWriter, ClaimAtHand, Promised

LEMMA ClaimNext ==
    ASSUME ~ Overlap, Types, ClaimInv, [Next]_vars
    PROVE  ClaimInv'
<1>1. CASE UNCHANGED vars
  BY <1>1 DEF vars, files, history, ClaimInv, Promises, OneClaimWriter, ClaimAtHand, Promised,
              Live
<1>2. ASSUME NEW a \in Agents, Exec(a) \/ Operate(a) \/ Kill(a) PROVE ClaimInv'
  BY <1>2, ClaimQuietSteps, ClaimQuietKeeps, ClaimKeeps, ReleaseClaimKeeps, SaveClaimsKeeps,
     TransferKeeps DEF Operate
<1> QED
  BY <1>1, <1>2, ClaimTick DEF Next

\* An agent that was told it has the claim of a ticket is its recorded owner until the
\* claim runs out, is released or is taken away by force (work_item_claims.py), transfers
\* that are cut short or overtaken included, provided that nobody loads the store while
\* another one is about to save it.
THEOREM ClaimsLast ==
    ASSUME ~ Overlap
    PROVE  Spec => []ClaimKept
<1>1. Init => Types /\ ClaimInv
  BY InitTypes, ClaimInit
<1>2. Types /\ ClaimInv /\ [Next]_vars => (Types /\ ClaimInv)'
  BY NextTypes, ClaimNext
<1>3. ClaimInv => ClaimKept
  BY DEF ClaimInv, Promised, ClaimKept
<1> QED
  BY <1>1, <1>2, <1>3, PTL DEF Spec

===============================================================================
