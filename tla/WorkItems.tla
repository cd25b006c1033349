------------------------------- MODULE WorkItems -------------------------------
(***************************************************************************)
(* The work items of a workspace and the commands that act on them         *)
(* (src/ops): work-intake-exec-ticket executes the tickets of the intake,  *)
(* work-intake-close closes and reopens one, work-intake-claim and         *)
(* agent-release claim, release and hand over one, work-intake-build       *)
(* writes the intake anew.                                                 *)
(*                                                                         *)
(* Every agent runs one command at a time, each a process of its own; they *)
(* share the files                                                         *)
(*                                                                         *)
(*   work_intake.v1.json            intake    written by the build         *)
(*   work_item_leases.v1.json       leases    one executor per ticket      *)
(*   work_item_claims.v1.json       claims    a ticket set aside by one    *)
(*   work_item_state.v1.json        states    the lifecycle of the tickets *)
(*   work_item_runs.v1.jsonl        runs      append-only                  *)
(*   work_intake_exec_ticket.v1.json  report  of the last execution        *)
(*                                                                         *)
(* A store is loaded whole, changed and saved whole: two actions here,     *)
(* with the copy in job[a].  With Overlap = FALSE no process loads a store *)
(* that another one has loaded and not yet saved: nothing in the code      *)
(* enforces it, the gap lasts milliseconds.                                *)
(*                                                                         *)
(* Operators said to be faulty are used by no specification: each is a     *)
(* slip the code could have had in the operator that follows it.           *)
(***************************************************************************)
EXTENDS Naturals, FiniteSets

CONSTANTS
    Items,          \* the tickets (bucket TICKET) of the intake
    Agents,         \* who runs commands; an agent's name is its owner tag
    Executors,      \* the agents that run work-intake-exec-ticket
    Operators,      \* the agents that close, reopen, claim, release and hand over
    NoItem,
    Ticket,         \* what the executor reads of each ticket
    RunIdOf,        \* the run id of an agent's executions, a hash of limit and day: here
                    \* the set of the agents that share it
    Limit,          \* --limit: tickets executed by one command
    LeaseTtl,       \* 3600 s in the code, in units of the clock
    ClaimTtl,
    MaxTime,        \* bound on the clock
    MaxVersion,     \* bound on the edits of a ticket's source
    MaxCommands,    \* bound on the operators' commands
    MaxKills,       \* bound on the processes killed in a command
    Overlap         \* may two processes be between load and save of one store?

ASSUME BoundsAssumption ==
    /\ Limit \in Nat /\ LeaseTtl \in Nat \ {0} /\ ClaimTtl \in Nat \ {0}
    /\ MaxTime \in Nat /\ MaxVersion \in Nat \ {0} /\ MaxKills \in Nat
    /\ MaxCommands \in Nat
    /\ Overlap \in BOOLEAN

ASSUME RolesAssumption == Executors \subseteq Agents /\ Operators \subseteq Agents

ASSUME RunIdsAssumption == RunIdOf \in [Agents -> (SUBSET Agents) \ {{}}]

ASSUME NoItemAssumption == NoItem \notin Items

VARIABLES
    intake,     \* of each ticket: does it show as open, and its content
    leases,     \* of each ticket: run id and expiry of its lease
    claims,     \* of each ticket: owner and expiry of its claim
    states,     \* of each ticket: state and last_fingerprint
    runs,       \* the records of the run log
    report,     \* the tickets the last execution report says APPLIED
    pc,         \* where each agent is
    job,        \* what its process keeps in memory
    now,        \* the clock of the leases and claims
    acted,      \* history: how often the output of each ticket was written
    promised,   \* history: until when an agent was told it has the claim of a ticket
    commands,   \* how many commands the operators have given
    kills

files == << intake, leases, claims, states, runs, report >>
history == << acted, promised >>
bounds == << commands, kills >>
vars == << files, pc, job, now, history, bounds >>

-------------------------------------------------------------------------------
\* ---- the executor's decision about a ticket --------------------------------------
\* Autopilot has selected it, it is allowed or a decision has allowed it, and it
\* belongs to this repository.
Eligible(i) ==
    /\ Ticket[i].selected
    /\ Ticket[i].allowed \/ Ticket[i].decision
    /\ Ticket[i].ourRepo

\* Only safe kinds are written; all else is planned.  "rule" says that the first
\* matching action rule is WRITE_DOC_NOTE and not plan_only, "safe" that kind,
\* scope, gap type or path are among those the policy lets through.
Writes(i) ==
    LET t == Ticket[i] IN
    t.rule /\ (t.safe \/ (t.source = "GAP" /\ t.decision) \/ t.source = "DOC_NAV")

\* A broken-reference ticket of a document graph without broken references is idle.
Outcome(i) ==
    CASE ~ Writes(i) -> "PLANNED"
      [] Writes(i) /\ Ticket[i].source = "DOC_NAV" /\ ~ Ticket[i].broken -> "NOOP"
      [] OTHER -> "APPLIED"

-------------------------------------------------------------------------------
FinalStates == {"APPLIED", "CLOSED", "NOOP"}
States == {"", "OPEN", "PLANNED", "IN_PROGRESS"} \cup FinalStates

\* "" is a ticket without an entry.
AllowedTransitions ==
    { << "OPEN", "PLANNED" >>, << "OPEN", "NOOP" >>, << "PLANNED", "IN_PROGRESS" >>,
      << "PLANNED", "OPEN" >>, << "IN_PROGRESS", "APPLIED" >>, << "IN_PROGRESS", "OPEN" >>,
      << "APPLIED", "CLOSED" >> } \cup ({""} \X (States \ {""}))

\* Faulty: an execution that was cut short may be started again.
RetryAllowed(from, to) ==
    << from, to >> \in AllowedTransitions \cup {<< "IN_PROGRESS", "IN_PROGRESS" >>}

\* validate_transition
ValidTransition(from, to) == << from, to >> \in AllowedTransitions

\* should_skip_due_to_fingerprint
SkipsFingerprint(entry, fp) == entry.fp = fp /\ entry.state \in FinalStates

NoLease == [run |-> {}, until |-> 0]
NoClaim == [owner |-> {}, until |-> 0]

\* An entry whose expires_at has passed is stale, and as good as none.
Live(entry) == now < entry.until

NoJob == [op |-> "none", item |-> NoItem, todo |-> {}, slots |-> 0,
          vers |-> [i \in Items |-> 0], target |-> "", applied |-> {}, until |-> 0,
          heir |-> {}, leases |-> [i \in Items |-> NoLease],
          states |-> [i \in Items |-> [state |-> "", fp |-> 0]],
          claims |-> [i \in Items |-> NoClaim]]

Init ==
    /\ intake = [i \in Items |-> [open |-> TRUE, ver |-> 1]]
    /\ leases = [i \in Items |-> NoLease]
    /\ claims = [i \in Items |-> NoClaim]
    /\ states = [i \in Items |-> [state |-> "", fp |-> 0]]
    /\ runs = {}
    /\ report = {}
    /\ pc = [a \in Agents |-> "idle"]
    /\ job = [a \in Agents |-> NoJob]
    /\ now = 0
    /\ acted = [i \in Items |-> 0]
    /\ promised = [a \in Agents |-> [i \in Items |-> 0]]
    /\ commands = 0
    /\ kills = 0

At(a, label) == pc[a] = label
Goto(a, label) == pc' = [pc EXCEPT ![a] = label]
Exit(a) == Goto(a, "idle") /\ job' = [job EXCEPT ![a] = NoJob]

\* A store may be loaded when nobody is about to save what it loaded before.
MayLoad(saving) == Overlap \/ \A b \in Agents : pc[b] \notin saving

\* The ticket at hand is done with: the executor turns to the next one.
NextTicket(a) ==
    /\ job' = [job EXCEPT ![a] = [NoJob EXCEPT
                  !.op = "exec", !.todo = job[a].todo \ {job[a].item},
                  !.slots = job[a].slots, !.vers = job[a].vers, !.applied = job[a].applied]]
    /\ Goto(a, "pick")

-------------------------------------------------------------------------------
\* ---- run_work_intake_exec_ticket ---------------------------------------------------
\* The intake is read once, at the start.
StartExec(a) ==
    /\ a \in Executors
    /\ At(a, "idle")
    /\ job' = [job EXCEPT ![a] = [NoJob EXCEPT
                  !.op = "exec", !.slots = Limit,
                  !.todo = {i \in Items : intake[i].open /\ Eligible(i)},
                  !.vers = [i \in Items |-> intake[i].ver]]]
    /\ Goto(a, "pick")
    /\ UNCHANGED << files, now, history, bounds >>

\* get_active_claim: nobody else holds a live claim on the ticket.
FreeFor(a, i) == Live(claims[i]) => claims[i].owner = {a}

\* The tickets are taken in the order of their priority and severity.
First(a, i) ==
    /\ i \in job[a].todo
    /\ \A j \in job[a].todo : Ticket[i].rank <= Ticket[j].rank

\* CLAIMED_BY_OTHER
SkipTicket(a) ==
    /\ At(a, "pick") /\ job[a].slots > 0
    /\ \E i \in Items :
          /\ First(a, i) /\ ~ FreeFor(a, i)
          /\ job' = [job EXCEPT ![a].todo = @ \ {i}]
    /\ UNCHANGED << files, pc, now, history, bounds >>

PickTicket(a) ==
    /\ At(a, "pick") /\ job[a].slots > 0
    /\ \E i \in Items :
          /\ First(a, i) /\ FreeFor(a, i)
          /\ job' = [job EXCEPT ![a].item = i]
    /\ Goto(a, "leaseLoad")
    /\ UNCHANGED << files, now, history, bounds >>

\* acquire_lease finds a live lease: LOCKED_ITEM.
TicketLocked(a) ==
    /\ At(a, "leaseLoad") /\ MayLoad({"leaseSave", "leaseFree"})
    /\ Live(leases[job[a].item])
    /\ NextTicket(a)
    /\ UNCHANGED << files, now, history, bounds >>

LoadLeases(a) ==
    /\ At(a, "leaseLoad") /\ MayLoad({"leaseSave", "leaseFree"})
    /\ ~ Live(leases[job[a].item])
    /\ job' = [job EXCEPT ![a].leases = leases, ![a].until = now + LeaseTtl]
    /\ Goto(a, "leaseSave")
    /\ UNCHANGED << files, now, history, bounds >>

SaveLease(a) ==
    /\ At(a, "leaseSave")
    /\ leases' = [job[a].leases EXCEPT ![job[a].item] =
                      [run |-> RunIdOf[a], until |-> job[a].until]]
    /\ job' = [job EXCEPT ![a].leases = NoJob.leases]
    /\ Goto(a, "lookup")
    /\ UNCHANGED << intake, claims, states, runs, report, now, history, bounds >>

\* The ticket has been executed with this content and is final: ALREADY_DONE.
AlreadyDone(a) ==
    LET i == job[a].item IN
    /\ At(a, "lookup") /\ MayLoad({"save"})
    /\ SkipsFingerprint(states[i], job[a].vers[i])
    /\ runs' = runs \cup {[item |-> i, state |-> states[i].state, result |-> "ALREADY_DONE"]}
    /\ Goto(a, "relLoad")
    /\ UNCHANGED << intake, leases, claims, states, report, job, now, history, bounds >>

\* Faulty: the ticket is marked before its output is written.
MarkFirst(a) ==
    /\ At(a, "lookup") /\ MayLoad({"save"})
    /\ ~ SkipsFingerprint(states[job[a].item], job[a].vers[job[a].item])
    /\ job' = [job EXCEPT ![a].target = "APPLIED"]
    /\ Goto(a, "load")
    /\ UNCHANGED << files, now, history, bounds >>

ToBeDone(a) ==
    /\ At(a, "lookup") /\ MayLoad({"save"})
    /\ ~ SkipsFingerprint(states[job[a].item], job[a].vers[job[a].item])
    /\ job' = [job EXCEPT ![a].target = "IN_PROGRESS"]
    /\ Goto(a, "load")
    /\ UNCHANGED << files, now, history, bounds >>

\* update_state, up to the validation of the transition.
LoadStates(a) ==
    /\ At(a, "load") /\ MayLoad({"save"})
    /\ ValidTransition(states[job[a].item].state, job[a].target)
    /\ job' = [job EXCEPT ![a].states = states]
    /\ Goto(a, "save")
    /\ UNCHANGED << files, now, history, bounds >>

\* The ValueError ends the command: no report, and an executor's lease stays.
Refuse(a) ==
    /\ At(a, "load") /\ MayLoad({"save"})
    /\ ~ ValidTransition(states[job[a].item].state, job[a].target)
    /\ Exit(a)
    /\ UNCHANGED << files, now, history, bounds >>

\* The result that the run log gives to a step.
Result(a) ==
    CASE job[a].op # "exec" -> "OK"
      [] job[a].op = "exec" /\ job[a].target = "IN_PROGRESS" -> "STARTED"
      [] OTHER -> job[a].target

\* Faulty: the store is replaced by the entry at hand.
EntryAlone(a) ==
    [i \in Items |-> IF i = job[a].item
                     THEN [state |-> job[a].target, fp |-> job[a].vers[i]]
                     ELSE [state |-> "", fp |-> 0]]

\* The whole map is written back from the copy.  A close or a reopen has a
\* fingerprint of its own, 0 here.
SavedStates(a) ==
    [job[a].states EXCEPT ![job[a].item] =
        [state |-> job[a].target, fp |-> job[a].vers[job[a].item]]]

SaveStates(a) ==
    /\ At(a, "save")
    /\ states' = SavedStates(a)
    /\ job' = [job EXCEPT ![a].states = NoJob.states]
    /\ Goto(a, "record")
    /\ UNCHANGED << intake, leases, claims, runs, report, now, history, bounds >>

\* record_run after update_state
Record(a) ==
    /\ At(a, "record")
    /\ runs' = runs \cup {[item |-> job[a].item, state |-> job[a].target,
                           result |-> Result(a)]}
    /\ CASE job[a].op # "exec" -> Exit(a)
         [] job[a].op = "exec" /\ job[a].target = "IN_PROGRESS" -> Goto(a, "act") /\ UNCHANGED job
         [] OTHER ->
              /\ Goto(a, "relLoad")
              /\ job' = [job EXCEPT ![a].applied =
                            IF job[a].target = "APPLIED" THEN @ \cup {job[a].item} ELSE @]
    /\ UNCHANGED << intake, leases, claims, states, report, now, history, bounds >>

\* The output is written: a note, suggestions, a report or a plan.
ActOnTicket(a) ==
    LET i == job[a].item IN
    /\ At(a, "act")
    /\ acted' = IF Outcome(i) = "NOOP" THEN acted ELSE [acted EXCEPT ![i] = @ + 1]
    /\ job' = [job EXCEPT ![a].target = Outcome(i),
                          ![a].slots = IF Outcome(i) = "NOOP" THEN @ ELSE @ - 1]
    /\ Goto(a, "load")
    /\ UNCHANGED << files, now, promised, bounds >>

\* Faulty: whatever lease the ticket has is removed.
AnyLease(a) == job[a].leases[job[a].item] # NoLease

\* release_lease removes the lease of this run only.
OwnLease(a) == job[a].leases[job[a].item].run = RunIdOf[a]

LoadLeasesAgain(a) ==
    /\ At(a, "relLoad") /\ MayLoad({"leaseSave", "leaseFree"})
    /\ job' = [job EXCEPT ![a].leases = leases]
    /\ Goto(a, "leaseFree")
    /\ UNCHANGED << files, now, history, bounds >>

FreeLease(a) ==
    /\ At(a, "leaseFree")
    /\ leases' = IF OwnLease(a)
                 THEN [job[a].leases EXCEPT ![job[a].item] = NoLease]
                 ELSE leases
    /\ NextTicket(a)
    /\ UNCHANGED << intake, claims, states, runs, report, now, history, bounds >>

\* Nothing is left, or the rest is skipped: LIMIT_REACHED.
FinishExec(a) ==
    /\ At(a, "pick")
    /\ job[a].todo = {} \/ job[a].slots = 0
    /\ report' = job[a].applied
    /\ Exit(a)
    /\ UNCHANGED << intake, leases, claims, states, runs, now, history, bounds >>

Exec(a) ==
    \/ StartExec(a) \/ SkipTicket(a) \/ PickTicket(a) \/ TicketLocked(a) \/ LoadLeases(a)
    \/ SaveLease(a) \/ AlreadyDone(a) \/ ToBeDone(a) \/ LoadStates(a) \/ Refuse(a)
    \/ SaveStates(a) \/ Record(a) \/ ActOnTicket(a) \/ LoadLeasesAgain(a) \/ FreeLease(a)
    \/ FinishExec(a)

-------------------------------------------------------------------------------
\* An operator's command; the loops of the workspace count as operators here.
Command(a) ==
    /\ a \in Operators
    /\ At(a, "idle")
    /\ commands < MaxCommands
    /\ commands' = commands + 1

\* ---- run_work_intake_build --------------------------------------------------------
\* Tickets the last report applied, and final ones, are DONE; the others are open
\* and have the content their source has by now.
BuildIntake(a) ==
    /\ Command(a)
    /\ \E ver \in [Items -> 1 .. MaxVersion] :
          /\ \A i \in Items : ver[i] >= intake[i].ver
          /\ intake' = [i \in Items |->
                [open |-> i \notin report /\ states[i].state \notin FinalStates,
                 ver |-> ver[i]]]
    /\ UNCHANGED << leases, claims, states, runs, report, pc, job, now, history, kills >>

\* ---- cmd_work_intake_close ---------------------------------------------------------
\* The state is read here and again by update_state.
Close(a) ==
    /\ Command(a)
    /\ \E i \in Items, op \in {"close", "reopen"}, force \in BOOLEAN :
          /\ Ticket[i].source = "MANUAL_REQUEST"
          /\ FreeFor(a, i) \/ force
          /\ IF op = "close" THEN states[i].state \notin FinalStates
                             ELSE states[i].state = "CLOSED"
          /\ job' = [job EXCEPT ![a] = [NoJob EXCEPT !.op = op, !.item = i,
                        !.target = IF op = "close" THEN "CLOSED" ELSE "OPEN"]]
    /\ Goto(a, "load")
    /\ UNCHANGED << files, now, history, kills >>

\* ---- cmd_work_intake_claim, cmd_agent_claim, cmd_agent_release ----------------------
\* acquire_claim renews an agent's own claim, and refuses that of another.
Renewed(owner) == [owner |-> owner, until |-> now + ClaimTtl]

\* Faulty: the claim is taken over instead of refused.
MayTakeOver(i, owner) == TRUE

MayClaim(i, owner) == Live(claims[i]) => claims[i].owner = owner

Claim(a) ==
    /\ Command(a) /\ MayLoad({"claimSave"})
    /\ \E i \in Items :
          /\ MayClaim(i, {a})
          /\ job' = [job EXCEPT ![a] = [NoJob EXCEPT !.op = "claim", !.item = i,
                        !.claims = [claims EXCEPT ![i] = Renewed({a})]]]
    /\ Goto(a, "claimSave")
    /\ UNCHANGED << files, now, history, kills >>

\* release_claim asks for the owner unless it is forced; a transfer goes on to
\* claim the ticket for the heir.
ReleaseClaim(a) ==
    /\ Command(a) /\ MayLoad({"claimSave"})
    /\ \E i \in Items, force \in BOOLEAN, heir \in {{}} \cup {{b} : b \in Agents \ {a}} :
          /\ claims[i] # NoClaim
          /\ claims[i].owner = {a} \/ force
          /\ job' = [job EXCEPT ![a] = [NoJob EXCEPT !.op = "release", !.item = i,
                        !.heir = heir, !.claims = [claims EXCEPT ![i] = NoClaim]]]
    /\ Goto(a, "claimSave")
    /\ UNCHANGED << files, now, history, kills >>

SaveClaims(a) ==
    LET i == job[a].item
        claim == job[a].claims[i] IN
    /\ At(a, "claimSave")
    /\ claims' = job[a].claims
    /\ promised' = [b \in Agents |->
          IF claim = NoClaim /\ claims[i].owner = {b} THEN [promised[b] EXCEPT ![i] = 0]
          ELSE IF claim.owner = {b} THEN [promised[b] EXCEPT ![i] = claim.until]
          ELSE promised[b]]
    /\ IF job[a].heir # {}
       THEN Goto(a, "transfer") /\ job' = [job EXCEPT ![a].claims = NoJob.claims]
       ELSE Exit(a)
    /\ UNCHANGED << intake, leases, states, runs, report, now, acted, bounds >>

\* The second half of a transfer finds the ticket free, or claimed in between.
Transfer(a) ==
    LET i == job[a].item IN
    /\ At(a, "transfer") /\ MayLoad({"claimSave"})
    /\ IF MayClaim(i, job[a].heir)
       THEN /\ job' = [job EXCEPT ![a].claims = [claims EXCEPT ![i] = Renewed(job[a].heir)],
                                  ![a].heir = {}]
            /\ Goto(a, "claimSave")
       ELSE Exit(a)
    /\ UNCHANGED << files, now, history, bounds >>

Operate(a) ==
    \/ BuildIntake(a) \/ Close(a) \/ Claim(a) \/ ReleaseClaim(a) \/ SaveClaims(a) \/ Transfer(a)

-------------------------------------------------------------------------------
Kill(a) ==
    /\ ~ At(a, "idle")
    /\ kills < MaxKills
    /\ kills' = kills + 1
    /\ Exit(a)
    /\ UNCHANGED << files, now, history, commands >>

Tick ==
    /\ now < MaxTime
    /\ now' = now + 1
    /\ UNCHANGED << files, pc, job, history, bounds >>

Next ==
    \/ \E a \in Agents : Exec(a) \/ Operate(a) \/ Kill(a)
    \/ Tick

Spec == Init /\ [][Next]_vars

-------------------------------------------------------------------------------
\* Types of every variable.
TypeOK ==
    /\ intake \in [Items -> [open : BOOLEAN, ver : 1 .. MaxVersion]]
    /\ leases \in [Items -> [run : SUBSET Agents, until : Nat]]
    /\ claims \in [Items -> [owner : SUBSET Agents, until : Nat]]
    /\ states \in [Items -> [state : States, fp : Nat]]
    /\ report \subseteq Items
    /\ pc \in [Agents -> {"idle", "pick", "leaseLoad", "leaseSave", "lookup", "load", "save",
                          "record", "act", "relLoad", "leaseFree", "claimSave", "transfer"}]
    /\ \A a \in Agents : job[a].item \in Items \cup {NoItem} /\ job[a].todo \subseteq Items
    /\ now \in Nat
    /\ acted \in [Items -> Nat]

\* The output of a ticket is written at most once, whatever leases expire, whatever
\* executors are killed after they wrote and before they said so, and however often
\* the command is run again: validate_transition refuses a second IN_PROGRESS, and
\* no command takes a ticket back.
ActedOnce == \A i \in Items : acted[i] <= 1

\* An executor is working on the ticket while its lease has not run out.
Holds(a, i) ==
    /\ job[a].op = "exec" /\ job[a].item = i
    /\ pc[a] \in {"lookup", "load", "save", "record", "act", "relLoad", "leaseFree"}
    /\ now < job[a].until

\* Two executors never hold the lease of one ticket together (work_item_leases.py).
LeaseExclusive ==
    \A a, b \in Agents, i \in Items : Holds(a, i) /\ Holds(b, i) => a = b

\* A ticket that the store says is APPLIED has its output, and its run is logged
\* STARTED, even if the executor was killed in between or ran into its lease.
AppliedIsReal ==
    \A i \in Items : states[i].state = "APPLIED" =>
        /\ acted[i] = 1
        /\ [item |-> i, state |-> "IN_PROGRESS", result |-> "STARTED"] \in runs

\* An agent that was told it has the claim of a ticket is its recorded owner until the
\* claim runs out, is released or is taken away by force (work_item_claims.py).
ClaimKept ==
    \A a \in Agents, i \in Items : now < promised[a][i] => claims[i].owner = {a}

\* A ticket IN_PROGRESS is being worked on, unless its executor was killed: "Active
\* execution in progress." (orchestrator/state_machine.v1.json)
InProgressIsActive ==
    \A i \in Items : states[i].state = "IN_PROGRESS" =>
        \/ kills > 0
        \/ \E a \in Agents : job[a].op = "exec" /\ job[a].item = i

\* The lifecycle of each ticket as TicketLifecycle sees it.
Phase(i) ==
    CASE states[i].state = "" -> "WAITING"
      [] states[i].state = "IN_PROGRESS" /\ acted[i] = 0 -> "STARTED"
      [] states[i].state = "IN_PROGRESS" /\ acted[i] > 0 -> "ACTED"
      [] OTHER -> states[i].state

Lifecycle == INSTANCE TicketLifecycle WITH phase <- [i \in Items |-> Phase(i)]

\* The commands, their leases and their stores implement the lifecycle of a ticket:
\* no update of the store is lost and none moves a ticket back.
ImplementsTicketLifecycle == Lifecycle!Spec

===============================================================================
