--------------------------- MODULE NodeLifecycle ----------------------------
(***************************************************************************)
(* The status of the fleet's nodes: the state machine of                   *)
(* src/src/fleet/node-state-machine.ts, DrizzleNodeRepository.transition   *)
(* that enforces it, and everyone who calls it: agent registration, the    *)
(* heartbeat handler, the heartbeat watchdog, the orphan cleaner, drain    *)
(* and cancel-drain, the recovery orchestrator (started by the watchdog    *)
(* and by an administrator) and the provisioner.                           *)
(*                                                                         *)
(* transition() reads the row, validates the move and then updates it      *)
(* under the condition that the status is still the one read; between the  *)
(* two every other actor may run.  Every actor has at most one call in     *)
(* flight per node.  What recovery, drain and cleaning do to the bots is   *)
(* one step here.                                                          *)
(***************************************************************************)
EXTENDS Integers, Sequences, FiniteSets, SequencesExt

CONSTANTS
    Nodes,
    Teams,          \* who may be at work together
    MaxCrashes      \* bound on deaths of the platform process

\* "late" is no actor: with it a heartbeat's handler may outlive its agent's
\* process.
AllActors == {"watchdog", "heartbeat", "registrar", "cleaner", "drainer",
              "cancel", "auto", "manual", "provisioner"}

ASSUME NodeLifecycleAssumption ==
    /\ IsFiniteSet(Nodes)
    /\ \A t \in Teams : t \subseteq AllActors \cup {"late"}
    /\ MaxCrashes \in Nat

VARIABLES
    team,       \* who is at work in this behaviour
    status,     \* nodes.status, "none" while there is no row
    age,        \* time since lastHeartbeatAt: never set, fresh, 90 s, 300 s
    pc,         \* what each actor is doing to each node
    from,       \* the status transition() has read and validated
    queue,      \* rest of the list of the watchdog's current check
    agent,      \* is the agent's process running
    dirty,      \* ghost: dead since its containers were last cleaned
    heard,      \* ghost: a heartbeat since the watchdog's list: no, reading, yes
    promised,   \* ghost: the watchdog called onRecovery and no recovery ran since
    crashes

work == <<pc, from, queue>>
ghosts == <<dirty, heard, promised>>
vars == <<team, status, age, work, agent, ghosts, crashes>>

Statuses == {"provisioning", "active", "unhealthy", "offline", "recovering",
             "returning", "draining", "failed"}
Dead == {"offline", "recovering", "failed"}
Never == -1
Fresh == 0
Missed == 1
Silent == 2

\* Mutation: an offline node may come back without cleaning.
GraphWithShortcut ==
    {<<"provisioning", "active">>, <<"provisioning", "failed">>,
     <<"active", "unhealthy">>, <<"active", "draining">>,
     <<"unhealthy", "active">>, <<"unhealthy", "offline">>,
     <<"offline", "recovering">>, <<"offline", "returning">>, <<"offline", "active">>,
     <<"recovering", "offline">>, <<"recovering", "returning">>,
     <<"returning", "active">>, <<"returning", "failed">>,
     <<"draining", "offline">>, <<"draining", "active">>,
     <<"failed", "returning">>}

\* VALID_TRANSITIONS
Graph ==
    {<<"provisioning", "active">>, <<"provisioning", "failed">>,
     <<"active", "unhealthy">>, <<"active", "draining">>,
     <<"unhealthy", "active">>, <<"unhealthy", "offline">>,
     <<"offline", "recovering">>, <<"offline", "returning">>,
     <<"recovering", "offline">>, <<"recovering", "returning">>,
     <<"returning", "active">>, <<"returning", "failed">>,
     <<"draining", "offline">>, <<"draining", "active">>,
     <<"failed", "returning">>}

\* The calls of transition(): its target status, and where the caller goes on
\* when it returns and when it throws.
Calls == [
    wdOffline    |-> [to |-> "offline",    ok |-> "wdRecover",    err |-> "wdAbort"],
    wdUnhealthy  |-> [to |-> "unhealthy",  ok |-> "idle",         err |-> "wdAbort"],
    hbActive     |-> [to |-> "active",     ok |-> "hbUpdate",     err |-> "hbUpdate"],
    regActive    |-> [to |-> "active",     ok |-> "idle",         err |-> "idle"],
    regReturning |-> [to |-> "returning",  ok |-> "idle",         err |-> "idle"],
    clActive     |-> [to |-> "active",     ok |-> "idle",         err |-> "idle"],
    drDraining   |-> [to |-> "draining",   ok |-> "drMigrate",    err |-> "idle"],
    drOffline    |-> [to |-> "offline",    ok |-> "idle",         err |-> "idle"],
    cdActive     |-> [to |-> "active",     ok |-> "idle",         err |-> "idle"],
    rcOffline    |-> [to |-> "offline",    ok |-> "rcRecovering", err |-> "rcFailed"],
    rcRecovering |-> [to |-> "recovering", ok |-> "rcTenants",    err |-> "rcFailed"],
    rcRollback   |-> [to |-> "offline",    ok |-> "idle",         err |-> "idle"],
    rcDone       |-> [to |-> "offline",    ok |-> "idle",         err |-> "idle"]]

Steps == DOMAIN Calls \cup
    {"idle", "wdRecover", "wdAbort", "hbStatus", "hbUpdate", "regRead", "regInsert",
     "regUpdate", "clScan", "drMigrate", "rcTenants", "rcFailed", "pvCreate"}

NotRead == "none"

Init ==
    /\ team \in Teams
    /\ status = [n \in Nodes |-> "none"]
    /\ age = [n \in Nodes |-> Never]
    /\ pc = [n \in Nodes |-> [a \in AllActors |-> "idle"]]
    /\ from = [n \in Nodes |-> [a \in AllActors |-> NotRead]]
    /\ queue = << >>
    /\ agent = [n \in Nodes |-> FALSE]
    /\ dirty = [n \in Nodes |-> FALSE]
    /\ heard = [n \in Nodes |-> "no"]
    /\ promised = [n \in Nodes |-> FALSE]
    /\ crashes = 0

At(n, a, step) == pc[n][a] = step
Goto(n, a, step) == pc' = [pc EXCEPT ![n][a] = step]

\* An actor takes up work on a node.
Begin(n, a, step) ==
    /\ a \in team
    /\ At(n, a, "idle")
    /\ Goto(n, a, step)
    /\ UNCHANGED <<team, status, age, from, queue, agent, ghosts, crashes>>

-----------------------------------------------------------------------------
(* DrizzleNodeRepository.transition                                         *)

\* The row is read and the move is validated.
TransitionRead(n, a) ==
    /\ pc[n][a] \in DOMAIN Calls /\ from[n][a] = NotRead
    /\ LET call == Calls[pc[n][a]] IN
         IF <<status[n], call.to>> \in Graph
           THEN from' = [from EXCEPT ![n][a] = status[n]] /\ UNCHANGED pc
           ELSE Goto(n, a, call.err) /\ UNCHANGED from
    /\ UNCHANGED <<team, status, age, queue, agent, ghosts, crashes>>

\* A status is written.
Write(n, to) ==
    /\ status' = [status EXCEPT ![n] = to]
    /\ dirty' = [dirty EXCEPT ![n] = @ \/ to \in Dead]

\* Mutation: the update does not ask for the status that was read.
TransitionOverwrites(n, a) ==
    /\ pc[n][a] \in DOMAIN Calls /\ from[n][a] # NotRead
    /\ from' = [from EXCEPT ![n][a] = NotRead]
    /\ Write(n, Calls[pc[n][a]].to)
    /\ Goto(n, a, Calls[pc[n][a]].ok)
    /\ UNCHANGED <<team, age, queue, agent, heard, promised, crashes>>

\* UPDATE ... WHERE status = <the status read>, and the audit row with it (not modelled).
TransitionWrite(n, a) ==
    /\ pc[n][a] \in DOMAIN Calls /\ from[n][a] # NotRead
    /\ from' = [from EXCEPT ![n][a] = NotRead]
    /\ LET call == Calls[pc[n][a]] IN
         IF status[n] = from[n][a]
           THEN /\ Write(n, call.to)
                /\ Goto(n, a, call.ok)
           ELSE Goto(n, a, call.err) /\ UNCHANGED <<status, dirty>>
    /\ UNCHANGED <<team, age, queue, agent, heard, promised, crashes>>

-----------------------------------------------------------------------------
(* The agent and its registration                                           *)

\* The agent's process starts; it registers before it connects.
AgentBoots(n) ==
    /\ ~agent[n] /\ At(n, "registrar", "idle") /\ "registrar" \in team
    /\ "late" \in team \/ At(n, "heartbeat", "idle")
    /\ agent' = [agent EXCEPT ![n] = TRUE]
    /\ Goto(n, "registrar", "regRead")
    /\ UNCHANGED <<team, status, age, from, queue, ghosts, crashes>>

AgentDies(n) ==
    /\ agent[n]
    /\ agent' = [agent EXCEPT ![n] = FALSE]
    /\ UNCHANGED <<team, status, age, work, ghosts, crashes>>

\* register(): look for the row; a dead node is to return, a new one is
\* inserted, for any other the status is left alone.
RegisterRead(n) ==
    /\ At(n, "registrar", "regRead")
    /\ Goto(n, "registrar",
            CASE status[n] = "none" -> "regInsert"
              [] status[n] \in Dead -> "regUpdate"
              [] OTHER -> "idle")
    /\ UNCHANGED <<team, status, age, from, queue, agent, ghosts, crashes>>

RegisterInsert(n) ==
    /\ At(n, "registrar", "regInsert")
    /\ status[n] = "none"
    /\ status' = [status EXCEPT ![n] = "provisioning"]
    /\ age' = [age EXCEPT ![n] = Fresh]
    /\ Goto(n, "registrar", "regActive")
    /\ UNCHANGED <<team, from, queue, agent, ghosts, crashes>>

RegisterUpdate(n) ==
    /\ At(n, "registrar", "regUpdate")
    /\ Goto(n, "registrar", "regReturning")
    /\ UNCHANGED <<team, status, age, from, queue, agent, ghosts, crashes>>

-----------------------------------------------------------------------------
(* Heartbeats: NodeConnectionManager.processHeartbeat                       *)

\* Time passes without a heartbeat.
Age(n) ==
    /\ age[n] \in {Fresh, Missed}
    /\ age' = [age EXCEPT ![n] = @ + 1]
    /\ UNCHANGED <<team, status, work, agent, ghosts, crashes>>

HeartbeatArrives(n) ==
    /\ agent[n] /\ At(n, "registrar", "idle")
    /\ Begin(n, "heartbeat", "hbStatus")

\* getStatus: an unhealthy node is to become active, for a returning one the
\* cleaner is started unless it is running, an unknown one is ignored.
HeartbeatStatus(n) ==
    /\ At(n, "heartbeat", "hbStatus")
    /\ pc' = [pc EXCEPT
         ![n]["heartbeat"] = CASE status[n] = "none" -> "idle"
                               [] status[n] = "unhealthy" -> "hbActive"
                               [] OTHER -> "hbUpdate",
         ![n]["cleaner"] = IF status[n] = "returning" /\ "cleaner" \in team /\ @ = "idle"
                             THEN "clScan" ELSE @]
    /\ heard' = [heard EXCEPT ![n] = "reading"]
    /\ UNCHANGED <<team, status, age, from, queue, agent, dirty, promised, crashes>>

\* updateHeartbeat
HeartbeatUpdate(n) ==
    /\ At(n, "heartbeat", "hbUpdate")
    /\ age' = [age EXCEPT ![n] = Fresh]
    /\ heard' = [heard EXCEPT ![n] = IF @ = "reading" THEN "yes" ELSE @]
    /\ Goto(n, "heartbeat", "idle")
    /\ UNCHANGED <<team, status, from, queue, agent, dirty, promised, crashes>>

\* OrphanCleaner.clean up to its transition: the containers the heartbeat
\* named are compared with the assignments and the orphans stopped.
CleanerScan(n) ==
    /\ At(n, "cleaner", "clScan")
    /\ dirty' = [dirty EXCEPT ![n] = @ /\ status[n] # "returning"]
    /\ Goto(n, "cleaner", "clActive")
    /\ UNCHANGED <<team, status, age, from, queue, agent, heard, promised, crashes>>

-----------------------------------------------------------------------------
(* HeartbeatWatchdog.check                                                  *)

Listed == {n \in Nodes : status[n] \in {"active", "unhealthy"}}

WatchdogIdle == \A n \in Nodes : At(n, "watchdog", "idle")

\* list(["active", "unhealthy"])
WatchdogList ==
    /\ "watchdog" \in team /\ queue = << >> /\ WatchdogIdle
    /\ Listed # {}
    /\ \E order \in SetToSeqs(Listed) :
          queue' = [i \in DOMAIN order |->
                       [node |-> order[i], status |-> status[order[i]], age |-> age[order[i]]]]
    /\ heard' = [n \in Nodes |-> "no"]
    /\ UNCHANGED <<team, status, age, pc, from, agent, dirty, promised, crashes>>

\* Mutation: an unhealthy node is not looked at again.
WatchdogVisitForgets ==
    /\ queue # << >> /\ WatchdogIdle
    /\ queue' = Tail(queue)
    /\ LET row == Head(queue) IN
         Goto(row.node, "watchdog",
              IF row.age \in {Missed, Silent} /\ row.status = "active" THEN "wdUnhealthy" ELSE "idle")
    /\ UNCHANGED <<team, status, age, from, agent, ghosts, crashes>>

\* The next node of the list, judged by what the list said of it.
WatchdogVisit ==
    /\ queue # << >> /\ WatchdogIdle
    /\ queue' = Tail(queue)
    /\ LET row == Head(queue) IN
         Goto(row.node, "watchdog",
              CASE row.age = Silent /\ row.status = "unhealthy" -> "wdOffline"
                [] row.age \in {Missed, Silent} /\ row.status = "active" -> "wdUnhealthy"
                [] OTHER -> "idle")
    /\ UNCHANGED <<team, status, age, from, agent, ghosts, crashes>>

\* onRecovery: triggerRecovery is called and not awaited.
WatchdogRecovers(n) ==
    /\ At(n, "watchdog", "wdRecover")
    /\ pc' = [pc EXCEPT ![n]["watchdog"] = "idle",
                        ![n]["auto"] = IF @ = "idle" /\ "auto" \in team THEN "rcOffline" ELSE @]
    /\ promised' = [promised EXCEPT ![n] = TRUE]
    /\ UNCHANGED <<team, status, age, from, queue, agent, dirty, heard, crashes>>

\* transition() threw: the whole check ends.
WatchdogAborts(n) ==
    /\ At(n, "watchdog", "wdAbort")
    /\ Goto(n, "watchdog", "idle")
    /\ queue' = << >>
    /\ UNCHANGED <<team, status, age, from, agent, ghosts, crashes>>

-----------------------------------------------------------------------------
(* RecoveryOrchestrator.triggerRecovery, drain, provisioning                *)

ManualRecovery(n) == status[n] # "none" /\ Begin(n, "manual", "rcOffline")

\* The tenants are listed and the event created, and each tenant is recovered;
\* if the first part throws the node is rolled back to offline.
RecoverTenants(n, a) ==
    /\ At(n, a, "rcTenants")
    /\ \E step \in {"rcDone", "rcRollback"} : Goto(n, a, step)
    /\ promised' = [promised EXCEPT ![n] = FALSE]
    /\ UNCHANGED <<team, status, age, from, queue, agent, dirty, heard, crashes>>

\* triggerRecovery rejects: the caller logs it.
RecoveryFails(n, a) ==
    /\ At(n, a, "rcFailed")
    /\ Goto(n, a, "idle")
    /\ UNCHANGED <<team, status, age, from, queue, agent, ghosts, crashes>>

Drain(n) == status[n] # "none" /\ Begin(n, "drainer", "drDraining")

\* All bots migrated, or some could not be: then the node stays draining.
DrainMigrates(n) ==
    /\ At(n, "drainer", "drMigrate")
    /\ \E step \in {"drOffline", "idle"} : Goto(n, "drainer", step)
    /\ UNCHANGED <<team, status, age, from, queue, agent, ghosts, crashes>>

CancelDrain(n) == status[n] # "none" /\ Begin(n, "cancel", "cdActive")

\* NodeProvisioner.provision: the placeholder row.
Provision(n) ==
    /\ "provisioner" \in team /\ At(n, "provisioner", "idle")
    /\ status[n] = "none" /\ ~agent[n] /\ At(n, "registrar", "idle")
    /\ status' = [status EXCEPT ![n] = "provisioning"]
    /\ Goto(n, "provisioner", "pvCreate")
    /\ UNCHANGED <<team, age, from, queue, agent, ghosts, crashes>>

\* The droplet is up and waits for its agent.
ProvisionSucceeds(n) ==
    /\ At(n, "provisioner", "pvCreate")
    /\ Goto(n, "provisioner", "idle")
    /\ UNCHANGED <<team, status, age, from, queue, agent, ghosts, crashes>>

\* markFailed writes the status without transition().
ProvisionFails(n) ==
    /\ At(n, "provisioner", "pvCreate")
    /\ Write(n, "failed")
    /\ Goto(n, "provisioner", "idle")
    /\ UNCHANGED <<team, age, from, queue, agent, heard, promised, crashes>>

\* The platform's process dies: the rows stay, everything in flight is gone.
Crash ==
    /\ crashes < MaxCrashes
    /\ crashes' = crashes + 1
    /\ pc' = [n \in Nodes |-> [a \in AllActors |-> "idle"]]
    /\ from' = [n \in Nodes |-> [a \in AllActors |-> NotRead]]
    /\ queue' = << >>
    /\ UNCHANGED <<team, status, age, agent, ghosts>>

-----------------------------------------------------------------------------

Transition(n) == \E a \in team \cap AllActors : TransitionRead(n, a) \/ TransitionWrite(n, a)

Continue(n) ==
    \/ Transition(n)
    \/ RegisterRead(n) \/ RegisterInsert(n) \/ RegisterUpdate(n)
    \/ HeartbeatStatus(n) \/ HeartbeatUpdate(n) \/ CleanerScan(n)
    \/ WatchdogRecovers(n) \/ WatchdogAborts(n)
    \/ \E a \in {"auto", "manual"} : RecoverTenants(n, a) \/ RecoveryFails(n, a)
    \/ DrainMigrates(n) \/ ProvisionSucceeds(n)

Next ==
    \/ \E n \in Nodes :
         \/ AgentBoots(n) \/ AgentDies(n) \/ HeartbeatArrives(n) \/ Age(n)
         \/ Continue(n)
         \/ ManualRecovery(n) \/ Drain(n) \/ CancelDrain(n)
         \/ Provision(n) \/ ProvisionFails(n)
    \/ WatchdogList \/ WatchdogVisit \/ Crash

Spec == Init /\ [][Next]_vars

\* Promises are settled one by one (each actor's step is fair), a running
\* agent keeps sending heartbeats, time passes, and the watchdog's timer keeps
\* firing.
Fairness ==
    /\ \A n \in Nodes :
         /\ \A a \in AllActors : WF_vars(a \in team /\ (TransitionRead(n, a) \/ TransitionWrite(n, a)))
         /\ WF_vars(RegisterRead(n) \/ RegisterInsert(n) \/ RegisterUpdate(n))
         /\ WF_vars(HeartbeatStatus(n) \/ HeartbeatUpdate(n))
         /\ WF_vars(CleanerScan(n))
         /\ WF_vars(WatchdogRecovers(n) \/ WatchdogAborts(n))
         /\ \A a \in {"auto", "manual"} : WF_vars(RecoverTenants(n, a) \/ RecoveryFails(n, a))
         /\ WF_vars(DrainMigrates(n))
         /\ WF_vars(ProvisionSucceeds(n))
         /\ WF_vars(HeartbeatArrives(n))
         /\ WF_vars(Age(n))
    /\ WF_vars(WatchdogList)
    /\ WF_vars(WatchdogVisit)

FairSpec == Spec /\ Fairness

-----------------------------------------------------------------------------
(* Properties                                                               *)

\* Every variable keeps its type, and a status that transition() has read is
\* one from which its call is allowed.
TypeOK ==
    /\ team \in Teams
    /\ status \in [Nodes -> Statuses \cup {"none"}]
    /\ age \in [Nodes -> {Never, Fresh, Missed, Silent}]
    /\ pc \in [Nodes -> [AllActors -> Steps]]
    /\ from \in [Nodes -> [AllActors -> Statuses \cup {NotRead}]]
    /\ \A i \in DOMAIN queue : queue[i].node \in Nodes
    /\ agent \in [Nodes -> BOOLEAN] /\ dirty \in [Nodes -> BOOLEAN]
    /\ heard \in [Nodes -> {"no", "reading", "yes"}] /\ promised \in [Nodes -> BOOLEAN]
    /\ crashes \in 0..MaxCrashes
    /\ \A n \in Nodes, a \in AllActors :
         from[n][a] # NotRead =>
            pc[n][a] \in DOMAIN Calls /\ <<from[n][a], Calls[pc[n][a]].to>> \in Graph

\* "INodeRepository.transition() enforces this graph": whatever the callers
\* race for, a node's status only ever moves along an edge, but for markFailed,
\* which asks for none, on a node that cancel-drain put into service meanwhile.
GraphRespected ==
    [][\A n \in Nodes : status[n] # "none" /\ status'[n] # status[n]
            => \/ <<status[n], status'[n]>> \in Graph
               \/ At(n, "provisioner", "pvCreate") /\ status'[n] = "failed" /\ "cancel" \in team]_status

\* "'returning' is the ONLY path from dead states back to 'active'": a node in
\* service has been cleaned since it was last dead, unless cancel-drain was
\* called, which asks for no draining node, or a heartbeat was judged before
\* its agent's death and applied after it.
CleanedBeforeService ==
    \A n \in Nodes :
        status[n] \in {"active", "unhealthy", "draining"} /\ dirty[n] => team \cap {"cancel", "late"} # {}

\* Who serves is clean, and every move in flight is one of the graph's.
NodesSafe == TypeOK /\ CleanedBeforeService

\* The watchdog never takes offline a node whose heartbeat came in and was
\* recorded after the watchdog had listed the node as silent.
OfflineIsSilent ==
    [][\A n \in Nodes :
         status[n] = "unhealthy" /\ status'[n] = "offline"
            /\ At(n, "watchdog", "wdOffline") /\ pc'[n]["watchdog"] = "wdRecover"
         => heard[n] # "yes"]_vars

\* The status of a node never leaves the graph, whoever races for it, and never
\* becomes offline on the strength of an outdated list.
MovesRespected == GraphRespected /\ OfflineIsSilent

\* A node that has come back and whose agent keeps running is in service again.
ReturningServes ==
    \A n \in Nodes :
        (status[n] = "returning" /\ agent[n]) ~> (status[n] # "returning" \/ ~agent[n])

\* A node in service that has been heard of and whose agent stays dead is
\* taken offline, although a check whose transition() loses a race is abandoned.
SilentIsTakenOffline ==
    \A n \in Nodes :
        ("watchdog" \in team /\ status[n] = "active" /\ age[n] # Never /\ ~agent[n])
            ~> (status[n] = "offline" \/ agent[n])

\* Each node ends where its agent is: back in service, or offline.
NodesSettle == ReturningServes /\ SilentIsTakenOffline

\* "after 5 minutes, mark node as offline and trigger recovery": the recovery
\* the watchdog triggers runs, unless the node comes back first.
RecoveryRuns == \A n \in Nodes : promised[n] ~> (~promised[n] \/ status[n] = "returning")
=============================================================================
