------------------------------ MODULE Capacity ------------------------------
(***************************************************************************)
(* Machines bought from the cloud provider and given back.                 *)
(*                                                                         *)
(* CapacityPolicy.evaluate and an administrator provision and destroy      *)
(* plain nodes through NodeProvisioner, an administrator provisions and    *)
(* destroys GPU nodes through GpuNodeProvisioner, a GPU droplet reports    *)
(* its own stages, and InferenceWatchdog polls, reboots and gives up GPU   *)
(* nodes.  Every call to the provider may fail, and the answer to the      *)
(* order of a droplet may be lost.  Audit entries and notifications, whose *)
(* errors are swallowed, are left out.                                     *)
(***************************************************************************)
EXTENDS Integers, Sequences, FiniteSets, FiniteSetsExt, SequencesExt

CONSTANTS
    Plain, Gpus,        \* node ids
    Buyers,             \* who calls the provisioners: policy, admin, gpuadmin
    Checks,             \* invocations of the watchdog's check that may overlap
    Shelf,              \* bots a node has room for
    minNodes, rebootThreshold,
    Deployments,        \* the situations to start from and who acts, NoDeployment among them
    MaxSlips            \* bound on failing calls

NoDeployment == [nodes |-> {}, used |-> 0, gpus |-> {}, acts |-> {}]

ASSUME CapacityAssumption ==
    /\ NoDeployment \in Deployments /\ Plain \cap Gpus = {} /\ IsFiniteSet(Gpus)
    /\ \A x \in Deployments : x.nodes \subseteq Plain /\ x.gpus \subseteq Gpus /\ x.used \in Nat
    /\ Shelf \in Nat \ {0} /\ minNodes \in Nat /\ rebootThreshold \in Nat \ {0} /\ MaxSlips \in Nat

VARIABLES
    deploy,
    rows,       \* nodes and gpu_nodes
    droplets,   \* the droplets that exist, by the node they were ordered for
    buyer,      \* the calls of provision and destroy
    memo,       \* lastScaleUpAt, lastScaleDownAt and lowUsageSince of the policy
    answering,  \* GPU nodes one of whose services answers
    states,     \* nodeStates of the watchdog
    checks,     \* check() invocations
    slips,
    excused,    \* ghost: droplets a failed delete, a lost answer or a destroy under provision left behind
    overlapped, \* ghost: two checks ran at the same time
    seenUp,     \* ghost: GPU nodes that answered a poll since their last reboot
    gaveUp      \* ghost: nodes marked failed although they were in seenUp

capacityVars == <<deploy, rows, droplets, buyer, memo, answering, states, checks, slips,
                  excused, overlapped, seenUp, gaveUp>>
watching == <<answering, states, checks, overlapped, seenUp, gaveUp>>

NoRow == [status |-> "none", droplet |-> FALSE, host |-> FALSE, cap |-> 0, used |-> 0]

\* DrizzleNodeRepository.insertProvisioning, DrizzleGpuNodeRepository.insert
insertProvisioning == [NoRow EXCEPT !.status = "provisioning"]

\* updateProvisionData and updateHost.  The first changes nothing when the row
\* is gone.
updateProvisionData(row) ==
    IF row.status = "none" THEN row
    ELSE [row EXCEPT !.droplet = TRUE, !.host = TRUE, !.cap = Shelf]
updateHost(row) == [row EXCEPT !.droplet = TRUE, !.host = TRUE]

\* DrizzleNodeRepository.markFailed; updateStatus with setError
markNodeFailed(row) == IF row.status = "none" THEN row ELSE [row EXCEPT !.status = "failed"]

Idle == [pc |-> "idle", m |-> "none"]
NoState == [downs |-> 0, reboot |-> "no"]
NoCheck == [pc |-> "idle", todo |-> << >>, health |-> "none", status |-> "none"]

CapacityInit ==
    /\ deploy \in Deployments
    /\ rows = [m \in Plain \cup Gpus |->
                 CASE m \in deploy.nodes -> [status |-> "active", droplet |-> TRUE, host |-> TRUE,
                                             cap |-> Shelf, used |-> deploy.used]
                   [] m \in deploy.gpus -> [NoRow EXCEPT !.status = "active", !.droplet = TRUE, !.host = TRUE]
                   [] OTHER -> NoRow]
    /\ droplets = deploy.nodes \cup deploy.gpus
    /\ buyer = [p \in Buyers |-> Idle]
    /\ memo = [up |-> FALSE, down |-> FALSE, low |-> "no"]
    /\ answering = deploy.gpus /\ states = [g \in Gpus |-> NoState]
    /\ checks = [c \in Checks |-> NoCheck]
    /\ slips = 0 /\ excused = {} /\ overlapped = FALSE /\ seenUp = deploy.gpus /\ gaveUp = {}

Slip == slips < MaxSlips /\ slips' = slips + 1
Steps(p, pc, step) == buyer[p].pc = pc /\ buyer' = [buyer EXCEPT ![p].pc = step]
Ends(p) == buyer' = [buyer EXCEPT ![p] = Idle]

-----------------------------------------------------------------------------
\* CapacityPolicy.evaluate

activeNodes == {m \in Plain : rows[m].status = "active" /\ rows[m].cap > 0}
Total(field(_)) == MapThenSumSet(LAMBDA m : field(rows[m]), activeNodes)
used == Total(LAMBDA r : r.used)
capacity == Total(LAMBDA r : r.cap)

ScaleUp == used * 100 >= 95 * capacity
ScaleDown == used * 100 < 40 * capacity

\* insertProvisioning for a fresh node id; the call then talks to the provider.
provision(p, ids) ==
    \E m \in ids :
       /\ rows[m] = NoRow /\ m \notin droplets
       /\ rows' = [rows EXCEPT ![m] = insertProvisioning]
       /\ buyer' = [buyer EXCEPT ![p] = [pc |-> "create", m |-> m]]

\* destroy of the first empty node; its own checks come later, on a fresh read
beginDestroy(p, m) == buyer' = [buyer EXCEPT ![p] = [pc |-> "read", m |-> m]]

evaluate(p) ==
    /\ p = "policy" /\ "policy" \in deploy.acts /\ buyer[p] = Idle
    /\ CASE activeNodes = {} ->
              memo' = [memo EXCEPT !.low = "no"] /\ UNCHANGED <<rows, buyer>>
         [] activeNodes # {} /\ ScaleUp ->
              IF memo.up THEN memo' = [memo EXCEPT !.low = "no"] /\ UNCHANGED <<rows, buyer>>
              ELSE /\ provision(p, Plain)
                   /\ memo' = [memo EXCEPT !.low = "no", !.up = TRUE]
         [] activeNodes # {} /\ ScaleDown ->
              LET empty == {m \in activeNodes : rows[m].used = 0} IN
              IF memo.low = "sustained" /\ ~memo.down /\ Cardinality(activeNodes) > minNodes /\ empty # {}
              THEN /\ \E m \in empty : beginDestroy(p, m)
                   /\ memo' = [memo EXCEPT !.down = TRUE]
                   /\ UNCHANGED rows
              ELSE memo' = [memo EXCEPT !.low = IF @ = "no" THEN "recent" ELSE @] /\ UNCHANGED <<rows, buyer>>
         [] OTHER -> memo' = [memo EXCEPT !.low = "no"] /\ UNCHANGED <<rows, buyer>>
    /\ UNCHANGED <<deploy, droplets, slips, excused, watching>>

\* The cooldowns and the time of low usage run out.
TimePasses ==
    /\ "policy" \in deploy.acts
    /\ memo' = [up |-> FALSE, down |-> FALSE, low |-> IF memo.low = "recent" THEN "sustained" ELSE memo.low]
    /\ memo' # memo
    /\ UNCHANGED <<deploy, rows, droplets, buyer, slips, excused, watching>>

\* The heartbeat of a node: updateHeartbeat, for a row that is there
updateHeartbeat(m) ==
    /\ "policy" \in deploy.acts /\ m \in droplets /\ rows[m].status = "active"
    /\ \E n \in 0..Shelf : rows' = [rows EXCEPT ![m].used = n]
    /\ UNCHANGED <<deploy, droplets, buyer, memo, slips, excused, watching>>

\* POST /:nodeId/cancel-drain: the transition to active, which the graph also
\* allows for a node that is still provisioning
cancelDrain(m) ==
    /\ "policy" \in deploy.acts /\ m \in Plain /\ rows[m].status = "provisioning"
    /\ rows' = [rows EXCEPT ![m].status = "active"]
    /\ UNCHANGED <<deploy, droplets, buyer, memo, slips, excused, watching>>

\* POST / and DELETE /:nodeId of the administrator's node and GPU routes.  The
\* GPU routes refuse to destroy a node that is being provisioned.
AdminOrders(p, ids) ==
    /\ p \in deploy.acts /\ p # "policy" /\ buyer[p] = Idle
    /\ provision(p, ids)
    /\ UNCHANGED <<deploy, droplets, memo, slips, excused, watching>>

AdminDestroys(p, m) ==
    /\ p \in deploy.acts /\ p # "policy" /\ buyer[p] = Idle
    /\ rows[m] # NoRow /\ (m \in Gpus => rows[m].status # "provisioning")
    /\ beginDestroy(p, m)
    /\ UNCHANGED <<deploy, rows, droplets, memo, slips, excused, watching>>

-----------------------------------------------------------------------------
\* provision of NodeProvisioner and GpuNodeProvisioner

\* createDroplet: made, refused, or made with the answer lost.  Only the plain
\* provisioner knows something to clean up, once it has an id.
createNode(p) ==
    \/ /\ Steps(p, "create", "wait")
       /\ droplets' = droplets \cup {buyer[p].m}
       /\ UNCHANGED <<slips, excused>>
    \/ /\ Steps(p, "create", "fail") /\ Slip
       /\ \/ UNCHANGED <<droplets, excused>>
          \/ droplets' = droplets \cup {buyer[p].m} /\ excused' = excused \cup {buyer[p].m}

afterFailure(m) == IF m \in Gpus THEN "fail" ELSE "clean"

\* waitForNodeActive, waitForDropletActive, and the public address
waitForNodeActive(p) ==
    /\ UNCHANGED <<droplets, excused>>
    /\ \/ Steps(p, "wait", "store") /\ UNCHANGED slips
       \/ Steps(p, "wait", afterFailure(buyer[p].m)) /\ Slip

\* A GPU droplet whose order fails after it was made is not deleted: its row
\* knows it only from updateHost on.
Provisioning(p) ==
    /\ createNode(p) \/ waitForNodeActive(p)
    /\ UNCHANGED <<deploy, rows, memo, watching>>

StoreData(p) ==
    /\ buyer[p].pc = "store"
    /\ LET m == buyer[p].m IN
       \/ /\ rows' = [rows EXCEPT ![m] = IF m \in Gpus THEN updateHost(@) ELSE updateProvisionData(@)]
          /\ Ends(p) /\ UNCHANGED slips
       \/ /\ Slip /\ Steps(p, "store", afterFailure(m)) /\ UNCHANGED rows
    /\ UNCHANGED <<deploy, droplets, memo, excused, watching>>

\* Mutation: the droplet is left alone when the order fails.
KeepDroplet(p) ==
    /\ Steps(p, "clean", "fail")
    /\ UNCHANGED <<droplets, slips, excused>>

\* The catch block: deleteNode, whose own failure is only logged
deleteOrdered(p) ==
    /\ Steps(p, "clean", "fail")
    /\ \/ droplets' = droplets \ {buyer[p].m} /\ UNCHANGED <<slips, excused>>
       \/ Slip /\ excused' = excused \cup {buyer[p].m} /\ UNCHANGED droplets

CleanUp(p) ==
    /\ deleteOrdered(p)
    /\ UNCHANGED <<deploy, rows, memo, watching>>

ProvisionFails(p) ==
    /\ buyer[p].pc = "fail"
    /\ rows' = [rows EXCEPT ![buyer[p].m] = markNodeFailed(@)]
    /\ Ends(p)
    /\ UNCHANGED <<deploy, droplets, memo, slips, excused, watching>>

Contested(p) == {m \in {buyer[p].m} : \E q \in Buyers \ {p} : buyer[q].m = m}

\* destroy: the row is read again.  drainStatus is never set to "drained", so
\* a node in use is always refused.
destroyReads(p) ==
    /\ buyer[p].pc = "read"
    /\ LET row == rows[buyer[p].m] IN
       IF row = NoRow \/ row.used > 0 THEN Ends(p)
       ELSE Steps(p, "read", IF row.droplet THEN "delete" ELSE "forget")
    /\ excused' = excused \cup Contested(p)
    /\ UNCHANGED <<deploy, rows, droplets, memo, slips, watching>>

\* provider.deleteNode, deleteDroplet: an error of the provider ends the call,
\* and so does a droplet that is no longer there.
deleteNode(p) ==
    /\ buyer[p].pc = "delete"
    /\ \/ buyer[p].m \in droplets /\ Steps(p, "delete", "forget") /\ droplets' = droplets \ {buyer[p].m} /\ UNCHANGED slips
       \/ buyer[p].m \notin droplets /\ Ends(p) /\ UNCHANGED <<droplets, slips>>
       \/ Slip /\ Ends(p) /\ UNCHANGED droplets
    /\ answering' = answering \cap droplets'
    /\ UNCHANGED <<deploy, rows, memo, states, checks, excused, overlapped, seenUp, gaveUp>>

\* nodeRepo.delete.  A node that is being provisioned may be destroyed: its
\* droplet, known only to the call in flight, is then in no row.
forgetNode(p) ==
    /\ buyer[p].pc = "forget"
    /\ rows' = [rows EXCEPT ![buyer[p].m] = NoRow]
    /\ memo' = IF p = "policy" THEN [memo EXCEPT !.low = "no"] ELSE memo
    /\ Ends(p)
    /\ excused' = excused \cup Contested(p)
    /\ seenUp' = seenUp \ {buyer[p].m}
    /\ UNCHANGED <<deploy, droplets, slips, answering, states, checks, overlapped, gaveUp>>

-----------------------------------------------------------------------------
\* POST /internal/gpu/register: a stage reported by the droplet itself.  The
\* last one makes the node active, whatever it was.
reportDone(g) ==
    /\ "gpuadmin" \in deploy.acts /\ g \in droplets /\ rows[g] # NoRow
    /\ rows[g].status \in {"provisioning", "failed"}
    /\ rows' = [rows EXCEPT ![g].status = "active"]
    /\ answering' = answering \cup {g}
    /\ UNCHANGED <<deploy, droplets, buyer, memo, states, checks, slips, excused, overlapped, seenUp, gaveUp>>

\* The services of a GPU node fail and come back.
ServicesChange(g) ==
    /\ deploy.acts \cap Checks # {} /\ g \in droplets
    /\ answering' = IF g \in answering THEN answering \ {g} ELSE answering \cup {g}
    /\ UNCHANGED <<deploy, rows, droplets, buyer, memo, states, checks, slips, excused, overlapped, seenUp, gaveUp>>

\* start: the timer calls check whether or not the last one has ended.
check(c) ==
    /\ c \in deploy.acts /\ checks[c] = NoCheck
    /\ LET nodes == {g \in Gpus : rows[g].status \in {"active", "degraded"} /\ rows[g].host} IN
       /\ nodes # {}
       /\ checks' = [checks EXCEPT ![c] = [NoCheck EXCEPT !.pc = "poll", !.todo = SetToSeq({[id |-> g, status |-> rows[g].status] : g \in nodes})]]
    /\ overlapped' = (overlapped \/ \E d \in Checks : checks[d] # NoCheck)
    /\ UNCHANGED <<deploy, rows, droplets, buyer, memo, answering, states, slips, excused, seenUp, gaveUp>>

\* The node as it was listed when the check began
Listed(c) == Head(checks[c].todo)
Node(c) == Listed(c).id

pollHealth(c) ==
    /\ checks[c].pc = "poll"
    /\ checks' = [checks EXCEPT ![c].pc = "judge", ![c].health = IF Node(c) \in answering THEN "ok" ELSE "down"]
    /\ seenUp' = IF Node(c) \in answering THEN seenUp \cup {Node(c)} ELSE seenUp
    /\ UNCHANGED <<deploy, rows, droplets, buyer, memo, answering, states, slips, excused, overlapped, gaveUp>>

Continue(c) == IF Tail(checks[c].todo) = << >> THEN NoCheck ELSE [NoCheck EXCEPT !.pc = "poll", !.todo = Tail(checks[c].todo)]

\* anyUp: the outage is over.
recovered(state) == NoState

\* allDown: one more; the reboot, or the end of the wait after it, comes next.
downAgain(state) == [state EXCEPT !.downs = @ + (IF @ < rebootThreshold THEN 1 ELSE 0)]

\* updateServiceHealth throws for a row that is gone, which ends the check.
judge(c) ==
    /\ checks[c].pc = "judge"
    /\ LET g == Node(c)
           now == IF checks[c].health = "ok" THEN recovered(states[g]) ELSE downAgain(states[g])
           to == CASE checks[c].health = "ok" /\ states[g] # NoState /\ Listed(c).status = "degraded" -> "active"
                   [] checks[c].health = "down" /\ now.reboot = "long" -> "failed"
                   [] checks[c].health = "down" /\ now.reboot = "no" /\ now.downs >= rebootThreshold -> "degraded"
                   [] OTHER -> "none"
       IN IF rows[g] = NoRow
          THEN checks' = [checks EXCEPT ![c] = NoCheck] /\ UNCHANGED states
          ELSE /\ states' = [states EXCEPT ![g] = now]
               /\ checks' = [checks EXCEPT ![c] = IF to = "none" THEN Continue(c) ELSE [@ EXCEPT !.pc = "mark", !.status = to]]
    /\ UNCHANGED <<deploy, rows, droplets, buyer, memo, answering, slips, excused, overlapped, seenUp, gaveUp>>

\* updateStatus and what follows it: rebootDroplet, or forgetting the node
updateStatus(c) ==
    /\ checks[c].pc = "mark"
    /\ LET g == Node(c) to == checks[c].status IN
       IF rows[g] = NoRow
       THEN checks' = [checks EXCEPT ![c] = NoCheck] /\ UNCHANGED <<rows, states, seenUp, gaveUp>>
       ELSE /\ rows' = [rows EXCEPT ![g].status = to]
            /\ states' = [states EXCEPT ![g] = CASE to = "degraded" -> [@ EXCEPT !.reboot = "recent"]
                                                 [] to = "failed" -> NoState
                                                 [] OTHER -> @]
            /\ seenUp' = IF to = "degraded" THEN seenUp \ {g} ELSE seenUp
            /\ gaveUp' = IF to = "failed" /\ g \in seenUp THEN gaveUp \cup {g} ELSE gaveUp
            /\ checks' = [checks EXCEPT ![c] = Continue(c)]
    /\ UNCHANGED <<deploy, droplets, buyer, memo, answering, slips, excused, overlapped>>

\* failedTimeoutMs passes.
WaitEnds(g) ==
    /\ states[g].reboot = "recent"
    /\ states' = [states EXCEPT ![g].reboot = "long"]
    /\ UNCHANGED <<deploy, rows, droplets, buyer, memo, answering, checks, slips, excused, overlapped, seenUp, gaveUp>>

Ids(p) == IF p = "gpuadmin" THEN Gpus ELSE Plain

CapacityNext ==
    \/ \E p \in Buyers :
          \/ evaluate(p) \/ AdminOrders(p, Ids(p)) \/ \E m \in Ids(p) : AdminDestroys(p, m)
          \/ Provisioning(p) \/ StoreData(p) \/ CleanUp(p) \/ ProvisionFails(p)
          \/ destroyReads(p) \/ deleteNode(p) \/ forgetNode(p)
    \/ TimePasses
    \/ \E m \in Plain : updateHeartbeat(m) \/ cancelDrain(m)
    \/ \E g \in Gpus : reportDone(g) \/ ServicesChange(g) \/ WaitEnds(g)
    \/ \E c \in Checks : check(c) \/ pollHealth(c) \/ judge(c) \/ updateStatus(c)

CapacitySpec == CapacityInit /\ [][CapacityNext]_capacityVars

-----------------------------------------------------------------------------
\* Every droplet of a plain node is named by a row of the nodes table or known
\* to a call that is still running, and so can be given back, unless the
\* provider failed to delete it, its answer was lost, or an administrator
\* destroyed the node while it was being provisioned.
DropletsTracked ==
    \A m \in (droplets \cap Plain) \ excused :
        rows[m].droplet \/ \E p \in Buyers : buyer[p].m = m

\* When checks do not overlap, a GPU node is given up as failed only when it
\* has answered no poll since the watchdog rebooted it or it was ordered.
GivenUpIsDown == ~overlapped => gaveUp = {}

\* No machine is paid for and forgotten, and none is given up that answers.
CapacitySafe == DropletsTracked /\ GivenUpIsDown
=============================================================================
