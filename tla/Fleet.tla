-------------------------------- MODULE Fleet -------------------------------
(***************************************************************************)
(* The containers of the bots: FleetManager and Instance (fleet), the      *)
(* profile store, the bot_instances rows, the proxy routes (proxy) and the *)
(* tenant's network (network), all under src/src.  A caller is one API     *)
(* call; FleetManager's create (with an id), remove and update queue on    *)
(* the lock of the bot, an Instance has a lock of its own that no other    *)
(* call shares.  Docker and the database may refuse any call.              *)
(***************************************************************************)
EXTENDS Integers, Sequences, FiniteSets

CONSTANTS
    Bots,           \* of one tenant
    Callers,        \* API calls in flight together
    Worlds,         \* initial states and the calls made, see NoWorld
    BadDigests,     \* images whose health check fails
    MaxFaults       \* bound on refused calls

VARIABLES
    world,          \* the initial state of this behaviour
    profiles,       \* ProfileStore: the image of each bot, NoImage: no profile
    boxes,          \* Docker: the container labelled with each bot
    made,           \* containers created so far
    rows,           \* bot_instances: node, billing state, or none
    onNode,         \* bots whose container runs on a node agent
    routes,         \* ProxyManager.routes
    net,            \* the tenant's Docker network exists
    data,           \* each bot: the newest image that wrote its volume
    pulled,         \* what the tag means on this host
    published,      \* what the tag means in the registry
    queue,          \* FleetManager.locks
    jobs,           \* what each caller asks for
    caller,         \* where each caller is
    faults,
    overtaken,      \* bots removed while a set-up call held their instance
    unsettled       \* bots an update of which was refused on the way

disk == <<profiles, rows, routes>>
docker == <<boxes, made, net, data, pulled, onNode>>
history == <<overtaken, unsettled>>
fleetVars == <<world, disk, docker, published, queue, jobs, caller, faults, history>>

NoImage == -1
Tag == 0            \* the moving tag; n > 0 is the digest n
Malformed == -2     \* an image reference no registry accepts

NoBox == [id |-> 0, image |-> NoImage, digest |-> 0, up |-> FALSE]

NoJob == [op |-> "none", bot |-> "none", image |-> NoImage]
Job(op, b, image) == [op |-> op, bot |-> b, image |-> image]

Idle == [at |-> "idle", handle |-> 0, was |-> FALSE, old |-> NoImage, ok |-> FALSE]

NoWorld == [has |-> {}, up |-> {}, remote |-> {}, isolated |-> FALSE, jobs |-> [c \in Callers |-> NoJob]]

ApiOps == {"create", "remove", "update", "describe", "start", "stop", "restart",
           "setupBilling", "startBilling", "stopBilling", "setupProxy"}
Images == Nat \cup {Malformed}
JobRows == [op : ApiOps, bot : Bots, image : Images] \cup {NoJob}

ASSUME FleetAssumption ==
    /\ MaxFaults \in Nat /\ IsFiniteSet(Bots)
    /\ \A w \in Worlds : w.has \subseteq Bots /\ w.jobs \in [Callers -> JobRows]

Locked == {"create", "remove", "update", "describe"}
Setups == {"setupBilling", "setupProxy"}

Resolve(image) == IF image = Tag THEN pulled ELSE image

\* A container that starts brings its volume up to its image, never back.
Migrated(b) == [data EXCEPT ![b] = IF @ < boxes[b].digest THEN boxes[b].digest ELSE @]

-----------------------------------------------------------------------------
(* Control of a call                                                        *)

At(c, where, ops) == caller[c].at = where /\ jobs[c].op \in ops
B(c) == jobs[c].bot

To(c, where) == caller' = [caller EXCEPT ![c].at = where]

resolve(c) == IF jobs[c].op \in Locked THEN [queue EXCEPT ![B(c)] = Tail(@)] ELSE queue

Finish(c, ok) ==
    /\ caller' = [caller EXCEPT ![c].at = "done", ![c].ok = ok]
    /\ queue' = resolve(c)

Unlocked(c) ==
    /\ caller[c].at = "idle" /\ jobs[c].op # "none"
    /\ queue' = IF jobs[c].op \in Locked THEN [queue EXCEPT ![B(c)] = <<c>> \o @] ELSE queue
    /\ To(c, IF jobs[c].op \in Locked THEN "begin" ELSE "get")
    /\ UNCHANGED <<world, disk, docker, published, jobs, faults, history>>

\* Joins the chain of the bot.  An Instance is built for the call alone.
withLock(c) ==
    /\ caller[c].at = "idle" /\ jobs[c].op # "none"
    /\ queue' = IF jobs[c].op \in Locked THEN [queue EXCEPT ![B(c)] = Append(@, c)] ELSE queue
    /\ To(c, IF jobs[c].op \in Locked THEN "begin" ELSE "get")
    /\ UNCHANGED <<world, disk, docker, published, jobs, faults, history>>

Runs(c) == Head(queue[B(c)]) = c

\* Spends a fault.
Refuse == faults < MaxFaults /\ faults' = faults + 1

-----------------------------------------------------------------------------
(* FleetManager.create                                                      *)

\* getById: a row with a node sends the bot to that node.
resolveNodeId(b) == rows[b] = "node"

create(c) ==
    /\ At(c, "begin", {"create"}) /\ Runs(c)
    /\ IF profiles[B(c)] # NoImage
       THEN Finish(c, FALSE) /\ UNCHANGED profiles
       ELSE /\ profiles' = [profiles EXCEPT ![B(c)] = jobs[c].image]
            /\ To(c, IF resolveNodeId(B(c)) THEN "send" ELSE "pull")
            /\ UNCHANGED queue
    /\ UNCHANGED <<world, rows, routes, docker, published, jobs, faults, history>>

\* commandBus.send of bot.start or bot.remove.  A refused one may have run.
sendToNode(c) ==
    /\ At(c, "send", {"create", "remove"})
    /\ LET after == IF jobs[c].op = "create" THEN onNode \cup {B(c)} ELSE onNode \ {B(c)}
       IN \/ /\ onNode' = after /\ UNCHANGED faults
             /\ IF jobs[c].op = "create" THEN Finish(c, TRUE) ELSE To(c, "count") /\ UNCHANGED queue
          \/ /\ Refuse /\ onNode' \in {onNode, after}
             /\ IF jobs[c].op = "remove" THEN Finish(c, FALSE) ELSE To(c, "undo") /\ UNCHANGED queue
    /\ UNCHANGED <<world, disk, boxes, made, net, data, pulled, published, jobs, history>>

\* An update saves the new profile as soon as the image is there.
pullImage(c) ==
    /\ At(c, "pull", {"create", "update"})
    /\ \/ /\ jobs[c].image # Malformed
          /\ pulled' = IF jobs[c].image = Tag THEN published ELSE pulled
          /\ IF jobs[c].op = "update"
             THEN profiles' = [profiles EXCEPT ![B(c)] = jobs[c].image] /\ To(c, IF caller[c].was THEN "stop" ELSE "remove")
             ELSE To(c, "network") /\ UNCHANGED profiles
          /\ UNCHANGED <<faults, queue>>
       \/ /\ IF jobs[c].image = Malformed THEN UNCHANGED faults ELSE Refuse
          /\ UNCHANGED <<pulled, profiles>>
          /\ IF jobs[c].op = "update" THEN Finish(c, FALSE) ELSE To(c, "undo") /\ UNCHANGED queue
    /\ UNCHANGED <<world, rows, routes, boxes, made, net, data, onNode, published, jobs, history>>

\* NetworkPolicy.prepareForContainer, when there is a policy.
ensureTenantNetwork(c) ==
    /\ At(c, "network", {"create", "update"})
    /\ net' = (net \/ world.isolated)
    /\ To(c, "box")
    /\ UNCHANGED <<world, disk, boxes, made, data, pulled, onNode, published, queue, jobs, faults, history>>

\* The name of the container is taken while the bot has one.
createContainer(c) ==
    /\ At(c, "box", {"create", "update"})
    /\ \/ /\ boxes[B(c)] = NoBox
          /\ made' = made + 1
          /\ boxes' = [boxes EXCEPT ![B(c)] = [id |-> made + 1, image |-> jobs[c].image,
                                               digest |-> Resolve(jobs[c].image), up |-> FALSE]]
          /\ UNCHANGED faults
          /\ CASE jobs[c].op = "create" -> To(c, "register") /\ UNCHANGED queue
               [] jobs[c].op = "update" /\ caller[c].was -> To(c, "start") /\ UNCHANGED queue
               [] OTHER -> Finish(c, TRUE)
       \/ /\ IF boxes[B(c)] = NoBox THEN Refuse ELSE UNCHANGED faults
          /\ To(c, IF jobs[c].op = "create" THEN "undo" ELSE "restore")
          /\ UNCHANGED <<boxes, made, queue>>
    /\ UNCHANGED <<world, disk, net, data, pulled, onNode, published, jobs, history>>

\* The catch of create: the profile goes, whatever was made stays.
undoCreate(c) ==
    /\ At(c, "undo", {"create"})
    /\ profiles' = [profiles EXCEPT ![B(c)] = NoImage]
    /\ Finish(c, FALSE)
    /\ UNCHANGED <<world, rows, routes, docker, published, jobs, faults, history>>

\* instanceRepo.register inserts; a failure, a row that exists included, is logged.
register(c) ==
    /\ At(c, "register", {"create"})
    /\ \/ rows' = [rows EXCEPT ![B(c)] = IF @ = "none" THEN "inactive" ELSE @] /\ UNCHANGED faults
       \/ Refuse /\ UNCHANGED rows
    /\ Finish(c, TRUE)
    /\ UNCHANGED <<world, profiles, routes, docker, published, jobs, history>>

-----------------------------------------------------------------------------
(* FleetManager.update                                                      *)

\* Only container fields recreate, and only a container that is found.
update(c) ==
    /\ At(c, "begin", {"update", "describe"}) /\ Runs(c)
    /\ LET b == B(c) IN
       CASE profiles[b] = NoImage -> Finish(c, FALSE) /\ UNCHANGED profiles
         [] profiles[b] # NoImage /\ (jobs[c].op = "describe" \/ boxes[b] = NoBox) ->
              /\ profiles' = [profiles EXCEPT ![b] = IF jobs[c].op = "describe" THEN @ ELSE jobs[c].image]
              /\ Finish(c, TRUE)
         [] OTHER ->
              /\ caller' = [caller EXCEPT ![c] = [at |-> "pull", handle |-> boxes[b].id, was |-> boxes[b].up,
                                                  old |-> profiles[b], ok |-> FALSE]]
              /\ UNCHANGED <<profiles, queue>>
    /\ UNCHANGED <<world, rows, routes, docker, published, jobs, faults, history>>

\* Docker refuses to stop what is stopped and to remove what runs.
replaceContainer(c) ==
    /\ At(c, caller[c].at, {"update"}) /\ caller[c].at \in {"stop", "remove", "start"}
    /\ LET b == B(c)
           at == caller[c].at
           works == CASE at = "stop" -> boxes[b].id = caller[c].handle /\ boxes[b].up
                      [] at = "remove" -> boxes[b].id = caller[c].handle /\ ~boxes[b].up
                      [] OTHER -> boxes[b] # NoBox /\ ~boxes[b].up /\ (world.isolated => net)
       IN \/ /\ works /\ UNCHANGED faults
             /\ boxes' = [boxes EXCEPT ![b] = IF at = "remove" THEN NoBox ELSE [@ EXCEPT !.up = (at = "start")]]
             /\ data' = IF at = "start" THEN Migrated(b) ELSE data
             /\ CASE at = "stop" -> To(c, "remove") /\ UNCHANGED queue
                  [] at = "remove" -> To(c, "network") /\ UNCHANGED queue
                  [] OTHER -> Finish(c, TRUE)
          \/ /\ IF works THEN Refuse ELSE UNCHANGED faults
             /\ To(c, "restore")
             /\ UNCHANGED <<boxes, data, queue>>
    /\ UNCHANGED <<world, disk, made, net, pulled, onNode, published, jobs, history>>

\* The catch of update: the profile is put back, the container is not.
restoreProfile(c) ==
    /\ At(c, "restore", {"update"})
    /\ profiles' = [profiles EXCEPT ![B(c)] = caller[c].old]
    /\ Finish(c, FALSE)
    /\ unsettled' = unsettled \cup {B(c)}
    /\ UNCHANGED <<world, rows, routes, docker, published, jobs, faults, overtaken>>

-----------------------------------------------------------------------------
(* FleetManager.remove                                                      *)

remove(c) ==
    /\ At(c, "begin", {"remove"}) /\ Runs(c)
    /\ CASE profiles[B(c)] = NoImage -> Finish(c, FALSE)
         [] profiles[B(c)] # NoImage /\ resolveNodeId(B(c)) -> To(c, "send") /\ UNCHANGED queue
         [] OTHER -> To(c, IF boxes[B(c)] = NoBox THEN "count" ELSE "kill") /\ UNCHANGED queue
    /\ UNCHANGED <<world, disk, docker, published, jobs, faults, history>>

\* Instance.remove: stopped, removed by force, its route dropped; what it throws is swallowed.
removeInstance(c) ==
    /\ At(c, "kill", {"remove"})
    /\ \/ /\ boxes' = [boxes EXCEPT ![B(c)] = NoBox]
          /\ routes' = routes \ {B(c)}
          /\ UNCHANGED faults
       \/ /\ Refuse
          /\ boxes' = [boxes EXCEPT ![B(c)].up = FALSE]
          /\ UNCHANGED routes
    /\ overtaken' = IF \E d \in Callers : At(d, "act", Setups) /\ B(d) = B(c)
                    THEN overtaken \cup {B(c)} ELSE overtaken
    /\ To(c, "count")
    /\ UNCHANGED <<world, profiles, rows, made, net, data, pulled, onNode, published, queue, jobs, unsettled>>

\* Only running containers are attached to a network.
Attached == {b \in Bots : boxes[b].up}

\* NetworkPolicy.cleanupAfterRemoval: a count that fails makes remove throw.
getContainerCount(c) ==
    /\ At(c, "count", {"remove"})
    /\ \/ /\ To(c, IF world.isolated /\ Attached = {} THEN "unnet" ELSE "delete")
          /\ UNCHANGED <<faults, queue>>
       \/ world.isolated /\ Refuse /\ Finish(c, FALSE)
    /\ UNCHANGED <<world, disk, docker, published, jobs, history>>

\* It looks again, and Docker keeps a network in use; an error is logged.
removeTenantNetwork(c) ==
    /\ At(c, "unnet", {"remove"})
    /\ \/ net' = (net /\ Attached # {}) /\ UNCHANGED faults
       \/ Refuse /\ UNCHANGED net
    /\ To(c, "delete")
    /\ UNCHANGED <<world, disk, boxes, made, data, pulled, onNode, published, queue, jobs, history>>

\* deleteById, whose failure is logged, and store.delete.
deleteBot(c) ==
    /\ At(c, "delete", {"remove"})
    /\ \/ rows' = [rows EXCEPT ![B(c)] = "none"] /\ UNCHANGED faults
       \/ Refuse /\ UNCHANGED rows
    /\ profiles' = [profiles EXCEPT ![B(c)] = NoImage]
    /\ Finish(c, TRUE)
    /\ UNCHANGED <<world, routes, docker, published, jobs, history>>

-----------------------------------------------------------------------------
(* Instance: the container is the one found when the instance was built     *)

buildInstance(c) ==
    /\ caller[c].at = "get"
    /\ IF profiles[B(c)] = NoImage \/ boxes[B(c)] = NoBox
       THEN Finish(c, FALSE)
       ELSE caller' = [caller EXCEPT ![c].at = "act", ![c].handle = boxes[B(c)].id] /\ UNCHANGED queue
    /\ UNCHANGED <<world, disk, docker, published, jobs, faults, history>>

Held(c) == boxes[B(c)].id = caller[c].handle

PowerUp(c) ==
    /\ boxes' = [boxes EXCEPT ![B(c)].up = TRUE]
    /\ data' = Migrated(B(c))

start(c) ==
    /\ At(c, "act", {"start"})
    /\ IF Held(c) /\ ~boxes[B(c)].up /\ (world.isolated => net)
       THEN PowerUp(c) /\ Finish(c, TRUE)
       ELSE Finish(c, FALSE) /\ UNCHANGED <<boxes, data>>
    /\ UNCHANGED <<world, disk, made, net, pulled, onNode, published, jobs, faults, history>>

\* Stopping what is stopped is no error here.
stop(c) ==
    /\ At(c, "act", {"stop"})
    /\ boxes' = IF Held(c) THEN [boxes EXCEPT ![B(c)].up = FALSE] ELSE boxes
    /\ Finish(c, Held(c))
    /\ UNCHANGED <<world, disk, made, net, data, pulled, onNode, published, jobs, faults, history>>

restart(c) ==
    /\ At(c, "act", {"restart"})
    /\ IF Held(c) /\ (world.isolated => net)
       THEN PowerUp(c) /\ Finish(c, TRUE)
       ELSE Finish(c, FALSE) /\ UNCHANGED <<boxes, data>>
    /\ UNCHANGED <<world, disk, made, net, pulled, onNode, published, jobs, faults, history>>

\* register: the row may exist already.
setupBilling(c) ==
    /\ At(c, "act", {"setupBilling"})
    /\ rows' = [rows EXCEPT ![B(c)] = IF @ = "none" THEN "inactive" ELSE @]
    /\ Finish(c, rows[B(c)] = "none")
    /\ UNCHANGED <<world, profiles, routes, docker, published, jobs, faults, history>>

\* setBillingState throws when there is no row.
startBilling(c) ==
    /\ At(c, "act", {"startBilling"})
    /\ rows' = [rows EXCEPT ![B(c)] = IF @ \in {"none", "node"} THEN @ ELSE "active"]
    /\ Finish(c, rows[B(c)] # "none")
    /\ UNCHANGED <<world, profiles, routes, docker, published, jobs, faults, history>>

stopBilling(c) ==
    /\ At(c, "act", {"stopBilling"})
    /\ rows' = [rows EXCEPT ![B(c)] = IF @ \in {"none", "node"} THEN @ ELSE "suspended"]
    /\ Finish(c, rows[B(c)] # "none")
    /\ UNCHANGED <<world, profiles, routes, docker, published, jobs, faults, history>>

\* An upstream the proxy refuses is logged.
setupProxy(c) ==
    /\ At(c, "act", {"setupProxy"})
    /\ routes' \in {routes, routes \cup {B(c)}}
    /\ Finish(c, TRUE)
    /\ UNCHANGED <<world, profiles, rows, docker, published, jobs, faults, history>>

-----------------------------------------------------------------------------

FleetInit ==
    /\ world \in Worlds
    /\ profiles = [b \in Bots |-> IF b \in world.has THEN Tag ELSE NoImage]
    /\ boxes = [b \in Bots |-> IF b \in world.has \ world.remote
                               THEN [id |-> 1, image |-> Tag, digest |-> 1, up |-> b \in world.up]
                               ELSE NoBox]
    /\ made = 1
    /\ rows = [b \in Bots |-> CASE b \in world.remote -> "node"
                                [] b \in world.has \ world.remote -> "inactive"
                                [] OTHER -> "none"]
    /\ onNode = world.has \cap world.remote
    /\ routes = world.has \ world.remote
    /\ net = (world.isolated /\ world.has \ world.remote # {})
    /\ data = [b \in Bots |-> IF b \in world.has THEN 1 ELSE 0]
    /\ pulled = 1 /\ published = 1
    /\ queue = [b \in Bots |-> <<>>]
    /\ jobs = world.jobs
    /\ caller = [c \in Callers |-> Idle]
    /\ faults = 0
    /\ overtaken = {} /\ unsettled = {}

FleetNext ==
    \E c \in Callers :
        \/ withLock(c) \/ create(c) \/ sendToNode(c) \/ pullImage(c) \/ ensureTenantNetwork(c)
        \/ createContainer(c) \/ undoCreate(c) \/ register(c)
        \/ update(c) \/ replaceContainer(c) \/ restoreProfile(c)
        \/ remove(c) \/ removeInstance(c) \/ getContainerCount(c) \/ removeTenantNetwork(c) \/ deleteBot(c)
        \/ buildInstance(c) \/ start(c) \/ stop(c) \/ restart(c)
        \/ setupBilling(c) \/ startBilling(c) \/ stopBilling(c) \/ setupProxy(c)

FleetSpec == FleetInit /\ [][FleetNext]_fleetVars

-----------------------------------------------------------------------------
(* Properties                                                               *)

Quiet(b) == \A c \in Callers : B(c) = b => caller[c].at \in {"idle", "done"}

\* Whatever creates, updates, removes, starts and stops overlap, a local bot at
\* rest has a container exactly when it has a profile, of the image the profile
\* names, and a bot without a profile has neither a row nor a route: unless a
\* call was refused, an update gave up half-way, or a set-up call was still
\* using the instance that was removed.
FleetConsistent ==
    \A b \in Bots :
        Quiet(b) /\ faults = 0 /\ b \notin unsettled \cup world.remote =>
            /\ boxes[b].image = profiles[b]
            /\ profiles[b] = NoImage /\ b \notin overtaken => rows[b] = "none" /\ b \notin routes
=============================================================================
