------------------------------ MODULE Placement -----------------------------
(***************************************************************************)
(* Bots on nodes: who moves them and how the orders reach the node.        *)
(*                                                                         *)
(* RecoveryOrchestrator (or the older RecoveryManager) re-creates the bots *)
(* of a dead node elsewhere, MigrationOrchestrator moves one bot,          *)
(* RestoreService replaces a bot by a snapshot, OrphanCleaner stops what a *)
(* returning node should not run and dispatchEnvUpdate replaces a bot's    *)
(* container.  All of them send commands over NodeCommandBus to a node     *)
(* agent, which runs them against its Docker daemon, its backup directory  *)
(* and the bucket, and answers over the same socket.  A command times out, *)
(* an answer is lost with the connection, an agent dies and comes back.    *)
(*                                                                         *)
(* A tenant has one bot here, so a container is named after its bot.  What *)
(* recovery does to the node's own status is in module NodeLifecycle.      *)
(***************************************************************************)
EXTENDS Integers, Sequences, FiniteSets, SequencesExt

CONSTANTS
    Hosts, Bots,
    Scenes,         \* the situations to start from, NoScene among them
    MaxRetries,     \* MAX_RETRY_ATTEMPTS of the RecoveryManager
    MaxItems,       \* bound on rows of recovery_items
    MaxFaults       \* bound on failing operations, early timeouts and lost connections

None == "none"

\* Situation: the node that died, the node that registers (a number of times),
\* where the bots live, what the nodes have room for, who recovers, what is
\* migrated, restored and reconfigured, and the files and objects that exist.
NoScene == [dead |-> None, comes |-> None, joins |-> 0, at |-> [b \in Bots |-> None],
            room |-> [n \in Hosts |-> 0], keeper |-> "orchestrator", migrate |-> << >>,
            restore |-> None, config |-> None, left |-> {}, stray |-> {}]

\* A node that registers is not the dead one, a migration names a bot and a
\* node, and what is restored is on a node.
ASSUME PlacementAssumption ==
    /\ NoScene \in Scenes
    /\ IsFiniteSet(Bots) /\ None \notin Hosts \cup Bots
    /\ \A s \in Scenes :
         /\ {s.dead, s.comes} \subseteq Hosts \cup {None} /\ (s.dead # None => s.comes # s.dead) /\ s.joins \in Nat
         /\ s.at \in [Bots -> Hosts \cup {None}] /\ s.keeper \in {"orchestrator", "manager"}
         /\ s.migrate = << >> \/ s.migrate \in Bots \X Hosts
         /\ s.restore # None => s.restore \in Bots /\ s.at[s.restore] # None
         /\ s.config \in Bots \cup {None}
    /\ MaxRetries \in Nat /\ MaxItems \in Nat /\ MaxFaults \in Nat

VARIABLES
    scene,
    home,       \* bot_instances.node_id
    box,        \* the container of a bot on a node: none, running, stopped
    files,      \* the agent's backup directory
    bucket,     \* objects of the bucket
    link,       \* is the agent's socket open
    agentUp,    \* is the agent's process running
    died,       \* die events the health monitor has not handled yet
    wire,       \* commands on their way to an agent or being executed
    mover,      \* what each orchestrator is doing
    items,      \* recovery_items
    event,      \* the recovery_events row of the dead node
    room,       \* capacityMb - usedMb, in bots
    joins,      \* registrations still to come
    aged,       \* is the event older than MAX_WAITING_DURATION_S
    hitches,
    removed,    \* ghost: containers taken away by remove or by a failed update
    mixed       \* ghost: two recoveries of the event ran at the same time

placementVars == <<scene, home, box, files, bucket, link, agentUp, died, wire, mover, items,
                   event, room, joins, aged, hitches, removed, mixed>>
ground == <<box, files, bucket, died>>
rescue == <<items, event, aged, mixed>>

\* Objects: the archive of a bot at the bucket's root, the hot backup under
\* latest/, and latest.tar.gz at the root, which is where basename() looks.
RootArchive(b) == <<"root", b>>
HotArchive(b) == <<"hot", b>>
RootLatest == <<"root", "latest">>

\* BackupManager.safePath: only the last component of a name survives.
safePath(key) == IF key[1] = "hot" THEN RootLatest ELSE key

Movers == {"recovery", "retry", "migration", "restore", "cleaner", "config"}

Resting == [pc |-> "off", bot |-> None, from |-> None, to |-> None, todo |-> << >>, known |-> {},
            flag |-> FALSE, wait |-> FALSE, item |-> 0, entry |-> 0, out |-> None,
            recovered |-> 0, failed |-> 0, waiting |-> 0]

NoEvent == [status |-> None, recovered |-> 0, failed |-> 0, waiting |-> 0]

PlacementInit ==
    /\ scene \in Scenes
    /\ home = scene.at
    /\ box = [n \in Hosts |-> [b \in Bots |-> IF scene.at[b] = n THEN "running" ELSE "none"]]
    /\ files = [n \in Hosts |-> {f[2] : f \in {g \in scene.left : g[1] = n}}]
    /\ bucket = scene.stray
    /\ agentUp = [n \in Hosts |-> n # scene.dead /\ n # scene.comes]
    /\ link = agentUp
    /\ died = {} /\ wire = {}
    /\ mover = [p \in Movers |-> Resting]
    /\ items = << >> /\ event = NoEvent /\ aged = FALSE
    /\ room = scene.room
    /\ joins = scene.joins /\ hitches = 0
    /\ removed = {} /\ mixed = FALSE

-----------------------------------------------------------------------------
\* The commands of each orchestrator: what is sent, to which of its nodes, and
\* where it goes on when the answer is a success or when send() throws.

\* RecoveryOrchestrator.recoverTenant
RecoverySends == [
    rcDownload |-> [cmd |-> "download", at |-> "to",   ok |-> "rcImport",   err |-> "rcFailed"],
    rcImport   |-> [cmd |-> "import",   at |-> "to",   ok |-> "rcInspect",  err |-> "rcFailed"],
    rcInspect  |-> [cmd |-> "inspect",  at |-> "to",   ok |-> "rcReassign", err |-> "rcFailed"],
    rcRemove   |-> [cmd |-> "remove",   at |-> "to",   ok |-> "rcItem",     err |-> "rcItem"]]

\* MigrationOrchestrator.migrate
MigrationSends == [
    mgExport   |-> [cmd |-> "export",   at |-> "from", ok |-> "mgUpload",   err |-> "off"],
    mgUpload   |-> [cmd |-> "upload",   at |-> "from", ok |-> "mgDownload", err |-> "off"],
    mgDownload |-> [cmd |-> "download", at |-> "to",   ok |-> "mgStop",     err |-> "off"],
    mgStop     |-> [cmd |-> "stop",     at |-> "from", ok |-> "mgImport",   err |-> "off"],
    mgImport   |-> [cmd |-> "import",   at |-> "to",   ok |-> "mgInspect",  err |-> "mgUndo"],
    mgInspect  |-> [cmd |-> "inspect",  at |-> "to",   ok |-> "mgReassign", err |-> "mgUndo"],
    mgUndo     |-> [cmd |-> "stop",     at |-> "to",   ok |-> "mgRestart",  err |-> "mgRestart"],
    mgRestart  |-> [cmd |-> "start",    at |-> "from", ok |-> "off",        err |-> "off"]]

\* RestoreService.restore, and its way back once the container is removed
RestoreSends == [
    rsExport   |-> [cmd |-> "export",   at |-> "from", ok |-> "rsUpload",   err |-> "off"],
    rsUpload   |-> [cmd |-> "upload",   at |-> "from", ok |-> "rsStop",     err |-> "off"],
    rsStop     |-> [cmd |-> "stop",     at |-> "from", ok |-> "rsRemove",   err |-> "off"],
    rsRemove   |-> [cmd |-> "remove",   at |-> "from", ok |-> "rsDownload", err |-> "off"],
    rsDownload |-> [cmd |-> "download", at |-> "from", ok |-> "rsImport",   err |-> "rsSafety"],
    rsImport   |-> [cmd |-> "import",   at |-> "from", ok |-> "rsInspect",  err |-> "rsSafety"],
    rsInspect  |-> [cmd |-> "inspect",  at |-> "from", ok |-> "off",        err |-> "rsSafety"],
    rsSafety   |-> [cmd |-> "download", at |-> "from", ok |-> "rsReimport", err |-> "off"],
    rsReimport |-> [cmd |-> "import",   at |-> "from", ok |-> "off",        err |-> "off"]]

\* OrphanCleaner.clean
CleanerSends == [
    clStop     |-> [cmd |-> "stop",     at |-> "from", ok |-> "clNext",     err |-> "clNext"]]

\* dispatchEnvUpdate
ConfigSends == [
    cfUpdate   |-> [cmd |-> "update",   at |-> "from", ok |-> "off",        err |-> "off"]]

Sends(p) == CASE p = "migration" -> MigrationSends
              [] p = "restore" -> RestoreSends
              [] p = "cleaner" -> CleanerSends
              [] p = "config" -> ConfigSends
              [] OTHER -> RecoverySends

\* The object a download asks for.  A restore uploads its safety copy under
\* the destination it names, which the agent does not read.
Key(p) == CASE mover[p].pc = "mgDownload" -> RootArchive(mover[p].bot)
            [] mover[p].pc = "rsSafety" -> <<"root", "pre-restore">>
            [] OTHER -> HotArchive(mover[p].bot)

\* The image an import names: importImage tags nothing, so :restored and
\* :pre-restore exist nowhere.
Image(p) == IF mover[p].pc \in {"rsImport", "rsReimport"} THEN "untagged" ELSE "bot"

GoOn(p, step) == [mover[p] EXCEPT !.pc = step, !.wait = FALSE]

\* A step that ends a call puts the orchestrator to rest.
Settle(m) == IF m.pc = "off" THEN Resting ELSE m

Target(p) == IF Sends(p)[mover[p].pc].at = "to" THEN mover[p].to ELSE mover[p].from

\* handleResult of the bus, or the rejected promise.  recoverTenant remembers
\* that it has imported.
Answered(p, good) ==
    Settle([GoOn(p, IF good THEN Sends(p)[mover[p].pc].ok ELSE Sends(p)[mover[p].pc].err)
            EXCEPT !.flag = @ \/ (good /\ mover[p].pc = "rcImport")])

\* NodeCommandBus.send
Send(p) ==
    /\ mover[p].pc \in DOMAIN Sends(p) /\ ~mover[p].wait
    /\ IF link[Target(p)]
       THEN /\ wire' = wire \cup {[by |-> p, node |-> Target(p), cmd |-> Sends(p)[mover[p].pc].cmd,
                                   bot |-> mover[p].bot, key |-> Key(p), image |-> Image(p), live |-> TRUE]}
            /\ mover' = [mover EXCEPT ![p].wait = TRUE]
       ELSE mover' = [mover EXCEPT ![p] = Answered(p, FALSE)] /\ UNCHANGED wire
    /\ UNCHANGED <<scene, home, ground, link, agentUp, rescue, room, joins, hitches, removed>>

OnWire(p) == {c \in wire : c.by = p /\ c.live}

\* The timeout of send(): the command may still be executed later, and its
\* answer then finds nobody.
Timeout(p) ==
    /\ mover[p].wait
    /\ OnWire(p) = {} \/ hitches < MaxFaults
    /\ hitches' = IF OnWire(p) = {} THEN hitches ELSE hitches + 1
    /\ wire' = {[c EXCEPT !.live = @ /\ c.by # p] : c \in wire}
    /\ mover' = [mover EXCEPT ![p] = Answered(p, FALSE)]
    /\ UNCHANGED <<scene, home, ground, link, agentUp, rescue, room, joins, removed>>

-----------------------------------------------------------------------------
\* What the agent does with a command: the possible outcomes.
Outcome(good, state) == [good |-> good, box |-> state, file |-> {}, object |-> {}, kill |-> FALSE]

Now(c) == box[c.node][c.bot]

\* DockerManager.stopBot: stopping what is stopped is an error of Docker's.
stopBot(c) == {IF Now(c) = "running" THEN Outcome(TRUE, "stopped") ELSE Outcome(FALSE, Now(c))}

\* DockerManager.startBot pulls and creates.  The only sender among the
\* orchestrators names no image, and "undefined" cannot be pulled.
startBot(c) == {Outcome(FALSE, Now(c))}

\* DockerManager.importBot: a stream on a file that is not there raises an
\* error nobody listens to, which ends the agent.  The container is made from
\* the image the command names; it may be made and not start.
importBot(c) ==
    IF c.bot \notin files[c.node] THEN {[Outcome(FALSE, Now(c)) EXCEPT !.kill = TRUE]}
    ELSE IF c.image = "untagged" \/ Now(c) # "none" THEN {Outcome(FALSE, Now(c))}
    ELSE {Outcome(TRUE, "running")}
         \cup {Outcome(FALSE, s) : s \in IF hitches < MaxFaults THEN {"stopped", "none"} ELSE {}}

\* DockerManager.removeBot, which stops first
removeBot(c) == {IF Now(c) = "none" THEN Outcome(FALSE, "none") ELSE Outcome(TRUE, "none")}

\* DockerManager.updateBot: when the new container cannot be made it tries to
\* make the old one again.
updateBot(c) ==
    IF Now(c) = "none" THEN {Outcome(FALSE, "none")}
    ELSE {Outcome(TRUE, "running")}
         \cup {Outcome(FALSE, s) : s \in IF hitches < MaxFaults THEN {"running", "none"} ELSE {}}

\* DockerManager.exportBot, inspectBot
exportBot(c) == {[Outcome(Now(c) # "none", Now(c)) EXCEPT !.file = IF Now(c) # "none" THEN {c.bot} ELSE {}]}
inspectBot(c) == {Outcome(Now(c) # "none", Now(c))}

\* BackupManager.upload and download
upload(c) ==
    {[Outcome(c.bot \in files[c.node], Now(c)) EXCEPT
        !.object = IF c.bot \in files[c.node] THEN {RootArchive(c.bot)} ELSE {}]}
download(c) ==
    LET found == safePath(c.key) \in bucket IN
    {[Outcome(found, Now(c)) EXCEPT !.file = IF found THEN {safePath(c.key)[2]} ELSE {}]}

dispatch(c) ==
    CASE c.cmd = "stop" -> stopBot(c)
      [] c.cmd = "start" -> startBot(c)
      [] c.cmd = "import" -> importBot(c)
      [] c.cmd = "remove" -> removeBot(c)
      [] c.cmd = "update" -> updateBot(c)
      [] c.cmd = "export" -> exportBot(c)
      [] c.cmd = "inspect" -> inspectBot(c)
      [] c.cmd = "upload" -> upload(c)
      [] c.cmd = "download" -> download(c)

\* The outcomes that cost a fault: a step of Docker's that fails by itself.
Unlucky(c, o) ==
    \/ c.cmd = "import" /\ ~o.good /\ ~o.kill /\ c.bot \in files[c.node] /\ c.image = "bot" /\ Now(c) = "none"
    \/ c.cmd = "update" /\ ~o.good /\ Now(c) # "none"

\* NodeAgent.executeCommand, and handleResult of the bus when the answer gets
\* through.  Commands are not awaited: any of those on the wire may be next.
executeCommand(c) ==
    \E o \in dispatch(c) :
       /\ agentUp[c.node]
       /\ box' = [box EXCEPT ![c.node][c.bot] = o.box]
       /\ files' = [files EXCEPT ![c.node] = @ \cup o.file]
       /\ bucket' = bucket \cup o.object
       /\ died' = IF c.cmd \in {"stop", "remove", "update"} /\ Now(c) = "running"
                  THEN died \cup {<<c.node, c.bot>>} ELSE died
       /\ removed' = IF o.box = "none" /\ Now(c) # "none" THEN removed \cup {<<c.node, c.bot>>} ELSE removed
       /\ hitches' = IF Unlucky(c, o) THEN hitches + 1 ELSE hitches
       /\ agentUp' = [agentUp EXCEPT ![c.node] = ~o.kill]
       /\ link' = [link EXCEPT ![c.node] = @ /\ ~o.kill]
       /\ wire' = IF o.kill THEN {d \in wire : d.node # c.node} ELSE wire \ {c}
       /\ mover' = IF c.live /\ link'[c.node] THEN [mover EXCEPT ![c.by] = Answered(c.by, o.good)] ELSE mover
       /\ UNCHANGED <<scene, home, rescue, room, joins>>

\* HealthMonitor.handleDockerEvent and attemptRestart: every die event of a
\* bot's container is answered by a restart, the die of a bot.stop too.
attemptRestart(n, b) ==
    /\ <<n, b>> \in died
    /\ died' = died \ {<<n, b>>}
    /\ box' = [box EXCEPT ![n][b] = IF @ = "none" \/ ~agentUp[n] THEN @ ELSE "running"]
    /\ UNCHANGED <<scene, home, files, bucket, link, agentUp, wire, mover, rescue, room, joins, hitches, removed>>

\* shouldBackup compares sizes that inspect() is not asked for: a container is
\* new to the scheduler once.
shouldBackup(b) == HotArchive(b) \notin bucket

\* HotBackupScheduler.runHotBackup, on its timer
runHotBackup(n) ==
    /\ agentUp[n]
    /\ LET here == {b \in Bots : box[n][b] # "none" /\ shouldBackup(b)} IN
       /\ here # {}
       /\ files' = [files EXCEPT ![n] = @ \cup here]
       /\ bucket' = bucket \cup {HotArchive(b) : b \in here}
    /\ UNCHANGED <<scene, home, box, died, link, agentUp, wire, mover, rescue, room, joins, hitches, removed>>

\* NodeConnectionRegistry.accept
accept(n) == link' = [link EXCEPT ![n] = TRUE]

\* A connection is lost: what the agent answers meanwhile goes nowhere.
SocketClosed(n) ==
    /\ link[n] /\ hitches < MaxFaults
    /\ hitches' = hitches + 1
    /\ link' = [link EXCEPT ![n] = FALSE]
    /\ UNCHANGED <<scene, home, ground, agentUp, wire, mover, rescue, room, joins, removed>>

\* NodeAgent.scheduleReconnect: the agent connects again.
Reconnect(n) ==
    /\ agentUp[n] /\ ~link[n]
    /\ accept(n)
    /\ UNCHANGED <<scene, home, ground, agentUp, wire, mover, rescue, room, joins, hitches, removed>>

-----------------------------------------------------------------------------
\* The recovery of a node: DrizzleNodeRepository.findBestTarget takes the
\* emptiest node in service.  A node is in service when its agent was started
\* and it is not the dead one.
Serving == {n \in Hosts : n # scene.dead /\ (n # scene.comes \/ joins < scene.joins)}

findBestTarget(exclude) ==
    LET fit == {n \in Serving \ {exclude} : room[n] >= 1} IN
    {n \in fit : \A k \in fit : room[k] <= room[n]}

Rescuing(p) == mover[p].pc # "off" /\ p \in {"recovery", "retry"}
Overlap(p) == mixed \/ \E q \in {"recovery", "retry"} \ {p} : Rescuing(q)

\* The bots whose row names the dead node
getTenants == {b \in Bots : home[b] = scene.dead}

\* triggerRecovery: list the bots of the dead node, open the event.
triggerRecovery ==
    /\ scene.dead # None /\ event.status = None /\ mover["recovery"].pc = "off"
    /\ event' = [NoEvent EXCEPT !.status = "in_progress"]
    /\ mover' = [mover EXCEPT !["recovery"] =
          [Resting EXCEPT !.pc = "rcNext", !.from = scene.dead,
             !.todo = [i \in 1..Cardinality(getTenants) |-> [bot |-> SetToSeq(getTenants)[i], entry |-> 0]]]]
    /\ mixed' = Overlap("recovery")
    /\ UNCHANGED <<scene, home, ground, link, agentUp, wire, items, aged, room, joins, hitches, removed>>

\* recoverTenant up to the first command: a target or a waiting item.
recoverTenant(p, b) ==
    LET begun == [mover[p] EXCEPT !.bot = b, !.entry = Head(mover[p].todo).entry, !.todo = Tail(@), !.flag = FALSE] IN
    IF findBestTarget(scene.dead) = {}
    THEN mover' = [mover EXCEPT ![p] = [begun EXCEPT !.pc = "rcItem", !.out = "waiting", !.to = None]]
    ELSE \E n \in findBestTarget(scene.dead) :
            mover' = [mover EXCEPT ![p] = [begun EXCEPT !.pc = "rcDownload", !.out = "recovered", !.to = n]]

\* Does the retry still find the bot on the dead node?  The orchestrator asks
\* the list it read at the start, the manager the table.
listedAtStart(p, work) == work.bot \in mover[p].known
findByTenantAndNode(work) == home[work.bot] = scene.dead

Present(p, work) ==
    \/ work.entry = 0
    \/ scene.keeper = "orchestrator" /\ listedAtStart(p, work)
    \/ scene.keeper = "manager" /\ findByTenantAndNode(work)

NextTenant(p) ==
    /\ mover[p].pc = "rcNext" /\ mover[p].todo # << >>
    /\ LET work == Head(mover[p].todo) IN
       IF Present(p, work) THEN recoverTenant(p, work.bot)
       ELSE mover' = [mover EXCEPT ![p].failed = @ + 1, ![p].todo = Tail(@)]
    /\ UNCHANGED <<scene, home, ground, link, agentUp, wire, rescue, room, joins, hitches, removed>>

\* DrizzleBotInstanceRepository.reassign and DrizzleNodeRepository.addCapacity
reassign(b, n) == home' = [home EXCEPT ![b] = n]
addCapacity(n) == room' = [room EXCEPT ![n] = IF @ = 0 THEN 0 ELSE @ - 1]

\* Mutation: the bot's row is moved before its container is there.
ReassignFirst(p) ==
    /\ mover[p].pc = "rcDownload" /\ ~mover[p].wait /\ home[mover[p].bot] # mover[p].to
    /\ home' = [home EXCEPT ![mover[p].bot] = mover[p].to]
    /\ UNCHANGED <<scene, ground, link, agentUp, wire, mover, rescue, room, joins, hitches, removed>>

\* reassignTenant and addNodeCapacity; the second may throw after the first.
ReassignTenant(p) ==
    /\ mover[p].pc = "rcReassign"
    /\ reassign(mover[p].bot, mover[p].to)
    /\ \/ /\ addCapacity(mover[p].to)
          /\ mover' = [mover EXCEPT ![p] = GoOn(p, "rcItem")]
          /\ UNCHANGED hitches
       \/ /\ hitches < MaxFaults /\ hitches' = hitches + 1
          /\ mover' = [mover EXCEPT ![p] = GoOn(p, "rcFailed")]
          /\ UNCHANGED room
    /\ UNCHANGED <<scene, ground, link, agentUp, wire, rescue, joins, removed>>

\* The catch block: the orchestrator takes the imported container away again,
\* the manager does not.
RecoveryFailed(p) ==
    /\ mover[p].pc = "rcFailed"
    /\ mover' = [mover EXCEPT ![p] = [GoOn(p, IF mover[p].flag /\ scene.keeper = "orchestrator" THEN "rcRemove" ELSE "rcItem")
                                      EXCEPT !.out = "failed"]]
    /\ UNCHANGED <<scene, home, ground, link, agentUp, wire, rescue, room, joins, hitches, removed>>

\* createItem inserts a waiting item unless it is told otherwise, and only the
\* manager's recordItem tells it.
recordItem(m) == [bot |-> m.bot, status |-> m.out, tries |-> IF m.entry = 0 THEN 0 ELSE items[m.entry].tries + 1]
newItem(m) == [bot |-> m.bot, status |-> "waiting", tries |-> 0]

createItem(p) ==
    /\ mover[p].pc = "rcItem" /\ Len(items) < MaxItems
    /\ items' = Append(items, IF scene.keeper = "manager" THEN recordItem(mover[p]) ELSE newItem(mover[p]))
    /\ mover' = [mover EXCEPT ![p] = [@ EXCEPT !.pc = "rcClose", !.item = Len(items) + 1]]
    /\ UNCHANGED <<scene, home, ground, link, agentUp, wire, event, aged, mixed, room, joins, hitches, removed>>

\* The entry of the report
Reported(m) == [m EXCEPT !.recovered = @ + (IF m.out = "recovered" THEN 1 ELSE 0),
                         !.failed = @ + (IF m.out = "failed" THEN 1 ELSE 0),
                         !.waiting = @ + (IF m.out = "waiting" THEN 1 ELSE 0)]

\* An item that was retried: the orchestrator closes it when its bot is no
\* longer waiting, the manager always.
closedByOrchestrator(item, out) == [item EXCEPT !.tries = @ + 1, !.status = IF out = "waiting" THEN @ ELSE out]
closedByManager(item, out) == [item EXCEPT !.tries = @ + 1, !.status = "retried"]

\* updateItem: the new item gets its status, the retried one is closed.
updateItem(p) ==
    /\ mover[p].pc = "rcClose"
    /\ LET m == mover[p]
           fresh == [items EXCEPT ![m.item].status = m.out]
       IN items' = CASE m.entry = 0 -> fresh
                     [] m.entry # 0 /\ scene.keeper = "orchestrator" -> [fresh EXCEPT ![m.entry] = closedByOrchestrator(@, m.out)]
                     [] OTHER -> [fresh EXCEPT ![m.entry] = closedByManager(@, m.out)]
    /\ mover' = [mover EXCEPT ![p] = [Reported(mover[p]) EXCEPT !.pc = "rcNext", !.item = 0, !.entry = 0, !.out = None]]
    /\ UNCHANGED <<scene, home, ground, link, agentUp, wire, event, aged, mixed, room, joins, hitches, removed>>

\* The event at the end of triggerRecovery, the orchestrator's and the
\* manager's, and of retryWaiting
orchestratorVerdict(m) ==
    [recovered |-> m.recovered, failed |-> m.failed, waiting |-> m.waiting,
     status |-> CASE m.waiting > 0 -> "partial"
                  [] m.waiting = 0 /\ m.recovered = 0 /\ m.failed > 0 -> "failed"
                  [] OTHER -> "completed"]
managerVerdict(m) ==
    [recovered |-> m.recovered, failed |-> m.failed, waiting |-> m.waiting,
     status |-> IF m.waiting > 0 THEN "partial" ELSE "completed"]
retryVerdict(m) ==
    [recovered |-> event.recovered + m.recovered, failed |-> event.failed + m.failed,
     waiting |-> m.waiting, status |-> IF m.waiting > 0 THEN "partial" ELSE "completed"]

finishRecovery(p) ==
    /\ mover[p].pc = "rcNext" /\ mover[p].todo = << >>
    /\ event' = CASE p = "retry" -> retryVerdict(mover[p])
                  [] p = "recovery" /\ scene.keeper = "orchestrator" -> orchestratorVerdict(mover[p])
                  [] OTHER -> managerVerdict(mover[p])
    /\ mover' = [mover EXCEPT ![p] = Resting]
    /\ UNCHANGED <<scene, home, ground, link, agentUp, wire, items, aged, mixed, room, joins, hitches, removed>>

\* DrizzleRecoveryRepository.getWaitingItems and listOpenEvents
getWaitingItems == {i \in 1..Len(items) : items[i].status = "waiting"}
listOpenEvents == event.status \in {"in_progress", "partial"}

\* retryWaiting: the event and the bots of its node are read once.
retryWaiting(kept) ==
    /\ mover["retry"].pc = "off"
    /\ Len(items) + Cardinality(kept) <= MaxItems
    /\ mover' = [mover EXCEPT !["retry"] =
          [Resting EXCEPT !.pc = "rcNext", !.from = scene.dead, !.known = getTenants,
             !.todo = [i \in 1..Cardinality(kept) |->
                         [bot |-> items[SetToSeq(kept)[i]].bot, entry |-> SetToSeq(kept)[i]]]]]
    /\ mixed' = Overlap("retry")

\* The callback of the registrar, which does not wait for the retry
onRetryWaiting == retryWaiting(getWaitingItems)

\* NodeRegistrar.register: the agent of a node starts, registers and connects,
\* and every open event with waiting items is retried, not awaited.
register ==
    /\ scene.comes # None /\ joins > 0
    /\ joins' = joins - 1
    /\ agentUp' = [agentUp EXCEPT ![scene.comes] = TRUE]
    /\ accept(scene.comes)
    /\ IF listOpenEvents /\ getWaitingItems # {} /\ scene.keeper = "orchestrator"
       THEN onRetryWaiting /\ UNCHANGED <<items, event, aged>>
       ELSE UNCHANGED <<mover, rescue>>
    /\ UNCHANGED <<scene, home, ground, wire, room, hitches, removed>>

\* An agent that died, or whose node was restarted, starts again.
agentStart(n) ==
    /\ ~agentUp[n] /\ n \notin {scene.dead, scene.comes}
    /\ agentUp' = [agentUp EXCEPT ![n] = TRUE]
    /\ accept(n)
    /\ UNCHANGED <<scene, home, ground, wire, mover, rescue, room, joins, hitches, removed>>

\* failExpiredWaitingItems and the counters it writes
failExpired(expired) ==
    LET left == getWaitingItems \ expired IN
    /\ items' = [i \in 1..Len(items) |-> IF i \in expired THEN [items[i] EXCEPT !.status = "failed"] ELSE items[i]]
    /\ event' = [event EXCEPT !.failed = @ + Cardinality(expired), !.waiting = Cardinality(left),
                              !.status = IF left # {} THEN "partial" ELSE "completed"]

\* RecoveryManager.checkAndRetryWaiting: give up what is old or was tried
\* often enough, retry the rest.  The event is then completed or has waiting
\* items, so finalizeEventIfComplete never finds anything to do.
checkAndRetryWaiting ==
    /\ scene.keeper = "manager" /\ listOpenEvents /\ getWaitingItems # {}
    /\ ~Rescuing("recovery") /\ ~Rescuing("retry")
    /\ LET expired == IF aged THEN getWaitingItems
                      ELSE {i \in getWaitingItems : items[i].tries >= MaxRetries}
           kept == getWaitingItems \ expired
       IN /\ IF expired # {} THEN failExpired(expired) ELSE UNCHANGED <<items, event>>
          /\ IF kept # {} THEN retryWaiting(kept) ELSE UNCHANGED <<mover, mixed>>
    /\ UNCHANGED <<scene, home, ground, link, agentUp, wire, aged, room, joins, hitches, removed>>

DayPasses ==
    /\ scene.keeper = "manager" /\ ~aged /\ event.status = "partial"
    /\ aged' = TRUE
    /\ UNCHANGED <<scene, home, ground, link, agentUp, wire, mover, items, event, mixed, room, joins, hitches, removed>>

\* A bot moves off or is destroyed: somewhere room appears.
RoomAppears(n) ==
    /\ scene.dead # None /\ room[n] = 0 /\ n \in Serving /\ hitches < MaxFaults
    /\ hitches' = hitches + 1
    /\ room' = [room EXCEPT ![n] = 1]
    /\ UNCHANGED <<scene, home, ground, link, agentUp, wire, mover, rescue, joins, removed>>

-----------------------------------------------------------------------------
\* MigrationOrchestrator.migrate: the early returns leave nothing behind, so
\* only a call that has a source and another target begins.
migrate ==
    /\ scene.migrate # << >> /\ mover["migration"].pc = "off"
    /\ LET b == scene.migrate[1] to == scene.migrate[2] IN
       /\ home[b] # None /\ home[b] # to /\ box[home[b]][b] # "none"
       /\ mover' = [mover EXCEPT !["migration"] =
             [Resting EXCEPT !.pc = "mgExport", !.bot = b, !.from = home[b], !.to = to]]
    /\ UNCHANGED <<scene, home, ground, link, agentUp, wire, rescue, room, joins, hitches, removed>>

\* botInstanceRepo.reassign; when it throws the rollback begins
MigrationReassigns ==
    /\ mover["migration"].pc = "mgReassign"
    /\ \/ /\ reassign(mover["migration"].bot, mover["migration"].to)
          /\ mover' = [mover EXCEPT !["migration"] = Resting]
          /\ UNCHANGED hitches
       \/ /\ hitches < MaxFaults /\ hitches' = hitches + 1
          /\ mover' = [mover EXCEPT !["migration"] = GoOn("migration", "mgUndo")]
          /\ UNCHANGED home
    /\ UNCHANGED <<scene, ground, link, agentUp, wire, rescue, room, joins, removed>>

\* RestoreService.restore
restore ==
    /\ scene.restore # None /\ mover["restore"].pc = "off" /\ box[home[scene.restore]][scene.restore] # "none"
    /\ mover' = [mover EXCEPT !["restore"] =
          [Resting EXCEPT !.pc = "rsExport", !.bot = scene.restore, !.from = home[scene.restore]]]
    /\ UNCHANGED <<scene, home, ground, link, agentUp, wire, rescue, room, joins, hitches, removed>>

\* dispatchEnvUpdate
dispatchEnvUpdate ==
    /\ scene.config # None /\ mover["config"].pc = "off" /\ home[scene.config] # None
    /\ box[home[scene.config]][scene.config] = "running"
    /\ mover' = [mover EXCEPT !["config"] =
          [Resting EXCEPT !.pc = "cfUpdate", !.bot = scene.config, !.from = home[scene.config]]]
    /\ UNCHANGED <<scene, home, ground, link, agentUp, wire, rescue, room, joins, hitches, removed>>

\* collectHeartbeat: the containers an agent reports
reported(n) == {b \in Bots : box[n][b] # "none"}

\* OrphanCleaner.clean: the containers are those of the heartbeat, stopped
\* ones too; the assignments are read once.
clean ==
    /\ scene.comes # None /\ joins < scene.joins /\ link[scene.comes] /\ mover["cleaner"].pc = "off"
    /\ LET n == scene.comes
           orphans == {b \in reported(n) : home[b] # n}
       IN /\ \E b \in orphans : box[n][b] = "running"
          /\ mover' = [mover EXCEPT !["cleaner"] =
                [Resting EXCEPT !.pc = "clNext", !.from = n,
                   !.todo = [i \in 1..Cardinality(orphans) |-> [bot |-> SetToSeq(orphans)[i], entry |-> 0]]]]
    /\ UNCHANGED <<scene, home, ground, link, agentUp, wire, rescue, room, joins, hitches, removed>>

CleanNext ==
    /\ mover["cleaner"].pc = "clNext"
    /\ LET m == mover["cleaner"] IN
       mover' = [mover EXCEPT !["cleaner"] =
          IF m.todo = << >> THEN Resting
          ELSE [m EXCEPT !.pc = "clStop", !.bot = Head(m.todo).bot, !.todo = Tail(m.todo)]]
    /\ UNCHANGED <<scene, home, ground, link, agentUp, wire, rescue, room, joins, hitches, removed>>

-----------------------------------------------------------------------------
Rescue(p) ==
    \/ NextTenant(p) \/ ReassignTenant(p) \/ RecoveryFailed(p)
    \/ createItem(p) \/ updateItem(p) \/ finishRecovery(p)

PlacementNext ==
    \/ \E p \in Movers : Send(p) \/ Timeout(p)
    \/ \E c \in wire : executeCommand(c)
    \/ \E n \in Hosts : \/ SocketClosed(n) \/ Reconnect(n) \/ agentStart(n) \/ runHotBackup(n) \/ RoomAppears(n)
                        \/ \E b \in Bots : attemptRestart(n, b)
    \/ \E p \in {"recovery", "retry"} : Rescue(p)
    \/ triggerRecovery \/ register \/ checkAndRetryWaiting \/ DayPasses
    \/ migrate \/ MigrationReassigns \/ restore \/ dispatchEnvUpdate \/ clean \/ CleanNext

PlacementSpec == PlacementInit /\ [][PlacementNext]_placementVars

-----------------------------------------------------------------------------
PlacementTypeOK ==
    /\ home \in [Bots -> Hosts \cup {None}]
    /\ box \in [Hosts -> [Bots -> {"none", "running", "stopped"}]]
    /\ link \in [Hosts -> BOOLEAN] /\ agentUp \in [Hosts -> BOOLEAN]
    /\ \A n \in Hosts : link[n] => agentUp[n]
    /\ \A p \in Movers : mover[p].wait => mover[p].pc \in DOMAIN Sends(p)
    /\ Len(items) <= MaxItems /\ hitches \in 0..MaxFaults

\* However the commands, timeouts and lost answers of the orchestrators
\* interleave, a bot's row names a node that holds its container, unless a
\* bot.remove or a failed bot.update took that container away afterwards.
AssignedIsThere ==
    \A b \in Bots : home[b] \notin {None, scene.dead} /\ <<home[b], b>> \notin removed
        => box[home[b]][b] # "none"

\* When the recovery and the retries of an event are over and did not overlap,
\* an event that is reported as completed left no bot of the dead node
\* waiting: nobody looks at a completed event again.
CompletedLeavesNobody ==
    /\ event.status = "completed" /\ ~mixed
    /\ ~Rescuing("recovery") /\ ~Rescuing("retry")
    => \A i \in getWaitingItems : home[items[i].bot] # scene.dead

\* A restore that fails after it removed the container puts the bot back from
\* the snapshot it took and uploaded before: with every operation working, the
\* node holds the bot again when the call is over.
RestoreGivesBack ==
    scene.restore # None /\ hitches = 0 /\ mover["restore"].pc = "off"
        => box[home[scene.restore]][scene.restore] # "none"

\* Where the tables say a bot is, it is, and who was recovered is not waiting.
PlacementSafe == PlacementTypeOK /\ AssignedIsThere /\ CompletedLeavesNobody
=============================================================================
