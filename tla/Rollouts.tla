------------------------------ MODULE Rollouts ------------------------------
(***************************************************************************)
(* How a new image reaches the bots: ImagePoller, initFleetUpdater,        *)
(* RolloutOrchestrator with its strategies, ContainerUpdater and           *)
(* VolumeSnapshotManager (src/src/fleet).  A rollout replaces containers   *)
(* through FleetManager.update, as the caller Roller of module Fleet, so   *)
(* API calls on the same bots interleave with it.                          *)
(***************************************************************************)
EXTENDS Fleet, SequencesExt

CONSTANTS
    Roller,         \* the caller that is the updater
    Plans,          \* what may be configured, see NoPlan
    MaxPublish,     \* bound on pushes of the tag
    MaxRollouts     \* bound on rollouts

VARIABLES
    plan,           \* the configuration of this behaviour
    tracked,        \* ImagePoller.tracked: bots with a timer
    rolling,        \* RolloutOrchestrator.rolling
    phase,          \* where the rollout is
    remaining, batch, retry,
    attempts,       \* allResults of this rollout: failures and successes per bot
    aborted,
    totalFailures,  \* RollingWaveStrategy.totalFailures
    prev,           \* locals of doUpdateBot
    snap,           \* the snapshot of the bot being updated, 0: none
    verdict,        \* each bot: its last reported result and the digest pulled for it
    rollouts

progress == <<remaining, batch, retry, attempts, aborted>>
rolloutVars == <<plan, tracked, rolling, phase, progress, totalFailures, prev, snap, verdict, rollouts>>

NoPlan == [strategy |-> "none", manual |-> {}, configManual |-> {}, pinned |-> {}, percent |-> 25, maxFailures |-> 3]

NoPrev == [image |-> NoImage, digest |-> 0, was |-> FALSE]

ASSUME RolloutsAssumption ==
    /\ Roller \in Callers /\ \A p \in Plans : p.percent \in Nat
    /\ \A w \in Worlds : w.jobs[Roller] = NoJob

b0 == Head(batch)   \* the bot being updated

Zero == [b \in Bots |-> [failed |-> 0, succeeded |-> 0]]

-----------------------------------------------------------------------------
(* Strategies                                                               *)

Ceil(n, percent) == (n * percent + 99) \div 100

RollingWaveBatch(left) ==
    SubSeq(left, 1, CASE Ceil(Len(left), plan.percent) < 1 -> 1
                      [] Ceil(Len(left), plan.percent) \in 1..Len(left) -> Ceil(Len(left), plan.percent)
                      [] OTHER -> Len(left))

SingleBotBatch(left) == SubSeq(left, 1, 1)

nextBatch(left) ==
    CASE plan.strategy = "rolling-wave" -> RollingWaveBatch(left)
      [] plan.strategy = "single-bot" -> SingleBotBatch(left)
      [] OTHER -> left

maxRetries ==
    CASE plan.strategy = "rolling-wave" -> 2
      [] plan.strategy = "single-bot" -> 3
      [] OTHER -> 1

\* onBotFailure: what to do, and the wave's count of failures.
RollingWaveFailure(attempt) ==
    IF attempt < maxRetries THEN <<"retry", totalFailures>>
    ELSE <<IF totalFailures + 1 >= plan.maxFailures THEN "abort" ELSE "skip", totalFailures + 1>>

SingleBotFailure(attempt) == <<IF attempt < maxRetries THEN "retry" ELSE "abort", totalFailures>>

onBotFailure(attempt) ==
    CASE plan.strategy = "rolling-wave" -> RollingWaveFailure(attempt)
      [] plan.strategy = "single-bot" -> SingleBotFailure(attempt)
      [] OTHER -> <<"skip", totalFailures>>

-----------------------------------------------------------------------------
(* The poller                                                               *)

\* A pinned channel is not polled.
trackBot(b) == b \notin plan.pinned

\* A new image is pushed under the tag.
Publish ==
    /\ published < MaxPublish
    /\ published' = published + 1
    /\ UNCHANGED <<world, disk, docker, queue, jobs, caller, faults, history, rolloutVars>>

StartRollout ==
    /\ ~rolling /\ rollouts < MaxRollouts
    /\ rolling' = TRUE /\ rollouts' = rollouts + 1
    /\ phase' = "list"
    /\ UNCHANGED <<fleetVars, plan, tracked, progress, totalFailures, prev, snap, verdict>>

\* The digests are compared, and a difference starts a rollout of all bots, not
\* of this one.  The digest of a pinned reference cannot be fetched.
checkBot(b) ==
    /\ b \in tracked /\ profiles[b] = Tag
    /\ boxes[b] # NoBox /\ boxes[b].digest # published
    /\ b \notin plan.manual
    /\ StartRollout

\* The administrator's button.
forceRollout == plan.strategy # "none" /\ StartRollout

\* The store's list of bots, without the manual ones.
getUpdatableProfiles ==
    /\ phase = "list"
    /\ LET left == SetToSeq({b \in Bots : profiles[b] # NoImage /\ b \notin plan.manual \cup plan.configManual})
       IN /\ remaining' = left
          /\ phase' = IF left = <<>> THEN "end" ELSE "wave"
    /\ attempts' = Zero /\ aborted' = FALSE
    /\ UNCHANGED <<fleetVars, plan, tracked, rolling, batch, retry, totalFailures, prev, snap, verdict, rollouts>>

rollout ==
    /\ phase = "wave"
    /\ batch' = nextBatch(remaining)
    /\ retry' = <<>>
    /\ phase' = "snapshot"
    /\ UNCHANGED <<fleetVars, plan, tracked, rolling, remaining, attempts, aborted, totalFailures,
                   prev, snap, verdict, rollouts>>

-----------------------------------------------------------------------------
(* One bot                                                                  *)

\* A snapshot that fails is only logged.
snapshot ==
    /\ phase = "snapshot"
    /\ \/ snap' = data[b0] /\ UNCHANGED faults
       \/ Refuse /\ snap' = 0
    /\ phase' = "update"
    /\ UNCHANGED <<world, disk, docker, published, queue, jobs, caller, history, plan, tracked, rolling, progress,
                   totalFailures, prev, verdict, rollouts>>

AskFleet(image) ==
    /\ jobs' = [jobs EXCEPT ![Roller] = Job("update", b0, image)]
    /\ caller' = [caller EXCEPT ![Roller] = Idle]

\* doUpdateBot up to fleet.update: what was running, and the pull of the profile's image.
doUpdateBot ==
    /\ phase = "update"
    /\ verdict' = [verdict EXCEPT ![b0] = [ok |-> FALSE, image |-> profiles[b0], digest |-> published]]
    /\ IF profiles[b0] = NoImage
       THEN phase' = "restore" /\ UNCHANGED <<prev, pulled, faults, jobs, caller>>
       ELSE /\ prev' = [image |-> profiles[b0], digest |-> boxes[b0].digest, was |-> boxes[b0].up]
            /\ \/ /\ profiles[b0] # Malformed
                  /\ pulled' = IF profiles[b0] = Tag THEN published ELSE pulled
                  /\ AskFleet(profiles[b0])
                  /\ phase' = "replace"
                  /\ UNCHANGED faults
               \/ /\ IF profiles[b0] = Malformed THEN UNCHANGED faults ELSE Refuse
                  /\ phase' = "rollback" /\ UNCHANGED <<pulled, jobs, caller>>
    /\ UNCHANGED <<world, disk, boxes, made, net, data, onNode, published, queue, history, plan, tracked, rolling,
                   progress, totalFailures, snap, rollouts>>

Reported == verdict' = [verdict EXCEPT ![b0].ok = TRUE]

\* fleet.update answered.  A bot that ran must become healthy before the deadline.
waitForHealthy ==
    /\ phase = "replace" /\ caller[Roller].at = "done"
    /\ LET healthy == boxes[b0].up /\ boxes[b0].digest \notin BadDigests
           good == caller[Roller].ok /\ (prev.was => healthy)
       IN /\ phase' = IF good THEN "cleanup" ELSE "rollback"
          /\ IF good THEN Reported ELSE UNCHANGED verdict
    /\ UNCHANGED <<fleetVars, plan, tracked, rolling, progress, totalFailures, prev, snap, rollouts>>

\* The image is pinned to the old digest; the part of a pinned reference before
\* its colon with a digest appended is no reference.
rollbackImage ==
    CASE prev.digest = 0 -> prev.image
      [] prev.digest # 0 /\ prev.image = Tag -> prev.digest
      [] OTHER -> Malformed

rollback ==
    /\ phase = "rollback"
    /\ AskFleet(rollbackImage)
    /\ phase' = "undone"
    /\ UNCHANGED <<world, disk, docker, published, queue, faults, history, plan, tracked, rolling, progress,
                   totalFailures, prev, snap, verdict, rollouts>>

rolledBack ==
    /\ phase = "undone" /\ caller[Roller].at = "done"
    /\ phase' = "restore"
    /\ UNCHANGED <<fleetVars, plan, tracked, rolling, progress, totalFailures, prev, snap, verdict, rollouts>>

NotRestored ==
    /\ phase = "restore"
    /\ UNCHANGED <<data, faults>>
    /\ phase' = "failed"
    /\ UNCHANGED <<world, disk, boxes, made, net, pulled, onNode, published, queue, jobs, caller, history, plan, tracked,
                   rolling, progress, totalFailures, prev, snap, verdict, rollouts>>

\* A snapshot that cannot be restored is only logged.
restoreVolumes ==
    /\ phase = "restore"
    /\ \/ data' = [data EXCEPT ![b0] = IF snap = 0 THEN @ ELSE snap] /\ UNCHANGED faults
       \/ snap # 0 /\ Refuse /\ UNCHANGED data
    /\ phase' = "failed"
    /\ UNCHANGED <<world, disk, boxes, made, net, pulled, onNode, published, queue, jobs, caller, history, plan, tracked,
                   rolling, progress, totalFailures, prev, snap, verdict, rollouts>>

\* The end of the wave: what was not in it, then what is to be retried.
Advance(retried, halted) ==
    IF Len(batch) > 1 /\ ~halted
    THEN /\ batch' = Tail(batch) /\ retry' = retried /\ phase' = "snapshot"
         /\ UNCHANGED remaining
    ELSE LET left == SubSeq(remaining, Len(nextBatch(remaining)) + 1, Len(remaining)) \o retried
         IN /\ remaining' = left /\ batch' = <<>> /\ retry' = <<>>
            /\ phase' = IF left = <<>> \/ halted THEN "end" ELSE "wave"

cleanupSnapshots ==
    /\ phase = "cleanup"
    /\ snap' = 0
    /\ attempts' = [attempts EXCEPT ![b0].succeeded = @ + 1]
    /\ Advance(retry, FALSE)
    /\ UNCHANGED <<fleetVars, plan, tracked, rolling, aborted, totalFailures, prev, verdict, rollouts>>

\* Counts the failures of this bot in this rollout and asks the strategy.
handleFailure ==
    /\ phase = "failed"
    /\ attempts' = [attempts EXCEPT ![b0].failed = @ + 1]
    /\ LET answer == onBotFailure(attempts[b0].failed + 1)
       IN /\ totalFailures' = answer[2]
          /\ aborted' = (answer[1] = "abort")
          /\ Advance(IF answer[1] = "retry" THEN Append(retry, b0) ELSE retry, answer[1] = "abort")
    /\ snap' = 0
    /\ UNCHANGED <<fleetVars, plan, tracked, rolling, prev, verdict, rollouts>>

onRolloutComplete ==
    /\ phase = "end"
    /\ rolling' = FALSE /\ phase' = "rest"
    /\ UNCHANGED <<fleetVars, plan, tracked, progress, totalFailures, prev, snap, verdict, rollouts>>

-----------------------------------------------------------------------------

RolloutsInit ==
    /\ FleetInit
    /\ plan \in Plans
    /\ tracked = {b \in Bots : profiles[b] # NoImage /\ trackBot(b)}
    /\ rolling = FALSE /\ phase = "rest"
    /\ remaining = <<>> /\ batch = <<>> /\ retry = <<>>
    /\ attempts = Zero /\ aborted = FALSE
    /\ totalFailures = 0
    /\ prev = NoPrev /\ snap = 0
    /\ verdict = [b \in Bots |-> [ok |-> FALSE, image |-> NoImage, digest |-> 0]]
    /\ rollouts = 0

RolloutStep ==
    \/ getUpdatableProfiles \/ rollout \/ snapshot \/ doUpdateBot \/ waitForHealthy \/ rollback \/ rolledBack
    \/ restoreVolumes \/ cleanupSnapshots \/ handleFailure \/ onRolloutComplete

RolloutsNext ==
    \/ FleetNext /\ UNCHANGED rolloutVars
    \/ plan.strategy # "none" /\ (Publish \/ forceRollout \/ \E b \in Bots : checkBot(b))
    \/ RolloutStep

RolloutsSpec == RolloutsInit /\ [][RolloutsNext]_<<fleetVars, rolloutVars>>

-----------------------------------------------------------------------------
(* Properties                                                               *)

InRollout(b) == phase \notin {"rest", "list", "wave", "end"} /\ b = b0

\* A rollout never leaves a running bot with data a newer image has written, as
\* long as no snapshot, restore or container call was refused and nobody else
\* chose an image for the bot: a rollout that read the profile before a bot was
\* removed and created anew puts the image it read on the new bot.
DataFitsImage ==
    \A b \in Bots :
        /\ faults = 0 /\ boxes[b].up /\ Quiet(b) /\ ~InRollout(b) /\ b \notin unsettled
        /\ \A c \in Callers \ {Roller} : B(c) = b => jobs[c].op \notin {"create", "update"}
        => data[b] <= boxes[b].digest

\* A bot reported as updated from the tag runs an image at least as new as the
\* one the tag meant when its update began, until another call on the bot.
SuccessRunsPulled ==
    \A b \in Bots :
        /\ verdict[b].ok /\ verdict[b].image = Tag /\ Quiet(b) /\ ~InRollout(b)
        /\ \A c \in Callers \ {Roller} : B(c) # b
        => boxes[b].digest >= verdict[b].digest \/ boxes[b] = NoBox

\* A rollout leaves a bot on an image that fits its data, and reports what runs.
RolloutsSafe == DataFitsImage /\ SuccessRunsPulled
=============================================================================
