------------------------------- MODULE HotPool ------------------------------
(***************************************************************************)
(* The pool of warm containers (src/src/server/services/hot-pool.ts,       *)
(* hot-pool-claim.ts, pool-repository.ts): a timer cleans up and           *)
(* replenishes, ticks may overlap, a claim takes the oldest warm row and   *)
(* starts another replenishment.                                           *)
(***************************************************************************)
EXTENDS Integers, Sequences, FiniteSets

CONSTANTS
    Ticks,          \* runs of the timer and replenishments after a claim, in flight together
    Claims,         \* claims of tenants
    PoolSizes,      \* what pool_config may say; 0 stands for no pool
    MaxSlots,       \* bound on containers created
    MaxPoolFaults   \* bound on refused Docker calls and on containers that die

ASSUME HotPoolAssumption == PoolSizes \subseteq Nat /\ {MaxSlots, MaxPoolFaults} \subseteq Nat

VARIABLES
    poolSize,       \* pool_config
    slots,          \* pool_instances and their containers, in the order of creation
    tick,           \* each run
    claim,          \* each claim
    poolFaults,
    listedWarm      \* slots a cleanup held as warm when they were claimed

poolVars == <<poolSize, slots, tick, claim, poolFaults, listedWarm>>

Slot == [status |-> "warm", up |-> TRUE, there |-> TRUE, profile |-> FALSE, routed |-> FALSE]

NoTick == [at |-> "off", list |-> {}, deficit |-> 0]
NoClaim == [at |-> "off", slot |-> 0]

Warm == {i \in 1..Len(slots) : slots[i].status = "warm"}

-----------------------------------------------------------------------------
(* Runs of the timer                                                        *)

\* The timer: cleanupDead, then replenishPool.
startHotPool(t) ==
    /\ tick[t].at = "off"
    /\ tick' = [tick EXCEPT ![t] = [NoTick EXCEPT !.at = "list"]]
    /\ UNCHANGED <<poolSize, slots, claim, poolFaults, listedWarm>>

listWarm(t) ==
    /\ tick[t].at = "list"
    /\ tick' = [tick EXCEPT ![t].list = Warm, ![t].at = "clean"]
    /\ UNCHANGED <<poolSize, slots, claim, poolFaults, listedWarm>>

\* markDead is by id, whatever the row has become.
markDead(i) == [slots EXCEPT ![i].status = "dead"]

\* Inspects one listed container after the other, in no particular order: gone or unreachable, its row is marked;
\* stopped, it is removed too.
cleanupDead(t) ==
    /\ tick[t].at = "clean"
    /\ \E i \in tick[t].list :
       /\ tick' = [tick EXCEPT ![t].list = @ \ {i}]
       /\ \/ /\ slots[i].there /\ slots[i].up
             /\ UNCHANGED <<slots, poolFaults>>
          \/ /\ slots[i].there /\ ~slots[i].up
             /\ slots' = [markDead(i) EXCEPT ![i].there = FALSE]
             /\ UNCHANGED poolFaults
          \/ /\ IF slots[i].there THEN poolFaults < MaxPoolFaults /\ poolFaults' = poolFaults + 1 ELSE UNCHANGED poolFaults
             /\ slots' = markDead(i)
    /\ UNCHANGED <<poolSize, claim, listedWarm>>

\* The rows go; a container whose inspection failed stays.
deleteDead(t) ==
    /\ tick[t].at = "clean" /\ tick[t].list = {}
    /\ slots' = [i \in 1..Len(slots) |-> IF slots[i].status = "dead" THEN [slots[i] EXCEPT !.status = "deleted"] ELSE slots[i]]
    /\ tick' = [tick EXCEPT ![t].at = "count"]
    /\ UNCHANGED <<poolSize, claim, poolFaults, listedWarm>>

replenishPool(t) ==
    /\ tick[t].at = "count"
    /\ LET deficit == poolSize - Cardinality(Warm)
       IN tick' = [tick EXCEPT ![t].deficit = deficit, ![t].at = IF deficit > 0 THEN "fill" ELSE "off"]
    /\ UNCHANGED <<poolSize, slots, claim, poolFaults, listedWarm>>

\* The container is started before its row is inserted; a failure is logged and
\* the next one is tried.
createWarmContainer(t) ==
    /\ tick[t].at = "fill"
    /\ \/ /\ Len(slots) < MaxSlots
          /\ slots' = Append(slots, Slot)
          /\ UNCHANGED poolFaults
       \/ /\ poolFaults < MaxPoolFaults /\ poolFaults' = poolFaults + 1
          /\ UNCHANGED slots
    /\ tick' = [tick EXCEPT ![t].deficit = @ - 1, ![t].at = IF tick[t].deficit = 1 THEN "off" ELSE "fill"]
    /\ UNCHANGED <<poolSize, claim, listedWarm>>

\* A warm or claimed container stops, or disappears.
Die(i) ==
    /\ poolFaults < MaxPoolFaults /\ poolFaults' = poolFaults + 1
    /\ slots[i].there /\ slots[i].up
    /\ \E there \in BOOLEAN : slots' = [slots EXCEPT ![i].up = FALSE, ![i].there = there]
    /\ UNCHANGED <<poolSize, tick, claim, listedWarm>>

setPoolSize(n) ==
    /\ poolSize # 0 /\ n # poolSize /\ n # 0
    /\ \A t \in Ticks : tick[t].at = "off"
    /\ poolSize' = n
    /\ UNCHANGED <<slots, tick, claim, poolFaults, listedWarm>>

-----------------------------------------------------------------------------
(* Claims                                                                   *)

\* ORDER BY created_at.
IsOldest(i) == \A j \in Warm : i <= j

\* Mutation: the row is read and not updated.
ClaimAnyOld(k) ==
    /\ claim[k].at = "off"
    /\ \E i \in Warm : IsOldest(i) /\ claim' = [claim EXCEPT ![k] = [at |-> "rename", slot |-> i]]
    /\ UNCHANGED <<poolSize, slots, tick, poolFaults, listedWarm>>

\* One statement: the oldest warm row that is not locked becomes claimed.
claimWarm(k) ==
    /\ claim[k].at = "off"
    /\ \E i \in Warm :
       /\ IsOldest(i)
       /\ slots' = [slots EXCEPT ![i].status = "claimed"]
       /\ claim' = [claim EXCEPT ![k] = [at |-> "rename", slot |-> i]]
       /\ listedWarm' = IF \E t \in Ticks : i \in tick[t].list THEN listedWarm \cup {i} ELSE listedWarm
    /\ UNCHANGED <<poolSize, tick, poolFaults>>

\* A container that cannot be renamed is given up, and so is the claim.
renameContainer(k) ==
    /\ claim[k].at = "rename"
    /\ LET i == claim[k].slot IN
       \/ /\ slots[i].there
          /\ claim' = [claim EXCEPT ![k].at = "profile"]
          /\ UNCHANGED <<slots, poolFaults>>
       \/ /\ IF slots[i].there THEN poolFaults < MaxPoolFaults /\ poolFaults' = poolFaults + 1 ELSE UNCHANGED poolFaults
          /\ slots' = markDead(i)
          /\ claim' = [claim EXCEPT ![k].at = "null"]
    /\ UNCHANGED <<poolSize, tick, listedWarm>>

\* The service key, the profile and the route (a refused one is logged), and the
\* replenishment that is not awaited.
claimPoolInstance(k) ==
    /\ claim[k].at = "profile"
    /\ \E routed \in BOOLEAN : slots' = [slots EXCEPT ![claim[k].slot].profile = TRUE, ![claim[k].slot].routed = routed]
    /\ claim' = [claim EXCEPT ![k].at = "owned"]
    /\ tick' = IF \E t \in Ticks : tick[t].at = "off"
               THEN [tick EXCEPT ![CHOOSE t \in Ticks : tick[t].at = "off"] = [NoTick EXCEPT !.at = "count"]]
               ELSE tick
    /\ UNCHANGED <<poolSize, poolFaults, listedWarm>>

-----------------------------------------------------------------------------

PoolInit ==
    /\ poolSize \in PoolSizes
    /\ slots = <<>>
    /\ tick = [t \in Ticks |-> NoTick]
    /\ claim = [k \in Claims |-> NoClaim]
    /\ poolFaults = 0 /\ listedWarm = {}

PoolNext ==
    \/ \E t \in Ticks : startHotPool(t) \/ listWarm(t) \/ cleanupDead(t) \/ deleteDead(t) \/ replenishPool(t)
                        \/ createWarmContainer(t)
    \/ \E i \in 1..Len(slots) : Die(i)
    \/ \E n \in PoolSizes : setPoolSize(n)
    \/ \E k \in Claims : claimWarm(k) \/ renameContainer(k) \/ claimPoolInstance(k)

PoolSpec == PoolInit /\ [][PoolNext]_poolVars

-----------------------------------------------------------------------------
(* Properties                                                               *)

\* A container belongs to at most one claim, and its row stays claimed and its
\* container stays where it is, unless a cleanup had listed it as warm before it
\* was claimed.
ClaimedStaysClaimed ==
    \A k \in Claims : claim[k].at \in {"profile", "owned"} =>
        LET i == claim[k].slot IN
        /\ \A other \in Claims \ {k} : claim[other].slot # i
        /\ i \notin listedWarm => slots[i].status = "claimed" /\ (slots[i].up => slots[i].there)
=============================================================================
