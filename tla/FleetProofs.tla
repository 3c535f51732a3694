----------------------------- MODULE FleetProofs ----------------------------
(***************************************************************************)
(* Proofs about the fleet: the hot pool, for every number of ticks and     *)
(* claims and every size of the pool; the mail queue, its workers and the  *)
(* mails of the day, for every set of rows, senders and workers; the       *)
(* machines bought and watched, for every set of nodes, buyers and checks; *)
(* and the billing crons, for every set of tenants, bots and runs.         *)
(***************************************************************************)
EXTENDS HotPool, Notifications, Capacity, Billing, FiniteSetTheorems,
        WellFoundedInduction, NaturalsInduction, TLAPS

-----------------------------------------------------------------------------
(* The hot pool                                                             *)

SlotRows == [status : {"warm", "claimed", "dead", "deleted"}, up : BOOLEAN, there : BOOLEAN,
             profile : BOOLEAN, routed : BOOLEAN]
TickRows == [at : {"off", "list", "clean", "count", "fill"}, list : SUBSET Nat, deficit : Int]
Claiming == {"rename", "profile", "owned"}
ClaimRows == [at : {"off", "null"} \cup Claiming, slot : Nat]

PoolTypes ==
    /\ poolSize \in Nat /\ slots \in Seq(SlotRows)
    /\ tick \in [Ticks -> TickRows]
    /\ \A t \in Ticks : tick[t].list \subseteq 1..Len(slots)
    /\ claim \in [Claims -> ClaimRows]

\* A claim that has begun has a slot of its own, which is not warm any more.
SlotsApart ==
    /\ \A k \in Claims : claim[k].at = "off" => claim[k].slot = 0
    /\ \A k \in Claims : claim[k].at # "off" =>
         claim[k].slot \in 1..Len(slots) /\ slots[claim[k].slot].status # "warm"
    /\ \A j, k \in Claims : claim[j].slot = claim[k].slot /\ claim[j].slot # 0 => j = k

\* No cleanup is about to inspect a slot that was claimed, but for those that had
\* listed it before.
OutOfReach ==
    \A k \in Claims : claim[k].at \in Claiming /\ claim[k].slot \notin listedWarm =>
        /\ slots[claim[k].slot].status = "claimed"
        /\ \A t \in Ticks : claim[k].slot \notin tick[t].list

\* A container that runs is there.
UpIsThere == \A i \in 1..Len(slots) : slots[i].up => slots[i].there

PoolInv == PoolTypes /\ SlotsApart /\ OutOfReach /\ UpIsThere

\* An empty pool.
LEMMA PoolInitInv == PoolInit => PoolInv
  BY HotPoolAssumption DEF PoolInit, PoolInv, PoolTypes, SlotsApart, OutOfReach, UpIsThere, NoTick, NoClaim,
                           TickRows, ClaimRows, Claiming

\* A run of the timer that touches no slot and lists at most what is warm.
LEMMA TickKeeps ==
    ASSUME PoolInv, NEW t \in Ticks, UNCHANGED <<poolSize, slots, claim, listedWarm>>,
           tick' \in [Ticks -> TickRows],
           \A u \in Ticks \ {t} : tick'[u] = tick[u],
           tick'[t].list \subseteq tick[t].list \cup Warm
    PROVE  PoolInv'
  <1>1. \A u \in Ticks : tick'[u].list \subseteq tick[u].list \cup Warm
    OBVIOUS
  <1>2. PoolTypes'
    BY <1>1 DEF PoolInv, PoolTypes, Warm
  <1>3. SlotsApart' /\ UpIsThere'
    BY DEF PoolInv, SlotsApart, UpIsThere
  <1>4. OutOfReach'
    BY <1>1 DEF PoolInv, OutOfReach, Warm
  <1>. QED
    BY <1>2, <1>3, <1>4 DEF PoolInv

\* A step that changes one slot, and leaves a slot that was claimed in peace
\* unless its own claim gives it up.
LEMMA SlotChanges ==
    ASSUME PoolInv, NEW i \in 1..Len(slots), slots' \in Seq(SlotRows), Len(slots') = Len(slots),
           \A j \in (1..Len(slots)) \ {i} : slots'[j] = slots[j],
           slots'[i].status = "warm" => slots[i].status = "warm",
           slots'[i].up => slots'[i].there,
           claim' \in [Claims -> ClaimRows],
           \A k \in Claims : claim'[k].slot = claim[k].slot /\ (claim'[k].at = "off" <=> claim[k].at = "off")
                             /\ (claim'[k].at \in Claiming => claim[k].at \in Claiming),
           \A k \in Claims : claim'[k].at \in Claiming /\ claim[k].slot = i /\ i \notin listedWarm =>
                                slots'[i].status = slots[i].status,
           tick' \in [Ticks -> TickRows],
           \A u \in Ticks : tick'[u].list \subseteq tick[u].list,
           UNCHANGED <<poolSize, listedWarm>>
    PROVE  PoolInv'
  <1>1. PoolTypes'
    BY DEF PoolInv, PoolTypes
  <1>2. SlotsApart'
    BY DEF PoolInv, SlotsApart
  <1>3. OutOfReach'
    <2>. SUFFICES ASSUME NEW k \in Claims, claim'[k].at \in Claiming, claim'[k].slot \notin listedWarm
                  PROVE  /\ slots'[claim[k].slot].status = "claimed"
                         /\ \A t \in Ticks : claim[k].slot \notin tick'[t].list
      BY DEF OutOfReach
    <2>1. /\ slots[claim[k].slot].status = "claimed" /\ claim[k].slot \in 1..Len(slots)
          /\ \A t \in Ticks : claim[k].slot \notin tick[t].list
      BY DEF PoolInv, SlotsApart, OutOfReach, Claiming
    <2>2. CASE claim[k].slot = i
      BY <2>1, <2>2
    <2>3. CASE claim[k].slot # i
      BY <2>1, <2>3
    <2>. QED
      BY <2>2, <2>3
  <1>4. UpIsThere'
    BY DEF PoolInv, UpIsThere
  <1>. QED
    BY <1>1, <1>2, <1>3, <1>4 DEF PoolInv

\* Changing a field of a slot.
LEMMA SlotFields ==
    ASSUME PoolTypes, NEW i \in 1..Len(slots), NEW row \in SlotRows
    PROVE  /\ [slots EXCEPT ![i] = row] \in Seq(SlotRows) /\ Len([slots EXCEPT ![i] = row]) = Len(slots)
           /\ [slots EXCEPT ![i] = row][i] = row /\ slots[i] \in SlotRows
           /\ \A j \in (1..Len(slots)) \ {i} : [slots EXCEPT ![i] = row][j] = slots[j]
  BY DEF PoolTypes

\* The warm slots can be counted.
LEMMA WarmCounted == ASSUME PoolTypes PROVE Cardinality(Warm) \in Nat /\ Warm \subseteq 1..Len(slots)
  <1>1. Len(slots) \in Nat /\ Warm \in SUBSET (1..Len(slots))
    BY DEF PoolTypes, Warm
  <1>2. IsFiniteSet(1..Len(slots))
    BY <1>1, FS_Interval
  <1>. QED
    BY <1>1, <1>2, FS_Subset, FS_CardinalityType

\* A run of the timer keeps the pool.
LEMMA TickSteps ==
    ASSUME PoolInv, NEW t \in Ticks,
           \/ startHotPool(t) \/ listWarm(t) \/ cleanupDead(t) \/ deleteDead(t)
           \/ replenishPool(t) \/ createWarmContainer(t)
    PROVE  PoolInv'
  <1>0. PoolTypes /\ tick[t] \in TickRows /\ tick[t].list \subseteq 1..Len(slots) /\ Len(slots) \in Nat
    BY DEF PoolInv, PoolTypes
  <1>1. CASE startHotPool(t)
    <2>. PICK fresh : fresh = [NoTick EXCEPT !.at = "list"]
      OBVIOUS
    <2>1. fresh \in TickRows /\ fresh.list = {}
      BY DEF NoTick, TickRows
    <2>2. tick' = [tick EXCEPT ![t] = fresh] /\ UNCHANGED <<poolSize, slots, claim, listedWarm>>
      BY <1>1, <2>1 DEF startHotPool
    <2>. QED
      BY <1>0, <2>1, <2>2, TickKeeps DEF PoolTypes
  <1>2. CASE listWarm(t)
    <2>1. Warm \in SUBSET Nat
      BY <1>0, WarmCounted
    <2>. QED
      BY <1>0, <1>2, <2>1, TickKeeps DEF listWarm, TickRows, PoolTypes
  <1>3. CASE replenishPool(t)
    <2>1. poolSize - Cardinality(Warm) \in Int
      BY <1>0, WarmCounted DEF PoolTypes
    <2>. QED
      BY <1>0, <1>3, <2>1, TickKeeps DEF replenishPool, TickRows, PoolTypes
  <1>4. CASE cleanupDead(t)
    <2>1. PICK i \in tick[t].list :
            /\ tick' = [tick EXCEPT ![t].list = @ \ {i}]
            /\ \/ UNCHANGED slots
               \/ slots' = [markDead(i) EXCEPT ![i].there = FALSE] /\ ~slots[i].up
               \/ slots' = markDead(i)
      BY <1>4 DEF cleanupDead
    <2>2. UNCHANGED <<poolSize, claim, listedWarm>> /\ i \in 1..Len(slots) /\ slots[i] \in SlotRows
      BY <1>0, <1>4, <2>1, SlotFields DEF cleanupDead, PoolTypes
    <2>3. /\ tick' \in [Ticks -> TickRows]
          /\ \A u \in Ticks : tick'[u].list \subseteq tick[u].list
          /\ \A u \in Ticks \ {t} : tick'[u] = tick[u]
      BY <1>0, <2>1 DEF PoolTypes, TickRows
    <2>4. CASE UNCHANGED slots
      BY <2>2, <2>3, <2>4, TickKeeps
    <2>5. ASSUME NEW row \in SlotRows, slots' = [slots EXCEPT ![i] = row], row.status # "warm", row.up => row.there
          PROVE  PoolInv'
      <3>1. \A k \in Claims : claim[k].at \in Claiming /\ claim[k].slot = i => i \in listedWarm
        BY <2>1 DEF PoolInv, OutOfReach
      <3>2. claim' \in [Claims -> ClaimRows]
        BY <2>2 DEF PoolInv, PoolTypes
      <3>. QED
        BY <1>0, <2>2, <2>3, <2>5, <3>1, <3>2, SlotFields, SlotChanges
    <2>6. CASE slots' = [markDead(i) EXCEPT ![i].there = FALSE] /\ ~slots[i].up
      <3>1. slots' = [slots EXCEPT ![i] = [slots[i] EXCEPT !.status = "dead", !.there = FALSE]]
        BY <1>0, <2>2, <2>6 DEF markDead, PoolTypes
      <3>2. PICK row \in SlotRows : row = [slots[i] EXCEPT !.status = "dead", !.there = FALSE]
        BY <2>2 DEF SlotRows
      <3>. QED
        BY <2>2, <2>5, <2>6, <3>1, <3>2 DEF SlotRows
    <2>7. CASE slots' = markDead(i)
      <3>1. slots' = [slots EXCEPT ![i] = [slots[i] EXCEPT !.status = "dead"]]
        BY <1>0, <2>2, <2>7 DEF markDead, PoolTypes
      <3>2. PICK row \in SlotRows : row = [slots[i] EXCEPT !.status = "dead"]
        BY <2>2 DEF SlotRows
      <3>3. row.up => row.there
        BY <2>2, <3>2 DEF PoolInv, UpIsThere, SlotRows
      <3>. QED
        BY <2>2, <2>5, <2>7, <3>1, <3>2, <3>3 DEF SlotRows
    <2>. QED
      BY <2>1, <2>4, <2>6, <2>7
  <1>5. CASE deleteDead(t)
    <2>1. /\ slots' = [i \in 1..Len(slots) |->
                         IF slots[i].status = "dead" THEN [slots[i] EXCEPT !.status = "deleted"] ELSE slots[i]]
          /\ tick' = [tick EXCEPT ![t].at = "count"] /\ UNCHANGED <<poolSize, claim, listedWarm>>
      BY <1>5 DEF deleteDead
    <2>2. /\ slots' \in Seq(SlotRows) /\ Len(slots') = Len(slots)
          /\ \A i \in 1..Len(slots) : /\ slots[i].status # "dead" => slots'[i] = slots[i]
                                      /\ slots[i].status = "dead" => slots'[i].status = "deleted"
                                      /\ slots'[i].up = slots[i].up /\ slots'[i].there = slots[i].there
      <3>1. \A i \in 1..Len(slots) : slots[i] \in SlotRows
        BY <1>0 DEF PoolTypes
      <3>2. slots' \in [1..Len(slots) -> SlotRows]
        BY <2>1, <3>1 DEF SlotRows
      <3>3. slots' \in Seq(SlotRows) /\ Len(slots') = Len(slots)
        BY <1>0, <3>2
      <3>. QED
        BY <2>1, <3>1, <3>3 DEF SlotRows
    <2>3. tick' \in [Ticks -> TickRows] /\ \A u \in Ticks : tick'[u].list = tick[u].list
      BY <1>0, <2>1 DEF PoolTypes, TickRows
    <2>4. PoolTypes'
      BY <1>0, <2>1, <2>2, <2>3 DEF PoolTypes
    <2>5. SlotsApart' /\ UpIsThere'
      BY <2>1, <2>2 DEF PoolInv, SlotsApart, UpIsThere
    <2>6. OutOfReach'
      BY <2>1, <2>2, <2>3 DEF PoolInv, SlotsApart, OutOfReach, Claiming
    <2>. QED
      BY <2>4, <2>5, <2>6 DEF PoolInv
  <1>6. CASE createWarmContainer(t)
    <2>1. /\ slots' = Append(slots, Slot) \/ UNCHANGED slots
          /\ UNCHANGED <<poolSize, claim, listedWarm>>
          /\ tick' \in [Ticks -> TickRows] /\ \A u \in Ticks : tick'[u].list = tick[u].list
          /\ \A u \in Ticks \ {t} : tick'[u] = tick[u]
      <3>1. PICK at \in {"off", "fill"} : tick' = [tick EXCEPT ![t].deficit = tick[t].deficit - 1, ![t].at = at]
        BY <1>6 DEF createWarmContainer
      <3>. PICK left : left = [tick[t] EXCEPT !.deficit = tick[t].deficit - 1, !.at = at]
        OBVIOUS
      <3>2. left \in TickRows
        <4>1. tick[t].deficit - 1 \in Int
          BY <1>0 DEF TickRows
        <4>2. PICK d \in Int : d = tick[t].deficit - 1
          BY <4>1
        <4>3. left = [tick[t] EXCEPT !.deficit = d, !.at = at]
          BY <4>2
        <4>. QED
          BY <1>0, <4>3 DEF TickRows
      <3>3. tick' = [tick EXCEPT ![t] = left] /\ left.list = tick[t].list
        BY <1>0, <3>1, <3>2 DEF PoolTypes, TickRows
      <3>. QED
        BY <1>0, <1>6, <3>2, <3>3 DEF createWarmContainer, PoolTypes
    <2>2. CASE UNCHANGED slots
      BY <2>1, <2>2, TickKeeps
    <2>3. CASE slots' = Append(slots, Slot)
      <3>1. /\ slots' \in Seq(SlotRows) /\ Len(slots') = Len(slots) + 1 /\ slots'[Len(slots) + 1] = Slot
            /\ \A i \in 1..Len(slots) : slots'[i] = slots[i]
        BY <1>0, <2>3 DEF PoolTypes, Slot, SlotRows
      <3>2. \A i \in 1..Len(slots') : i \in 1..Len(slots) \/ i = Len(slots) + 1
        BY <1>0, <3>1
      <3>3. 1..Len(slots) \subseteq 1..Len(slots')
        BY <1>0, <3>1
      <3>4. PoolTypes'
        BY <1>0, <2>1, <3>1, <3>3 DEF PoolTypes
      <3>5. SlotsApart'
        BY <2>1, <3>1, <3>3 DEF PoolInv, SlotsApart
      <3>6. OutOfReach'
        BY <2>1, <3>1 DEF PoolInv, SlotsApart, OutOfReach, Claiming
      <3>7. UpIsThere'
        BY <3>1, <3>2 DEF PoolInv, UpIsThere, Slot
      <3>. QED
        BY <3>4, <3>5, <3>6, <3>7 DEF PoolInv
    <2>. QED
      BY <2>1, <2>2, <2>3
  <1>. QED
    BY <1>1, <1>2, <1>3, <1>4, <1>5, <1>6

\* A claim keeps the pool.
LEMMA ClaimSteps ==
    ASSUME PoolInv, NEW k \in Claims, claimWarm(k) \/ renameContainer(k) \/ claimPoolInstance(k)
    PROVE  PoolInv'
  <1>0. PoolTypes /\ claim[k] \in ClaimRows /\ Len(slots) \in Nat
    BY DEF PoolInv, PoolTypes
  <1>1. CASE claimWarm(k)
    <2>1. PICK i \in Warm :
            /\ slots' = [slots EXCEPT ![i].status = "claimed"]
            /\ claim' = [claim EXCEPT ![k] = [at |-> "rename", slot |-> i]]
            /\ listedWarm' = IF \E t \in Ticks : i \in tick[t].list THEN listedWarm \cup {i} ELSE listedWarm
      BY <1>1 DEF claimWarm
    <2>2. UNCHANGED <<poolSize, tick>> /\ claim[k].at = "off" /\ i \in 1..Len(slots) /\ slots[i].status = "warm"
      BY <1>1, <2>1 DEF claimWarm, Warm
    <2>. PICK row : row = [slots[i] EXCEPT !.status = "claimed"]
      OBVIOUS
    <2>3. slots[i] \in SlotRows /\ row \in SlotRows
      <3>1. slots[i] \in SlotRows
        BY <1>0, <2>2 DEF PoolTypes
      <3>. QED
        BY <3>1 DEF SlotRows
    <2>4. slots[i] \in SlotRows /\ slots' = [slots EXCEPT ![i] = row] /\ row.status = "claimed"
          /\ row.up = slots[i].up /\ row.there = slots[i].there
      BY <1>0, <2>1, <2>2, <2>3 DEF PoolTypes, SlotRows
    <2>5. /\ slots' \in Seq(SlotRows) /\ Len(slots') = Len(slots) /\ slots'[i] = row
          /\ \A j \in (1..Len(slots)) \ {i} : slots'[j] = slots[j]
      BY <1>0, <2>2, <2>3, <2>4, SlotFields
    <2>6. /\ claim' \in [Claims -> ClaimRows] /\ claim'[k].at = "rename" /\ claim'[k].slot = i
          /\ \A j \in Claims \ {k} : claim'[j] = claim[j]
      BY <1>0, <2>1, <2>2 DEF PoolTypes, ClaimRows, Claiming
    <2>7. \A j \in Claims : claim[j].slot # i
      BY <2>2 DEF PoolInv, SlotsApart
    <2>8. PoolTypes'
      BY <1>0, <2>2, <2>5, <2>6 DEF PoolTypes
    <2>9. SlotsApart'
      BY <2>2, <2>4, <2>5, <2>6, <2>7 DEF PoolInv, SlotsApart
    <2>10. OutOfReach'
      BY <2>1, <2>2, <2>4, <2>5, <2>6, <2>7 DEF PoolInv, SlotsApart, OutOfReach, Claiming
    <2>11. UpIsThere'
      BY <2>2, <2>4, <2>5 DEF PoolInv, UpIsThere
    <2>. QED
      BY <2>8, <2>9, <2>10, <2>11 DEF PoolInv
  <1>. PICK i : i = claim[k].slot
    OBVIOUS
  <1>2. ASSUME claim[k].at \in Claiming, UNCHANGED <<poolSize, listedWarm>>, NEW at \in {"null"} \cup Claiming,
               claim' = [claim EXCEPT ![k].at = at], NEW row \in SlotRows, slots' = [slots EXCEPT ![i] = row],
               row.status # "warm", row.up => row.there, at # "null" => row.status = slots[i].status,
               tick' \in [Ticks -> TickRows], \A u \in Ticks : tick'[u].list \subseteq tick[u].list
        PROVE  PoolInv'
    <2>1. i \in 1..Len(slots) /\ claim[k].at # "off"
      BY <1>2 DEF PoolInv, SlotsApart, Claiming
    <2>2. /\ claim' \in [Claims -> ClaimRows] /\ claim'[k].at = at /\ claim'[k].slot = i
          /\ \A j \in Claims \ {k} : claim'[j] = claim[j]
      BY <1>0, <1>2 DEF PoolTypes, ClaimRows
    <2>3. \A j \in Claims : claim[j].slot = i => j = k
      BY <1>0, <2>1 DEF PoolInv, SlotsApart
    <2>4. /\ slots' \in Seq(SlotRows) /\ Len(slots') = Len(slots) /\ slots'[i] = row
          /\ \A j \in (1..Len(slots)) \ {i} : slots'[j] = slots[j]
      BY <1>0, <1>2, <2>1, SlotFields
    <2>5. \A j \in Claims : claim'[j].slot = claim[j].slot /\ (claim'[j].at = "off" <=> claim[j].at = "off")
                            /\ (claim'[j].at \in Claiming => claim[j].at \in Claiming)
      BY <1>2, <2>1, <2>2 DEF Claiming
    <2>6. \A j \in Claims : claim'[j].at \in Claiming /\ claim[j].slot = i /\ i \notin listedWarm =>
                                slots'[i].status = slots[i].status
      BY <1>2, <2>2, <2>3, <2>4 DEF Claiming
    <2>. QED
      BY <1>2, <2>1, <2>2, <2>4, <2>5, <2>6, SlotChanges
  <1>3. ASSUME claim[k].at \in Claiming
        PROVE  i \in 1..Len(slots) /\ slots[i] \in SlotRows /\ slots[i].status # "warm" /\ (slots[i].up => slots[i].there)
    BY <1>0, <1>3 DEF PoolInv, PoolTypes, SlotsApart, UpIsThere, Claiming
  <1>4. CASE renameContainer(k)
    <2>1. claim[k].at \in Claiming /\ UNCHANGED <<poolSize, tick, listedWarm>>
      BY <1>4 DEF renameContainer, Claiming
    <2>2. \/ claim' = [claim EXCEPT ![k].at = "profile"] /\ UNCHANGED slots
          \/ claim' = [claim EXCEPT ![k].at = "null"] /\ slots' = markDead(i)
      BY <1>4 DEF renameContainer
    <2>3. tick' \in [Ticks -> TickRows] /\ \A u \in Ticks : tick'[u].list \subseteq tick[u].list
      BY <1>0, <2>1 DEF PoolTypes
    <2>4. CASE claim' = [claim EXCEPT ![k].at = "profile"] /\ UNCHANGED slots
      <3>1. slots' = [slots EXCEPT ![i] = slots[i]]
        BY <1>0, <1>3, <2>1, <2>4 DEF PoolTypes
      <3>. QED
        BY <1>2, <1>3, <2>1, <2>3, <2>4, <3>1 DEF Claiming
    <2>5. CASE claim' = [claim EXCEPT ![k].at = "null"] /\ slots' = markDead(i)
      <3>1. PICK row \in SlotRows : row = [slots[i] EXCEPT !.status = "dead"]
        BY <1>3, <2>1 DEF SlotRows
      <3>2. slots' = [slots EXCEPT ![i] = row] /\ row.status = "dead" /\ row.up = slots[i].up /\ row.there = slots[i].there
        BY <1>0, <1>3, <2>1, <2>5, <3>1 DEF markDead, PoolTypes, SlotRows
      <3>. QED
        BY <1>2, <1>3, <2>1, <2>3, <2>5, <3>2
    <2>. QED
      BY <2>2, <2>4, <2>5
  <1>5. CASE claimPoolInstance(k)
    <2>1. claim[k].at \in Claiming /\ UNCHANGED <<poolSize, listedWarm>> /\ claim' = [claim EXCEPT ![k].at = "owned"]
      BY <1>5 DEF claimPoolInstance, Claiming
    <2>2. PICK routed \in BOOLEAN : slots' = [slots EXCEPT ![i].profile = TRUE, ![i].routed = routed]
      BY <1>5 DEF claimPoolInstance
    <2>3. PICK row \in SlotRows : row = [slots[i] EXCEPT !.profile = TRUE, !.routed = routed]
      BY <1>3, <2>1 DEF SlotRows
    <2>4. /\ slots' = [slots EXCEPT ![i] = row] /\ row.status = slots[i].status
          /\ row.up = slots[i].up /\ row.there = slots[i].there
      BY <1>0, <1>3, <2>1, <2>2, <2>3 DEF PoolTypes, SlotRows
    <2>5. tick' \in [Ticks -> TickRows] /\ \A u \in Ticks : tick'[u].list \subseteq tick[u].list
      <3>1. NoTick.list = {} /\ [NoTick EXCEPT !.at = "count"] \in TickRows /\ [NoTick EXCEPT !.at = "count"].list = {}
        BY DEF NoTick, TickRows
      <3>2. tick \in [Ticks -> TickRows]
        BY <1>0 DEF PoolTypes
      <3>3. UNCHANGED tick \/ \E u \in Ticks : tick' = [tick EXCEPT ![u] = [NoTick EXCEPT !.at = "count"]]
        BY <1>5 DEF claimPoolInstance
      <3>. QED
        BY <3>1, <3>2, <3>3
    <2>. QED
      BY <1>2, <1>3, <2>1, <2>4, <2>5 DEF Claiming
  <1>. QED
    BY <1>1, <1>4, <1>5

\* Every step keeps the pool.
LEMMA PoolStepInv ==
    ASSUME PoolInv, [PoolNext]_poolVars
    PROVE  PoolInv'
  <1>1. CASE UNCHANGED <<slots, tick, claim, listedWarm>> /\ poolSize' \in Nat
    BY <1>1 DEF PoolInv, PoolTypes, SlotsApart, OutOfReach, UpIsThere
  <1>2. ASSUME NEW i \in 1..Len(slots), Die(i) PROVE PoolInv'
    <2>1. PICK there \in BOOLEAN : slots' = [slots EXCEPT ![i].up = FALSE, ![i].there = there]
      BY <1>2 DEF Die
    <2>2. UNCHANGED <<poolSize, tick, claim, listedWarm>> /\ PoolTypes /\ slots[i] \in SlotRows
      BY <1>2 DEF Die, PoolInv, PoolTypes
    <2>3. PICK row \in SlotRows : row = [slots[i] EXCEPT !.up = FALSE, !.there = there]
      BY <2>2 DEF SlotRows
    <2>4. slots' = [slots EXCEPT ![i] = row] /\ row.status = slots[i].status /\ ~row.up
      BY <2>1, <2>2, <2>3 DEF PoolTypes, SlotRows
    <2>5. claim' \in [Claims -> ClaimRows] /\ tick' \in [Ticks -> TickRows]
      BY <2>2 DEF PoolTypes
    <2>. QED
      BY <2>2, <2>4, <2>5, SlotFields, SlotChanges
  <1>3. ASSUME NEW n \in PoolSizes, setPoolSize(n) PROVE PoolInv'
    BY <1>1, <1>3, HotPoolAssumption DEF setPoolSize
  <1>4. CASE UNCHANGED poolVars
    BY <1>1, <1>4 DEF poolVars, PoolInv, PoolTypes
  <1>. QED
    BY <1>2, <1>3, <1>4, TickSteps, ClaimSteps DEF PoolNext

\* A claimed container is its tenant's and stays (hot-pool.ts, hot-pool-claim.ts),
\* but for one that a cleanup had listed before it was claimed.
THEOREM ClaimsStay == PoolSpec => []ClaimedStaysClaimed
  <1>1. PoolInv => ClaimedStaysClaimed
    <2>. SUFFICES ASSUME PoolInv, NEW k \in Claims, claim[k].at \in {"profile", "owned"}
                  PROVE  /\ \A other \in Claims \ {k} : claim[other].slot # claim[k].slot
                         /\ claim[k].slot \notin listedWarm =>
                              /\ slots[claim[k].slot].status = "claimed"
                              /\ slots[claim[k].slot].up => slots[claim[k].slot].there
      BY DEF ClaimedStaysClaimed
    <2>1. claim[k].slot \in 1..Len(slots) /\ claim[k].slot # 0
      BY DEF PoolInv, PoolTypes, SlotsApart
    <2>. QED
      BY <2>1 DEF PoolInv, SlotsApart, OutOfReach, UpIsThere, Claiming
  <1>. QED
    BY <1>1, PoolInitInv, PoolStepInv, PTL DEF PoolSpec

-----------------------------------------------------------------------------
(* Mail and notifications                                                 *)

\* The texts about credits use fields their callers supply.
LEMMA CreditTextsFilled == \A m \in DOMAIN CreditTexts : CreditTexts[m] \subseteq notify(m)
  BY DEF CreditTexts, notify, CreditMails, PaymentMails, AccountMails, FleetMails
\* So do those about accounts.
LEMMA AccountTextsFilled == \A m \in DOMAIN AccountTexts : AccountTexts[m] \subseteq notify(m)
  BY DEF AccountTexts, notify, CreditMails, PaymentMails, AccountMails, FleetMails
\* So do those about deletions.
LEMMA DeletionTextsFilled == \A m \in DOMAIN DeletionTexts : DeletionTexts[m] \subseteq notify(m)
  BY DEF DeletionTexts, notify, CreditMails, PaymentMails, AccountMails, FleetMails
\* So do the digests.
LEMMA DigestTextsFilled == \A m \in DOMAIN DigestTexts : DigestTexts[m] \subseteq notify(m)
  BY DEF DigestTexts, notify, CreditMails, PaymentMails, AccountMails, FleetMails
\* So do those without a layout of their own.
LEMMA PlainTextsFilled == \A m \in DOMAIN PlainTexts : PlainTexts[m] \subseteq notify(m)
  BY DEF PlainTexts, notify, CreditMails, PaymentMails, AccountMails, FleetMails
\* So do those that print what they are passed.
LEMMA PassedTextsFilled == \A m \in DOMAIN PassedTexts : PassedTexts[m] \subseteq notify(m)
  BY DEF PassedTexts, notify, CreditMails, PaymentMails, AccountMails, FleetMails
\* No template in code prints a field that its caller does not supply.
LEMMA TextsFilled == \A m \in TextTemplates : renderNotificationTemplate(m) \subseteq notify(m)
  BY CreditTextsFilled, AccountTextsFilled, DeletionTextsFilled, DigestTextsFilled, PlainTextsFilled, PassedTextsFilled
     DEF TextTemplates, renderNotificationTemplate
\* Nor does a mail that is rendered and sent at once.
LEMMA DirectFilled == \A kind \in Notices : \A m \in MailsOf(kind) : renderDirect(m) \subseteq DirectMails[m]
  BY DEF Notices, MailsOf, renderDirect, DirectMails, SignupTexts, PurchaseTexts, SuspensionTexts

MailSteps == {"none", "pending", "sent", "failed"}
MailNames == {"none"} \cup UNION {x.mails : x \in Inboxes}
MailRows == [template : MailNames, status : MailSteps, attempts : Nat,
             later : BOOLEAN, address : BOOLEAN]
Counts == [on : BOOLEAN, succeeded : Nat, failed : Nat]

MailTypes ==
    /\ inbox \in Inboxes /\ mail \in [MailIds -> MailRows]
    /\ mailBatch \in [MailWorkers -> SUBSET (MailIds \X Nat)]
    /\ flight \subseteq [id : MailIds, sent : BOOLEAN, attempts : Nat]
    /\ sender \in [Senders -> [at : {"idle", "record", "send"}, kind : Notices \cup {"none"}]]
    /\ warned.sent \in [Notices -> Nat]
    /\ \A s \in Senders : sender[s].at # "idle" => sender[s].kind \in Notices
    /\ rollup \in [pending : Counts, flushing : Counts, step : {"idle", "prefs"}, on : BOOLEAN]
    /\ updates \in [emitted : Nat, told : Nat, dropped : Nat]

\* A row that reads sent, or will, was taken by the transport.
SentIsMailed ==
    /\ SentWasMailed
    /\ \A u \in flight : u.sent => u.id \in mailed

\* The one who records the alert is the only one to send it, once.
Alerting(s) == sender[s].at = "send" /\ sender[s].kind = "alert"
AlertHeld ==
    /\ \A s \in Senders : Alerting(s) => "alert" \in warned.rows /\ warned.sent["alert"] = 0
    /\ \A r, s \in Senders : Alerting(r) /\ Alerting(s) => r = s
    /\ "alert" \notin warned.rows => warned.sent["alert"] = 0
    /\ AlertedOnce

\* Whatever is not being counted or flushed counts nothing.
CountsRest ==
    /\ ~rollup.pending.on => rollup.pending = NoRollup
    /\ rollup.step = "idle" => rollup.flushing = NoRollup

MailInv == MailTypes /\ SentIsMailed /\ NothingBlank /\ AlertHeld /\ CountsRest /\ UpdateToldOnce

\* An empty queue, and nothing sent.
LEMMA MailInitInv == NotifyInit => MailInv
  <1>. SUFFICES ASSUME NotifyInit PROVE MailInv
    OBVIOUS
  <1>1. MailTypes
    BY NotificationsAssumption DEF NotifyInit, MailTypes, NoMail, MailNames, MailRows, MailSteps, Notices, NoRollup, Counts
  <1>2. SentIsMailed /\ NothingBlank
    BY DEF NotifyInit, SentIsMailed, SentWasMailed, NoMail, NothingBlank
  <1>3. CountsRest /\ UpdateToldOnce
    BY DEF NotifyInit, CountsRest, UpdateToldOnce, Counted, NoRollup
  <1>4. AlertHeld
    <2>1. warned.sent = [kind \in Notices |-> 0] /\ \A s \in Senders : sender[s].at = "idle"
      BY DEF NotifyInit
    <2>2. warned.sent["alert"] = 0 /\ 0 <= 1
      BY <2>1 DEF Notices
    <2>. QED
      BY <2>1, <2>2 DEF AlertHeld, AlertedOnce, Alerting
  <1>. QED
    BY <1>1, <1>2, <1>3, <1>4 DEF MailInv

\* A step that leaves the queue, the mails of the day or the summary alone leaves what is said of them.
LEMMA QueueRests ==
    ASSUME MailInv, UNCHANGED <<mail, mailBatch, flight, mailed>>
    PROVE  SentIsMailed'
  BY DEF MailInv, SentIsMailed, SentWasMailed
\* A step that does not touch the mails of the day keeps what is said of the alert.
LEMMA AlertRests == ASSUME MailInv, UNCHANGED billingMail PROVE AlertHeld'
  BY DEF MailInv, AlertHeld, AlertedOnce, billingMail, Alerting
\* A step that does not touch the summaries keeps what is said of them.
LEMMA SummaryRests == ASSUME MailInv, UNCHANGED summary PROVE CountsRest' /\ UpdateToldOnce'
  BY DEF MailInv, CountsRest, UpdateToldOnce, Counted, summary
\* A step that prints nothing prints no blank.
LEMMA BlanksRest == ASSUME MailInv, UNCHANGED blanks PROVE NothingBlank'
  BY DEF MailInv, NothingBlank

\* The queue: enqueue, fetch, back off, apply.
LEMMA QueueSteps ==
    ASSUME MailInv,
           \/ \E m \in inbox.mails, address \in BOOLEAN : enqueueMail(m, address)
           \/ \E w \in MailWorkers : fetchPending(w)
           \/ \E i \in MailIds : Backoff(i)
           \/ \E u \in flight : Arrive(u)
    PROVE  MailInv'
  <1>0. MailTypes /\ SentIsMailed
    BY DEF MailInv
  <1>. /\ UNCHANGED <<inbox, mailed, blanks>> /\ UNCHANGED billingMail /\ UNCHANGED summary
    BY DEF enqueueMail, fetchPending, Backoff, Arrive, billingMail, summary
  <1>1. AlertHeld' /\ CountsRest' /\ UpdateToldOnce' /\ NothingBlank'
    BY AlertRests, SummaryRests, BlanksRest
  <1>2. ASSUME NEW i \in MailIds, NEW row \in MailRows, mail' = [mail EXCEPT ![i] = row],
               row.status = "sent" => i \in mailed,
               row.status = "failed" => row.attempts >= MaxAttempts,
               mailBatch' \in [MailWorkers -> SUBSET (MailIds \X Nat)], flight' \subseteq flight
        PROVE  MailTypes' /\ SentIsMailed'
    <2>1. MailTypes'
      BY <1>0, <1>2 DEF MailTypes, billingMail, summary
    <2>2. SentIsMailed'
      BY <1>0, <1>2 DEF MailTypes, SentIsMailed, SentWasMailed
    <2>. QED
      BY <2>1, <2>2
  <1>3. ASSUME UNCHANGED <<mail, mailed>>, flight' \subseteq flight, 
               mailBatch' \in [MailWorkers -> SUBSET (MailIds \X Nat)]
        PROVE  MailTypes' /\ SentIsMailed'
    BY <1>0, <1>3 DEF MailTypes, SentIsMailed, SentWasMailed, billingMail, summary
  <1>4. mailBatch \in [MailWorkers -> SUBSET (MailIds \X Nat)]
    BY <1>0 DEF MailTypes
  <1>5. ASSUME NEW m \in inbox.mails, NEW address \in BOOLEAN, enqueueMail(m, address)
        PROVE  MailTypes' /\ SentIsMailed'
    <2>. PICK row : row = [NoMail EXCEPT !.template = m, !.status = "pending", !.address = address]
      OBVIOUS
    <2>1. row \in MailRows /\ row.status = "pending"
      <3>1. m \in MailNames
        BY <1>0 DEF MailTypes, MailNames
      <3>2. row = [template |-> m, status |-> "pending", attempts |-> 0, later |-> FALSE, address |-> address]
        BY DEF NoMail
      <3>3. PICK status \in MailSteps : status = "pending"
        BY DEF MailSteps
      <3>4. PICK attempts \in Nat : attempts = 0
        OBVIOUS
      <3>5. PICK later \in BOOLEAN : later = FALSE
        OBVIOUS
      <3>6. row = [template |-> m, status |-> status, attempts |-> attempts, later |-> later, address |-> address]
        BY <3>2, <3>3, <3>4, <3>5
      <3>. QED
        BY <3>1, <3>3, <3>6 DEF MailRows
    <2>2. Fresh \in MailIds
      <3>1. Cardinality({i \in MailIds : mail[i] # NoMail}) < Cardinality(MailIds)
        <4>1. /\ inbox.rows \in Nat /\ inbox.rows <= Cardinality(MailIds)
              /\ Cardinality({i \in MailIds : mail[i] # NoMail}) < inbox.rows
          BY <1>0, <1>5, NotificationsAssumption DEF MailTypes, enqueueMail
        <4>2. /\ Cardinality(MailIds) \in Nat
              /\ Cardinality({i \in MailIds : mail[i] # NoMail}) \in Nat
          <5>1. {i \in MailIds : mail[i] # NoMail} \in SUBSET MailIds
            OBVIOUS
          <5>. QED
            BY <5>1, NotificationsAssumption, FS_Subset, FS_CardinalityType
        <4>. QED
          BY <4>1, <4>2
      <3>2. Cardinality(MailIds) \in Nat
        BY NotificationsAssumption, FS_CardinalityType
      <3>3. \E i \in MailIds : mail[i] = NoMail
        <4>. SUFFICES ASSUME \A i \in MailIds : mail[i] # NoMail PROVE FALSE
          OBVIOUS
        <4>1. {i \in MailIds : mail[i] # NoMail} = MailIds
          OBVIOUS
        <4>. QED
          BY <3>1, <3>2, <4>1
      <3>. QED
        BY <3>3 DEF Fresh
    <2>3. flight' \subseteq flight /\ UNCHANGED mailBatch /\ (mail' = [mail EXCEPT ![Fresh] = row] \/ UNCHANGED mail)
      BY <1>5 DEF enqueueMail
    <2>. QED
      BY <1>2, <1>3, <1>4, <2>1, <2>2, <2>3
  <1>6. ASSUME NEW w \in MailWorkers, fetchPending(w)
        PROVE  MailTypes' /\ SentIsMailed'
    <2>1. PICK ids \in SUBSET Due : mailBatch' = [mailBatch EXCEPT ![w] = {<<i, mail[i].attempts>> : i \in ids}]
      BY <1>6 DEF fetchPending
    <2>2. {<<i, mail[i].attempts>> : i \in ids} \in SUBSET (MailIds \X Nat)
      BY <1>0 DEF Due, MailTypes, MailRows
    <2>3. UNCHANGED <<mail, flight>>
      BY <1>6 DEF fetchPending
    <2>4. mailBatch' \in [MailWorkers -> SUBSET (MailIds \X Nat)]
      BY <1>4, <2>1, <2>2
    <2>. QED
      BY <1>3, <2>3, <2>4
  <1>7. ASSUME NEW i \in MailIds, Backoff(i)
        PROVE  MailTypes' /\ SentIsMailed'
    <2>. PICK row : row = [mail[i] EXCEPT !.later = FALSE]
      OBVIOUS
    <2>1. row \in MailRows /\ row.status = mail[i].status /\ row.attempts = mail[i].attempts
      <3>1. mail[i] \in MailRows
        BY <1>0 DEF MailTypes
      <3>. QED
        BY <3>1 DEF MailRows
    <2>2. mail' = [mail EXCEPT ![i] = row] /\ UNCHANGED <<mailBatch, flight>>
      BY <1>7 DEF Backoff
    <2>3. (row.status = "sent" => i \in mailed) /\ (row.status = "failed" => row.attempts >= MaxAttempts)
      BY <1>0, <2>1 DEF SentIsMailed, SentWasMailed
    <2>. QED
      BY <1>2, <1>4, <2>1, <2>2, <2>3
  <1>8. ASSUME NEW u \in flight, Arrive(u)
        PROVE  MailTypes' /\ SentIsMailed'
    <2>1. u.id \in MailIds /\ u.attempts \in Nat /\ u.sent \in BOOLEAN /\ mail[u.id] \in MailRows
          /\ (u.sent => u.id \in mailed) /\ MaxAttempts \in Nat
      BY <1>0, NotificationsAssumption DEF MailTypes, SentIsMailed
    <2>2. flight' \subseteq flight /\ UNCHANGED mailBatch
      BY <1>8 DEF Arrive
    <2>3. CASE UNCHANGED mail
      BY <1>3, <1>4, <2>2, <2>3
    <2>4. CASE u.sent /\ markSent(u.id)
      <3>. PICK row : row = [mail[u.id] EXCEPT !.status = "sent"]
        OBVIOUS
      <3>1. row \in MailRows /\ row.status = "sent"
        <4>1. PICK status \in MailSteps : status = "sent"
          BY DEF MailSteps
        <4>2. row = [template |-> mail[u.id].template, status |-> status, attempts |-> mail[u.id].attempts,
                     later |-> mail[u.id].later, address |-> mail[u.id].address]
          BY <2>1, <4>1 DEF MailRows
        <4>. QED
          BY <2>1, <4>1, <4>2 DEF MailRows
      <3>2. mail' = [mail EXCEPT ![u.id] = row]
        BY <2>4 DEF markSent
      <3>. QED
        BY <1>2, <1>4, <2>1, <2>2, <2>4, <3>1, <3>2
    <2>5. CASE markFailed(u.id, u.attempts)
      <3>. PICK status : status = IF u.attempts >= MaxAttempts THEN "failed" ELSE "pending"
        OBVIOUS
      <3>. PICK later : later = (u.attempts < MaxAttempts)
        OBVIOUS
      <3>. PICK row : row = [mail[u.id] EXCEPT !.status = status, !.attempts = u.attempts, !.later = later]
        OBVIOUS
      <3>1. row \in MailRows /\ row.status = status /\ row.attempts = u.attempts
        <4>1. status \in MailSteps /\ later \in BOOLEAN
          BY DEF MailSteps
        <4>2. row = [template |-> mail[u.id].template, status |-> status, attempts |-> u.attempts,
                     later |-> later, address |-> mail[u.id].address]
          BY <2>1 DEF MailRows
        <4>. QED
          BY <2>1, <4>1, <4>2 DEF MailRows
      <3>2. mail' = [mail EXCEPT ![u.id] = row]
        BY <2>5 DEF markFailed
      <3>3. status # "sent" /\ (status = "failed" => u.attempts >= MaxAttempts)
        OBVIOUS
      <3>. QED
        BY <1>2, <1>4, <2>1, <2>2, <3>1, <3>2, <3>3
    <2>. QED
      BY <1>8, <2>3, <2>4, <2>5 DEF Arrive
  <1>. QED
    BY <1>1, <1>5, <1>6, <1>7, <1>8 DEF MailInv

\* A worker takes one row through: what the update will say is what happened.
LEMMA WorkerSteps ==
    ASSUME MailInv, NEW w \in MailWorkers, NEW b \in mailBatch[w], processRow(w, b)
    PROVE  MailInv'
  <1>0. MailTypes /\ SentIsMailed /\ NothingBlank
    BY DEF MailInv
  <1>. /\ UNCHANGED <<inbox, mail>> /\ UNCHANGED billingMail /\ UNCHANGED summary
    BY DEF processRow, billingMail, summary
  <1>1. AlertHeld' /\ CountsRest' /\ UpdateToldOnce'
    BY AlertRests, SummaryRests
  <1>. PICK i : i = b[1]
    OBVIOUS
  <1>. DEFINE m == mail[i].template
  <1>2. i \in MailIds /\ b[2] \in Nat /\ b[2] + 1 \in Nat
    BY <1>0 DEF MailTypes
  <1>3. m \in CRITICAL_TEMPLATES \/ isEnabledByPreferences(m, promise)
    BY DEF isEnabledByPreferences, promise
  <1>4. ASSUME NEW sent \in BOOLEAN PROVE Mark(i, sent, b[2] + 1) \in [id : MailIds, sent : BOOLEAN, attempts : Nat]
                                          /\ Mark(i, sent, b[2] + 1).sent = sent /\ Mark(i, sent, b[2] + 1).id = i
    BY <1>2 DEF Mark
  <1>5. mailBatch' \in [MailWorkers -> SUBSET (MailIds \X Nat)]
    <2>1. mailBatch' = [mailBatch EXCEPT ![w] = @ \ {b}]
      BY DEF processRow
    <2>. QED
      BY <1>0, <2>1 DEF MailTypes
  <1>6. ASSUME NEW sent \in BOOLEAN, flight' = flight \cup {Mark(i, sent, b[2] + 1)},
               mailed \subseteq mailed', sent => i \in mailed'
        PROVE  MailTypes' /\ SentIsMailed'
    <2>1. MailTypes'
      BY <1>0, <1>4, <1>5, <1>6 DEF MailTypes, billingMail, summary
    <2>2. SentIsMailed'
      BY <1>0, <1>4, <1>6 DEF SentIsMailed, SentWasMailed
    <2>. QED
      BY <2>1, <2>2
  <1>7. CASE send(i, b[2] + 1) /\ renders(m)
    <2>1. CASE /\ mailed' = mailed \cup {i}
               /\ blanks' = blanks \cup {<<m, Source(m), f>> : f \in printed(m) \ notify(m)}
               /\ flight' = flight \cup {Mark(i, TRUE, b[2] + 1)}
      <3>1. MailTypes' /\ SentIsMailed'
        BY <1>6, <2>1
      <3>2. NothingBlank'
        <4>1. CASE m \in seeded.on
          BY <1>0, <2>1, <4>1 DEF NothingBlank, Source
        <4>2. CASE m \notin seeded.on
          <5>1. printed(m) \subseteq notify(m)
            BY <1>7, <4>2, TextsFilled DEF renders, printed
          <5>2. blanks' = blanks
            BY <2>1, <5>1
          <5>. QED
            BY <1>0, <5>2 DEF NothingBlank
        <4>. QED
          BY <4>1, <4>2
      <3>. QED
        BY <1>1, <3>1, <3>2 DEF MailInv
    <2>2. CASE flight' = flight \cup {Mark(i, FALSE, b[2] + 1)} /\ UNCHANGED <<mailed, blanks>>
      <3>1. MailTypes' /\ SentIsMailed'
        <4>1. PICK no \in BOOLEAN : no = FALSE
          OBVIOUS
        <4>2. flight' = flight \cup {Mark(i, no, b[2] + 1)} /\ mailed \subseteq mailed'
          BY <2>2, <4>1
        <4>. QED
          BY <1>6, <4>1, <4>2
      <3>2. NothingBlank'
        BY <2>2, BlanksRest
      <3>. QED
        BY <1>1, <3>1, <3>2 DEF MailInv
    <2>. QED
      BY <1>7, <2>1, <2>2 DEF send
  <1>8. CASE flight' = flight \cup {Mark(i, FALSE, b[2] + 1)} /\ UNCHANGED <<mailed, blanks>>
    <2>1. MailTypes' /\ SentIsMailed'
      <3>1. PICK no \in BOOLEAN : no = FALSE
        OBVIOUS
      <3>2. flight' = flight \cup {Mark(i, no, b[2] + 1)} /\ mailed \subseteq mailed'
        BY <1>8, <3>1
      <3>. QED
        BY <1>6, <3>1, <3>2
    <2>2. NothingBlank'
      BY <1>8, BlanksRest
    <2>. QED
      BY <1>1, <2>1, <2>2 DEF MailInv
  <1>9. \/ send(i, b[2] + 1) /\ renders(m)
        \/ flight' = flight \cup {Mark(i, FALSE, b[2] + 1)} /\ UNCHANGED <<mailed, blanks>>
    <2>1. mail[i].address \in BOOLEAN
      BY <1>0, <1>2 DEF MailTypes, MailRows
    <2>2. Mark(i, mail[i].address /\ ~(m \in CRITICAL_TEMPLATES \/ isEnabledByPreferences(m, promise)), b[2] + 1)
            = Mark(i, FALSE, b[2] + 1)
      BY <1>3 DEF Mark
    <2>. QED
      BY <1>3, <2>2 DEF processRow
  <1>. QED
    BY <1>7, <1>8, <1>9

\* Templates and preferences touch nothing that was promised.
LEMMA SettingSteps ==
    ASSUME MailInv,
           \/ seedDefaults \/ \E m \in inbox.mails : updateTemplate(m)
           \/ \E s \in Senders : \/ \E key \in {"fleet_updates", "billing_receipts"} : updatePreferences(s, key)
                                 \/ writePreferences(s)
    PROVE  MailInv'
  <1>1. UNCHANGED inbox /\ UNCHANGED queueing /\ UNCHANGED billingMail /\ UNCHANGED summary
    BY DEF seedDefaults, updateTemplate, updatePreferences, writePreferences, queueing, billingMail, summary
  <1>2. AlertHeld' /\ CountsRest' /\ UpdateToldOnce' /\ NothingBlank' /\ SentIsMailed'
    BY <1>1, AlertRests, SummaryRests, BlanksRest, QueueRests DEF queueing
  <1>3. MailTypes'
    BY <1>1 DEF MailInv, MailTypes, queueing, billingMail, summary
  <1>. QED
    BY <1>2, <1>3 DEF MailInv

\* A sender moves: one that comes to send the alert is the only one, and recorded it first.
LEMMA SenderMoves ==
    ASSUME MailInv, NEW s \in Senders, NEW row, sender' = [sender EXCEPT ![s] = row],
           row.at = "send" /\ row.kind = "alert" => /\ "alert" \notin warned.rows
                                                   /\ "alert" \in warned'.rows /\ warned'.sent["alert"] = 0,
           warned.rows \subseteq warned'.rows,
           \/ warned'.sent["alert"] = warned.sent["alert"]
           \/ /\ sender[s].at = "send" /\ sender[s].kind = "alert" /\ row.at # "send"
              /\ warned'.sent["alert"] = warned.sent["alert"] + 1
    PROVE  AlertHeld'
  <1>1. /\ \A r \in Senders : Alerting(r) => "alert" \in warned.rows /\ warned.sent["alert"] = 0
        /\ \A q, r \in Senders : Alerting(q) /\ Alerting(r) => q = r
        /\ "alert" \notin warned.rows => warned.sent["alert"] = 0
        /\ warned.sent["alert"] <= 1
    BY DEF MailInv, AlertHeld, AlertedOnce
  <1>2. sender'[s] = row /\ \A r \in Senders \ {s} : sender'[r] = sender[r]
    BY DEF MailInv, MailTypes
  <1>3. CASE row.at = "send" /\ row.kind = "alert"
    <2>1. \A r \in Senders : ~Alerting(r)
      BY <1>1, <1>3
    <2>. QED
      BY <1>1, <1>2, <1>3, <2>1 DEF AlertHeld, AlertedOnce, Alerting
  <1>4. CASE ~(row.at = "send" /\ row.kind = "alert")
    <2>1. \A r \in Senders : Alerting(r)' => r # s /\ Alerting(r)
      BY <1>2, <1>4 DEF Alerting
    <2>2. CASE warned'.sent["alert"] = warned.sent["alert"]
      BY <1>1, <2>1, <2>2 DEF AlertHeld, AlertedOnce, Alerting
    <2>3. CASE Alerting(s) /\ warned'.sent["alert"] = warned.sent["alert"] + 1
      BY <1>1, <2>1, <2>3 DEF AlertHeld, AlertedOnce, Alerting
    <2>. QED
      BY <2>2, <2>3 DEF Alerting
  <1>. QED
    BY <1>3, <1>4

\* The mails of the day.
LEMMA NoticeSteps ==
    ASSUME MailInv, NEW s \in Senders,
           (\E kind \in Notices : shouldSendEmail(s, kind)) \/ sendNotice(s) \/ recordSent(s)
    PROVE  MailInv'
  <1>0. /\ MailTypes /\ AlertHeld /\ sender[s] \in [at : {"idle", "record", "send"}, kind : Notices \cup {"none"}]
        /\ NothingBlank
    BY DEF MailInv, MailTypes
  <1>1. /\ UNCHANGED <<inbox, mail, mailBatch, flight, mailed>> /\ UNCHANGED summary
    BY DEF shouldSendEmail, sendNotice, recordSent, queueing, summary
  <1>2. CountsRest' /\ UpdateToldOnce' /\ SentIsMailed'
    BY <1>1, SummaryRests, QueueRests
  <1>3. ASSUME NEW row \in [at : {"idle", "record", "send"}, kind : Notices \cup {"none"}],
               row.at # "idle" => row.kind \in Notices,
               sender' = [sender EXCEPT ![s] = row], warned'.sent \in [Notices -> Nat]
        PROVE  MailTypes'
    BY <1>0, <1>1, <1>3 DEF MailTypes, summary
  <1>. PICK idle : idle = [at |-> "idle", kind |-> "none"]
    OBVIOUS
  <1>4. idle \in [at : {"idle", "record", "send"}, kind : Notices \cup {"none"}]
    OBVIOUS
  <1>5. ASSUME NEW kind \in Notices, shouldSendEmail(s, kind)
        PROVE  MailInv'
    <2>. PICK row : row = [at |-> firstStep(kind), kind |-> kind]
      OBVIOUS
    <2>1. /\ row \in [at : {"idle", "record", "send"}, kind : Notices \cup {"none"}]
          /\ row.kind = kind /\ (kind = "alert" => row.at = "record")
      BY DEF firstStep
    <2>2. sender' = [sender EXCEPT ![s] = row] /\ UNCHANGED <<warned, blanks>>
      BY <1>5 DEF shouldSendEmail, queueing
    <2>3. MailTypes'
      BY <1>0, <1>3, <2>1, <2>2 DEF MailTypes
    <2>4. AlertHeld'
      BY <2>1, <2>2, SenderMoves
    <2>5. NothingBlank'
      BY <2>2, BlanksRest
    <2>. QED
      BY <1>2, <2>3, <2>4, <2>5 DEF MailInv
  <1>. PICK kind : kind = sender[s].kind
    OBVIOUS
  <1>6. CASE sendNotice(s)
    <2>1. kind \in Notices /\ sender[s].at = "send"
      BY <1>0, <1>6 DEF sendNotice, MailTypes
    <2>2. CASE DoneWith(s) /\ UNCHANGED <<warned, blanks>>
      <3>1. sender' = [sender EXCEPT ![s] = idle]
        BY <2>2 DEF DoneWith
      <3>2. MailTypes'
        BY <1>0, <1>3, <1>4, <2>2, <3>1 DEF MailTypes
      <3>3. AlertHeld'
        BY <1>4, <2>2, <3>1, SenderMoves
      <3>. QED
        BY <1>2, <2>2, <3>2, <3>3, BlanksRest DEF MailInv
    <2>3. CASE /\ warned' = [warned EXCEPT !.sent[kind] = @ + 1]
               /\ blanks' = blanks \cup UNION {{<<m, "code", f>> : f \in renderDirect(m) \ DirectMails[m]} : m \in MailsOf(kind)}
               /\ IF kind = "signup" THEN DoneWith(s) ELSE OtherStep(s, "record")
      <3>1. blanks' = blanks
        BY <2>1, <2>3, DirectFilled
      <3>. PICK row : row = IF kind = "signup" \/ kind = "alert" THEN idle ELSE [sender[s] EXCEPT !.at = "record"]
        OBVIOUS
      <3>2. sender' = [sender EXCEPT ![s] = row]
        BY <2>3 DEF DoneWith, OtherStep, firstStep
      <3>3. /\ row \in [at : {"idle", "record", "send"}, kind : Notices \cup {"none"}]
            /\ row.at # "idle" => row.kind \in Notices
            /\ row.at # "send"
        BY <1>0, <1>4, <2>1
      <3>4. warned'.sent \in [Notices -> Nat] /\ warned'.rows = warned.rows
            /\ warned'.sent[kind] = warned.sent[kind] + 1 /\ (kind # "alert" => warned'.sent["alert"] = warned.sent["alert"])
        BY <1>0, <2>1, <2>3 DEF MailTypes, Notices
      <3>5. MailTypes'
        BY <1>3, <3>2, <3>3, <3>4
      <3>6. AlertHeld'
        BY <2>1, <3>2, <3>3, <3>4, SenderMoves
      <3>. QED
        BY <1>2, <3>1, <3>5, <3>6, BlanksRest DEF MailInv
    <2>. QED
      BY <1>6, <2>2, <2>3 DEF sendNotice
  <1>7. CASE recordSent(s)
    <2>1. kind \in Notices /\ sender[s].at = "record"
      BY <1>0, <1>7 DEF recordSent, MailTypes
    <2>. UNCHANGED blanks
      BY <1>7 DEF recordSent, queueing
    <2>2. CASE DoneWith(s) /\ UNCHANGED warned
      <3>1. sender' = [sender EXCEPT ![s] = idle]
        BY <2>2 DEF DoneWith
      <3>2. MailTypes'
        BY <1>0, <1>3, <1>4, <2>2, <3>1 DEF MailTypes
      <3>3. AlertHeld'
        BY <1>4, <2>2, <3>1, SenderMoves
      <3>. QED
        BY <1>2, <3>2, <3>3, BlanksRest DEF MailInv
    <2>3. CASE kind \notin warned.rows /\ warned' = [warned EXCEPT !.rows = @ \cup {kind}] /\ OtherStep(s, "send")
      <3>. PICK row : row = IF kind = "alert" THEN [sender[s] EXCEPT !.at = "send"] ELSE idle
        OBVIOUS
      <3>1. sender' = [sender EXCEPT ![s] = row]
        BY <2>3 DEF DoneWith, OtherStep, firstStep
      <3>2. /\ row \in [at : {"idle", "record", "send"}, kind : Notices \cup {"none"}]
            /\ row.at # "idle" => row.kind = "alert" /\ kind = "alert"
        BY <1>0, <1>4, <2>1
      <3>3. warned'.sent = warned.sent
        BY <2>3
      <3>4. MailTypes'
        BY <1>0, <1>3, <2>1, <3>1, <3>2, <3>3 DEF MailTypes
      <3>5. warned'.rows = warned.rows \cup {kind}
        BY <2>3
      <3>7. /\ warned.rows \subseteq warned'.rows /\ warned'.sent["alert"] = warned.sent["alert"]
            /\ kind = "alert" => "alert" \notin warned.rows /\ "alert" \in warned'.rows /\ warned.sent["alert"] = 0
        BY <1>0, <2>3, <3>3, <3>5 DEF AlertHeld, Alerting
      <3>6. AlertHeld'
        BY <3>1, <3>2, <3>7, SenderMoves
      <3>. QED
        BY <1>2, <3>4, <3>6, BlanksRest DEF MailInv
    <2>. QED
      BY <1>7, <2>2, <2>3 DEF recordSent
  <1>. QED
    BY <1>5, <1>6, <1>7

\* The summary of a tenant's updates, and the death of the process.
LEMMA SummarySteps ==
    ASSUME MailInv, (\E good \in BOOLEAN : emit(good)) \/ flush \/ tell \/ unsubscribe \/ Restart
    PROVE  MailInv'
  <1>0. MailTypes /\ CountsRest /\ UpdateToldOnce
    BY DEF MailInv
  <1>1. /\ rollup.pending \in Counts /\ rollup.flushing \in Counts /\ NoRollup \in Counts
        /\ updates \in [emitted : Nat, told : Nat, dropped : Nat]
        /\ NoRollup.succeeded = 0 /\ NoRollup.failed = 0
    BY <1>0 DEF MailTypes, NoRollup, Counts
  <1>2. UNCHANGED <<inbox, mail, mailed, blanks, warned>>
    BY DEF emit, flush, tell, unsubscribe, Restart, queueing, billingMail
  <1>3. ASSUME UNCHANGED queueing, UNCHANGED billingMail, CountsRest', UpdateToldOnce',
               rollup' \in [pending : Counts, flushing : Counts, step : {"idle", "prefs"}, on : BOOLEAN],
               updates' \in [emitted : Nat, told : Nat, dropped : Nat]
        PROVE  MailInv'
    <2>1. MailTypes'
      BY <1>0, <1>2, <1>3 DEF MailTypes, queueing, billingMail
    <2>. QED
      BY <1>3, <2>1, QueueRests, AlertRests, BlanksRest DEF MailInv, queueing
  <1>4. ASSUME NEW pending \in Counts, NEW flushing \in Counts, NEW step \in {"idle", "prefs"}, NEW on \in BOOLEAN,
               rollup' = [pending |-> pending, flushing |-> flushing, step |-> step, on |-> on],
               ~pending.on => pending = NoRollup, step = "idle" => flushing = NoRollup
        PROVE  /\ CountsRest'
               /\ rollup' \in [pending : Counts, flushing : Counts, step : {"idle", "prefs"}, on : BOOLEAN]
    BY <1>4 DEF CountsRest
  <1>5. ASSUME NEW good \in BOOLEAN, emit(good) PROVE MailInv'
    <2>. PICK one \in {0, 1} : one = IF good THEN 1 ELSE 0
      OBVIOUS
    <2>. PICK other \in {0, 1} : other = IF good THEN 0 ELSE 1
      OBVIOUS
    <2>. PICK p : p = rollup.pending
      OBVIOUS
    <2>. PICK pending : pending = [on |-> TRUE, succeeded |-> p.succeeded + one, failed |-> p.failed + other]
      OBVIOUS
    <2>1. pending \in Counts /\ one + other = 1
      BY <1>1 DEF Counts
    <2>2. rollup' = [pending |-> pending, flushing |-> rollup.flushing, step |-> rollup.step, on |-> rollup.on]
      BY <1>0, <1>5 DEF emit, MailTypes
    <2>3. updates' = [updates EXCEPT !.emitted = @ + 1] /\ UNCHANGED queueing /\ UNCHANGED billingMail
      BY <1>5 DEF emit
    <2>4. /\ rollup.step \in {"idle", "prefs"} /\ rollup.on \in BOOLEAN
          /\ rollup.step = "idle" => rollup.flushing = NoRollup
      BY <1>0 DEF MailTypes, CountsRest
    <2>5. /\ CountsRest'
          /\ rollup' \in [pending : Counts, flushing : Counts, step : {"idle", "prefs"}, on : BOOLEAN]
      BY <1>1, <1>4, <2>1, <2>2, <2>4
    <2>6. UpdateToldOnce' /\ updates' \in [emitted : Nat, told : Nat, dropped : Nat]
      BY <1>0, <1>1, <2>1, <2>2, <2>3 DEF UpdateToldOnce, Counted, Counts
    <2>. QED
      BY <1>3, <2>3, <2>5, <2>6
  <1>6. ASSUME NEW stopping \in BOOLEAN, take(stopping), rollup.step = "idle",
               UNCHANGED updates, UNCHANGED queueing, UNCHANGED billingMail
        PROVE  MailInv'
    <2>1. rollup' = [pending |-> NoRollup, flushing |-> rollup.pending, step |-> "prefs", on |-> ~stopping]
      BY <1>0, <1>6 DEF take, MailTypes
    <2>2. /\ CountsRest'
          /\ rollup' \in [pending : Counts, flushing : Counts, step : {"idle", "prefs"}, on : BOOLEAN]
      BY <1>1, <1>4, <2>1
    <2>3. rollup.flushing = NoRollup
      BY <1>0, <1>6 DEF CountsRest
    <2>4. UpdateToldOnce' /\ updates' \in [emitted : Nat, told : Nat, dropped : Nat]
      <3>1. Counted = 0 /\ Counted' = rollup.pending.succeeded + rollup.pending.failed
        BY <1>1, <2>1, <2>3 DEF Counted
      <3>2. rollup'.pending.succeeded = 0 /\ rollup'.pending.failed = 0
        BY <1>1, <2>1
      <3>3. rollup.pending.succeeded \in Nat /\ rollup.pending.failed \in Nat
        BY <1>1 DEF Counts
      <3>. QED
        BY <1>0, <1>1, <1>6, <3>1, <3>2, <3>3 DEF UpdateToldOnce
    <2>. QED
      BY <1>3, <1>6, <2>2, <2>4
  <1>7. CASE flush
    BY <1>6, <1>7 DEF flush
  <1>8. CASE unsubscribe
    <2>1. CASE take(TRUE)
      BY <1>6, <1>8, <2>1 DEF unsubscribe
    <2>2. CASE rollup' = [rollup EXCEPT !.on = FALSE]
      <3>1. rollup' = [pending |-> rollup.pending, flushing |-> rollup.flushing, step |-> rollup.step, on |-> FALSE]
        BY <1>0, <2>2 DEF MailTypes
      <3>2. /\ CountsRest'
            /\ rollup' \in [pending : Counts, flushing : Counts, step : {"idle", "prefs"}, on : BOOLEAN]
        BY <1>0, <1>1, <1>4, <3>1 DEF MailTypes, CountsRest
      <3>3. UNCHANGED updates /\ UNCHANGED queueing /\ UNCHANGED billingMail
        BY <1>8 DEF unsubscribe
      <3>4. UpdateToldOnce' /\ updates' \in [emitted : Nat, told : Nat, dropped : Nat]
        BY <1>0, <1>1, <3>1, <3>3 DEF UpdateToldOnce, Counted
      <3>. QED
        BY <1>3, <3>2, <3>3, <3>4
    <2>. QED
      BY <1>8, <2>1, <2>2 DEF unsubscribe
  <1>9. CASE tell
    <2>1. rollup' = [pending |-> rollup.pending, flushing |-> NoRollup, step |-> "idle", on |-> rollup.on]
      BY <1>0, <1>9 DEF tell, EndFlush, MailTypes
    <2>2. /\ CountsRest'
          /\ rollup' \in [pending : Counts, flushing : Counts, step : {"idle", "prefs"}, on : BOOLEAN]
      BY <1>0, <1>1, <1>4, <2>1 DEF MailTypes, CountsRest
    <2>3. UNCHANGED queueing /\ UNCHANGED billingMail
      BY <1>9 DEF tell
    <2>4. Counted \in Nat
      BY <1>1 DEF Counted, Counts
    <2>5. \/ updates' = [updates EXCEPT !.told = @ + Counted]
          \/ updates' = [updates EXCEPT !.dropped = @ + Counted]
      BY <1>9 DEF tell
    <2>6. Counted' = 0 /\ UNCHANGED rollup.pending
      BY <1>1, <2>1 DEF Counted
    <2>7. updates' \in [emitted : Nat, told : Nat, dropped : Nat]
      BY <1>1, <2>4, <2>5
    <2>8. UpdateToldOnce'
      BY <1>0, <1>1, <2>4, <2>5, <2>6 DEF UpdateToldOnce, Counts
    <2>. QED
      BY <1>3, <2>2, <2>3, <2>7, <2>8
  <1>10. CASE Restart
    <2>1. rollup' = [pending |-> NoRollup, flushing |-> NoRollup, step |-> "idle", on |-> TRUE]
      BY <1>10 DEF Restart
    <2>2. /\ CountsRest'
          /\ rollup' \in [pending : Counts, flushing : Counts, step : {"idle", "prefs"}, on : BOOLEAN]
      BY <1>1, <1>4, <2>1
    <2>3. updates' = [updates EXCEPT !.dropped = updates.emitted - updates.told]
      BY <1>10 DEF Restart
    <2>4. updates.emitted - updates.told \in Nat
      BY <1>0, <1>1 DEF UpdateToldOnce, Counted, Counts
    <2>5. updates' \in [emitted : Nat, told : Nat, dropped : Nat]
      BY <1>1, <2>3, <2>4
    <2>6. UpdateToldOnce'
      BY <1>1, <2>1, <2>3, <2>4 DEF UpdateToldOnce, Counted
    <2>7. /\ flight' = {} /\ mailBatch' = [w \in MailWorkers |-> {}]
          /\ sender' = [s \in Senders |-> [at |-> "idle", kind |-> "none"]]
      BY <1>10 DEF Restart
    <2>8. MailTypes'
      BY <1>0, <1>2, <2>2, <2>5, <2>7 DEF MailTypes
    <2>9. SentIsMailed'
      BY <1>2, <2>7 DEF MailInv, SentIsMailed, SentWasMailed
    <2>10. \A s \in Senders : sender'[s].at = "idle"
      BY <2>7
    <2>11. AlertHeld'
      BY <1>2, <2>10 DEF MailInv, AlertHeld, AlertedOnce, Alerting
    <2>. QED
      BY <1>2, <2>2, <2>6, <2>8, <2>9, <2>11, BlanksRest DEF MailInv
  <1>. QED
    BY <1>5, <1>7, <1>8, <1>9, <1>10

\* For every queue, every number of workers and senders, and every bound on
\* attempts, faults and deaths: a mail marked as sent went out and one given up
\* was tried MaxAttempts times, no template in code prints a blank, a spend
\* alert goes out once a day, and every bot event is told or dropped once.
THEOREM MailIsSafe == NotifySpec => []MailSafe
  <1>1. NotifyInit => MailInv
    BY MailInitInv
  <1>2. MailInv /\ [NotifyNext]_notifyVars => MailInv'
    <2>. SUFFICES ASSUME MailInv, [NotifyNext]_notifyVars PROVE MailInv'
      OBVIOUS
    <2>1. CASE UNCHANGED notifyVars
      <3>1. /\ UNCHANGED <<inbox, mail, mailBatch, flight, mailed, blanks>>
            /\ UNCHANGED billingMail /\ UNCHANGED summary
        BY <2>1 DEF notifyVars, billingMail, summary
      <3>2. MailTypes'
        BY <3>1 DEF MailInv, MailTypes, billingMail, summary
      <3>. QED
        BY <3>1, <3>2, AlertRests, SummaryRests, BlanksRest, QueueRests DEF MailInv
    <2>2. CASE NotifyNext
      BY <2>2, QueueSteps, WorkerSteps, SettingSteps, NoticeSteps, SummarySteps DEF NotifyNext
    <2>. QED
      BY <2>1, <2>2
  <1>3. MailInv => MailSafe
    BY DEF MailInv, MailSafe, SentIsMailed, AlertHeld
  <1>. QED
    BY <1>1, <1>2, <1>3, PTL DEF NotifySpec

-----------------------------------------------------------------------------
(* Machines bought and given back                                           *)

Machines == Plain \cup Gpus
Rows == [status : {"none", "provisioning", "active", "degraded", "failed"}, droplet : BOOLEAN, host : BOOLEAN,
         cap : Nat, used : Nat]
Ordering == {"create", "wait", "store", "clean", "fail"}
Destroying == {"read", "delete", "forget"}
BuyerRows == [pc : {"idle"} \cup Ordering \cup Destroying, m : Machines \cup {"none"}]
Items == [id : Gpus, status : {"active", "degraded"}]
CheckRows == [pc : {"idle", "poll", "judge", "mark"}, todo : Seq(Items), health : {"none", "ok", "down"},
              status : {"none", "active", "degraded", "failed"}]
StateRows == [downs : Nat, reboot : {"no", "recent", "long"}]

CapTypes ==
    /\ rows \in [Machines -> Rows] /\ buyer \in [Buyers -> BuyerRows]
    /\ droplets \subseteq Machines /\ seenUp \subseteq Gpus
    /\ states \in [Gpus -> StateRows] /\ checks \in [Checks -> CheckRows] /\ overlapped \in BOOLEAN
    /\ \A m \in Machines : rows[m].status = "none" => rows[m] = NoRow
    /\ \A p \in Buyers : buyer[p].pc # "idle" => buyer[p].m \in Ids(p)
    /\ \A p \in Buyers : buyer[p].pc = "clean" => buyer[p].m \in Plain
    /\ \A c \in Checks : checks[c].pc # "idle" => checks[c].todo # << >>
    /\ \A c \in Checks : checks[c].pc = "mark" => checks[c].status # "none"

\* The node whose row a call is about to write is there, and nobody else works on
\* it, unless it was excused; what is not ordered yet or failed has no droplet.
BuyersRight ==
    /\ \A p \in Buyers : buyer[p].pc # "idle" /\ (buyer[p].m \in Gpus \/ buyer[p].m \notin excused)
         => rows[buyer[p].m].status # "none"
    /\ \A p, q \in Buyers : /\ buyer[p].pc \in Ordering /\ buyer[q].pc \in Ordering \cup {"delete", "forget"}
                            /\ buyer[p].m = buyer[q].m /\ buyer[p].m \in Plain \ excused
                            => p = q
    /\ \A p \in Buyers : buyer[p].pc \in {"create", "fail", "forget"} /\ buyer[p].m \in Plain \ excused
         => buyer[p].m \notin droplets

\* A droplet is in its row or in an order that goes on.
DropletsHeld ==
    \A m \in (droplets \cap Plain) \ excused :
        rows[m].droplet \/ \E p \in Buyers : buyer[p].pc \in {"wait", "store", "clean"} /\ buyer[p].m = m

\* What answers exists, and so does what was seen, unless its row has.
SeenRight ==
    /\ answering \subseteq Gpus \cap droplets
    /\ \A g \in seenUp : rows[g].status = "none" => g \in droplets

\* While checks do not overlap, a node that was rebooted has not been seen since,
\* unless the check at work is about to say so.
SeenBy(c, g) == checks[c].pc = "judge" /\ checks[c].health = "ok" /\ Node(c) = g
ChecksRight ==
    /\ \A c, d \in Checks : checks[c].pc # "idle" /\ checks[d].pc # "idle" => c = d
    /\ \A g \in seenUp : states[g].reboot # "no" => rows[g].status = "none" \/ \E c \in Checks : SeenBy(c, g)
    /\ \A c \in Checks : checks[c].pc = "mark" /\ checks[c].status = "failed" => Node(c) \notin seenUp
    /\ gaveUp = {}

CapInv == CapTypes /\ BuyersRight /\ DropletsHeld /\ SeenRight /\ (~overlapped => ChecksRight)

\* No row, no droplet and nobody at work.
LEMMA CapInitInv == CapacityInit => CapInv
  <1>. SUFFICES ASSUME CapacityInit PROVE CapInv
    OBVIOUS
  <1>1. deploy.nodes \subseteq Plain /\ deploy.gpus \subseteq Gpus /\ deploy.used \in Nat /\ Shelf \in Nat
        /\ Plain \cap Gpus = {}
    BY CapacityAssumption DEF CapacityInit
  <1>2. CapTypes
    <2>1. rows \in [Machines -> Rows] /\ \A m \in Machines : rows[m].status = "none" => rows[m] = NoRow
      BY <1>1 DEF CapacityInit, Machines, Rows, NoRow
    <2>2. buyer \in [Buyers -> BuyerRows] /\ \A p \in Buyers : buyer[p].pc = "idle"
      BY DEF CapacityInit, BuyerRows, Idle
    <2>3. states \in [Gpus -> StateRows] /\ checks \in [Checks -> CheckRows] /\ overlapped \in BOOLEAN
          /\ \A c \in Checks : checks[c].pc = "idle"
      <3>1. << >> \in Seq(Items)
        OBVIOUS
      <3>2. NoCheck \in CheckRows /\ NoCheck.pc = "idle"
        BY <3>1 DEF NoCheck, CheckRows
      <3>. QED
        BY <3>2 DEF CapacityInit, StateRows, NoState
    <2>4. droplets \subseteq Machines /\ seenUp \subseteq Gpus
      BY <1>1 DEF CapacityInit, Machines
    <2>. QED
      BY <2>1, <2>2, <2>3, <2>4 DEF CapTypes
  <1>3. BuyersRight
    BY DEF CapacityInit, Idle, BuyersRight, Ordering
  <1>4. DropletsHeld
    BY <1>1 DEF CapacityInit, DropletsHeld
  <1>5. SeenRight
    BY <1>1 DEF CapacityInit, SeenRight
  <1>6. ChecksRight
    BY <1>1 DEF CapacityInit, ChecksRight, NoState, NoCheck
  <1>. QED
    BY <1>2, <1>3, <1>4, <1>5, <1>6 DEF CapInv

\* A step that orders and destroys nothing.
LEMMA BuyersRest ==
    ASSUME CapInv, UNCHANGED <<droplets, buyer, excused>>,
           \A m \in Machines : /\ rows'[m].status = "none" <=> rows[m].status = "none"
                               /\ rows[m].droplet => rows'[m].droplet
    PROVE  BuyersRight' /\ DropletsHeld'
  <1>1. BuyersRight'
    <2>1. \A p \in Buyers : buyer[p].pc # "idle" => buyer[p].m \in Machines
      BY DEF CapInv, CapTypes, Ids, Machines
    <2>. QED
      BY <2>1 DEF CapInv, BuyersRight
  <1>2. DropletsHeld'
    BY DEF CapInv, DropletsHeld, Machines
  <1>. QED
    BY <1>1, <1>2

\* A step of which the watchdog sees at most that rows come and go.
LEMMA WatchRests ==
    ASSUME CapInv, UNCHANGED <<states, checks, overlapped, gaveUp>>, seenUp' \subseteq seenUp,
           answering' \subseteq Gpus \cap droplets',
           \A g \in seenUp' : /\ rows[g].status = "none" => rows'[g].status = "none"
                              /\ rows'[g].status = "none" => g \in droplets'
    PROVE  SeenRight' /\ (~overlapped' => ChecksRight')
  <1>1. SeenRight'
    BY DEF CapInv, SeenRight
  <1>2. ASSUME ~overlapped PROVE ChecksRight'
    <2>1. \A c \in Checks : Node(c)' = Node(c) /\ \A g : SeenBy(c, g)' <=> SeenBy(c, g)
      BY DEF Node, Listed, SeenBy
    <2>. QED
      BY <1>2, <2>1 DEF CapInv, ChecksRight
  <1>. QED
    BY <1>1, <1>2

\* A row is written that is there and stays.
LEMMA RowSteps ==
    ASSUME CapInv, NEW m \in Machines, NEW row \in Rows, rows' = [rows EXCEPT ![m] = row],
           rows[m].status # "none", row.status # "none", rows[m].droplet => row.droplet,
           UNCHANGED <<droplets, buyer, excused, states, checks, overlapped, seenUp, gaveUp>>,
           answering' \subseteq droplets \cap Gpus
    PROVE  CapInv'
  <1>1. /\ rows' \in [Machines -> Rows] /\ rows'[m] = row
        /\ \A n \in Machines : /\ rows'[n].status = "none" <=> rows[n].status = "none"
                               /\ rows[n].droplet => rows'[n].droplet
                               /\ rows'[n].status = "none" => rows'[n] = NoRow
    BY DEF CapInv, CapTypes
  <1>2. CapTypes'
    BY <1>1 DEF CapInv, CapTypes, Ids
  <1>3. BuyersRight' /\ DropletsHeld'
    BY <1>1, BuyersRest
  <1>4. seenUp \subseteq Machines
    BY DEF CapInv, CapTypes, Machines
  <1>5. SeenRight'
    BY <1>1, <1>4 DEF CapInv, SeenRight
  <1>6. ASSUME ~overlapped PROVE ChecksRight'
    <2>1. \A c \in Checks : Node(c)' = Node(c) /\ \A g : SeenBy(c, g)' <=> SeenBy(c, g)
      BY DEF Node, Listed, SeenBy
    <2>. QED
      BY <1>1, <1>4, <1>6, <2>1 DEF CapInv, ChecksRight
  <1>. QED
    BY <1>2, <1>3, <1>5, <1>6 DEF CapInv

\* What a step of an order may do to the call, its row and its droplet.
OrderMove(p, m, b, row) ==
    /\ b.pc \in {"idle"} \cup Ordering /\ (b.pc # "idle" => b.m = m) /\ (b.pc = "clean" => m \in Plain)
    /\ buyer' = [buyer EXCEPT ![p] = b] /\ rows' = [rows EXCEPT ![m] = row]
    /\ row.status = "none" <=> rows[m].status = "none"
    /\ row.status = "none" => row = NoRow
    /\ rows[m].droplet => row.droplet
    /\ droplets' \subseteq droplets \cup {m} /\ droplets \ {m} \subseteq droplets'
    /\ m \in Gpus => droplets \subseteq droplets'
    /\ excused \subseteq excused'
    /\ m \in (droplets' \cap Plain) \ excused' => row.droplet \/ b.pc \in {"wait", "store", "clean"}
    /\ b.pc \in {"create", "fail"} /\ m \in Plain \ excused' => m \notin droplets'
    /\ UNCHANGED watching

\* An order goes on or ends, its droplet and its row with it.
LEMMA OrderMoves ==
    ASSUME CapInv, NEW p \in Buyers, buyer[p].pc \in Ordering, NEW m, m = buyer[p].m,
           NEW b \in BuyerRows, NEW row \in Rows, OrderMove(p, m, b, row)
    PROVE  CapInv'
  <1>. USE DEF OrderMove
  <1>1. /\ m \in Ids(p) /\ m \in Machines /\ buyer[p].pc # "idle" /\ Plain \cap Gpus = {}
        /\ \A q \in Buyers : buyer[q].pc # "idle" => buyer[q].m \in Machines
    BY CapacityAssumption DEF CapInv, CapTypes, Ids, Machines, Ordering
  <1>2. /\ rows' \in [Machines -> Rows] /\ rows'[m] = row /\ \A n \in Machines \ {m} : rows'[n] = rows[n]
        /\ buyer' \in [Buyers -> BuyerRows] /\ buyer'[p] = b /\ \A q \in Buyers \ {p} : buyer'[q] = buyer[q]
    BY <1>1 DEF CapInv, CapTypes
  <1>3. \A n \in Machines : /\ rows'[n].status = "none" <=> rows[n].status = "none"
                            /\ rows[n].droplet => rows'[n].droplet
                            /\ rows'[n].status = "none" => rows'[n] = NoRow
    BY <1>2 DEF CapInv, CapTypes
  <1>4. CapTypes'
    BY <1>1, <1>2, <1>3 DEF CapInv, CapTypes, watching, Machines
  <1>5. BuyersRight'
    <2>1. \A q \in Buyers : buyer'[q].pc # "idle" /\ (buyer'[q].m \in Gpus \/ buyer'[q].m \notin excused')
            => rows'[buyer'[q].m].status # "none"
      BY <1>1, <1>2, <1>3 DEF CapInv, BuyersRight
    <2>2. ASSUME NEW q \in Buyers, NEW o \in Buyers, buyer'[q].pc \in Ordering,
                 buyer'[o].pc \in Ordering \cup {"delete", "forget"},
                 buyer'[q].m = buyer'[o].m, buyer'[q].m \in Plain \ excused'
          PROVE  q = o
      <3>1. /\ buyer[q].pc \in Ordering /\ buyer[o].pc \in Ordering \cup {"delete", "forget"}
            /\ buyer[q].m = buyer'[q].m /\ buyer[o].m = buyer'[o].m
        BY <1>2, <2>2 DEF Ordering
      <3>. QED
        BY <2>2, <3>1 DEF CapInv, BuyersRight
    <2>3. ASSUME NEW q \in Buyers, buyer'[q].pc \in {"create", "fail", "forget"}, buyer'[q].m \in Plain \ excused'
          PROVE  buyer'[q].m \notin droplets'
      <3>1. CASE q = p
        BY <1>2, <2>3, <3>1 DEF Ordering
      <3>2. CASE q # p
        <4>1. buyer[q] = buyer'[q] /\ buyer[q].m \notin droplets
          BY <1>2, <2>3, <3>2 DEF CapInv, BuyersRight
        <4>2. buyer[q].m # m
          BY <2>3, <3>2, <4>1 DEF CapInv, BuyersRight, Ordering
        <4>. QED
          BY <4>1, <4>2
      <3>. QED
        BY <3>1, <3>2
    <2>. QED
      BY <2>1, <2>2, <2>3 DEF BuyersRight
  <1>6. DropletsHeld'
    <2>. SUFFICES ASSUME NEW n \in (droplets' \cap Plain) \ excused'
                  PROVE  rows'[n].droplet \/ \E q \in Buyers : buyer'[q].pc \in {"wait", "store", "clean"} /\ buyer'[q].m = n
      BY DEF DropletsHeld
    <2>1. CASE n = m
      BY <1>2, <2>1
    <2>2. CASE n # m
      <3>1. rows[n].droplet \/ \E q \in Buyers : buyer[q].pc \in {"wait", "store", "clean"} /\ buyer[q].m = n
        BY <2>2 DEF CapInv, DropletsHeld
      <3>. QED
        BY <1>2, <1>3, <2>2, <3>1 DEF Machines
    <2>. QED
      BY <2>1, <2>2
  <1>7. SeenRight' /\ (~overlapped' => ChecksRight')
    <2>1. \A g \in seenUp : g \in Machines /\ (rows'[g].status = "none" => g \in droplets')
      BY <1>3 DEF CapInv, CapTypes, SeenRight, Machines
    <2>2. answering' \subseteq Gpus \cap droplets'
      BY <1>1 DEF CapInv, SeenRight, watching, Machines
    <2>. QED
      BY <1>3, <2>1, <2>2, WatchRests DEF watching
  <1>. QED
    BY <1>4, <1>5, <1>6, <1>7 DEF CapInv

\* The steps of an order.
LEMMA OrderSteps ==
    ASSUME CapInv, NEW p \in Buyers, Provisioning(p) \/ StoreData(p) \/ CleanUp(p) \/ ProvisionFails(p)
    PROVE  CapInv'
  <1>. DEFINE m == buyer[p].m
  <1>1. /\ buyer[p] \in BuyerRows /\ buyer[p].pc \in Ordering /\ m \in Machines /\ m \in Ids(p)
        /\ rows[m] \in Rows /\ (rows[m].status = "none" => rows[m] = NoRow) /\ Plain \cap Gpus = {} /\ droplets \subseteq Machines
    <2>1. buyer[p].pc \in Ordering
      BY DEF Provisioning, createNode, waitForNodeActive, StoreData, CleanUp, deleteOrdered, ProvisionFails, Steps, Ordering
    <2>2. buyer[p] \in BuyerRows /\ m \in Ids(p) /\ m \in Machines
      BY <2>1 DEF CapInv, CapTypes, Ordering, Ids, Machines
    <2>. QED
      BY <2>1, <2>2, CapacityAssumption DEF CapInv, CapTypes
  <1>2. ASSUME NEW pc, NEW to \in Ordering, Steps(p, pc, to)
        PROVE  \E b \in BuyerRows : b.pc = to /\ b.m = m /\ buyer' = [buyer EXCEPT ![p] = b]
    <2>. PICK b : b = [pc |-> to, m |-> m]
      OBVIOUS
    <2>1. b \in BuyerRows
      BY <1>1 DEF BuyerRows
    <2>2. buyer' = [buyer EXCEPT ![p] = b]
      <3>1. buyer' = [buyer EXCEPT ![p] = [buyer[p] EXCEPT !.pc = to]] /\ b = [buyer[p] EXCEPT !.pc = to]
        <4>1. buyer' = [buyer EXCEPT ![p].pc = to]
          BY <1>2 DEF Steps
        <4>. QED
          BY <1>1, <4>1 DEF BuyerRows, CapInv, CapTypes
      <3>. QED
        BY <3>1
    <2>. QED
      BY <2>1, <2>2
  <1>3. Idle \in BuyerRows /\ Idle.pc = "idle"
    BY DEF Idle, BuyerRows
  <1>4. rows = [rows EXCEPT ![m] = rows[m]]
    BY <1>1 DEF CapInv, CapTypes
  <1>9. ASSUME NEW b \in BuyerRows, b.pc \in Ordering, b.m = m, buyer' = [buyer EXCEPT ![p] = b],
               UNCHANGED <<rows, excused>>, UNCHANGED watching, droplets' \in {droplets, droplets \cup {m}},
               m \in Plain => b.pc \in {"wait", "store", "clean"}, b.pc = "clean" => m \in Plain
        PROVE  CapInv'
    <2>1. /\ droplets' \subseteq droplets \cup {m} /\ droplets \ {m} \subseteq droplets' /\ droplets \subseteq droplets'
          /\ excused \subseteq excused' /\ rows' = [rows EXCEPT ![m] = rows[m]]
      BY <1>4, <1>9
    <2>2. m \in Plain => b.pc \notin {"create", "fail"}
      BY <1>9
    <2>3. OrderMove(p, m, b, rows[m])
      BY <1>1, <1>9, <2>1, <2>2 DEF OrderMove
    <2>. QED
      BY <1>1, <1>9, <2>3, OrderMoves
  <1>10. ASSUME NEW b \in BuyerRows, b.pc = "fail", b.m = m, buyer' = [buyer EXCEPT ![p] = b],
                UNCHANGED rows, UNCHANGED watching,
                droplets' \subseteq droplets \cup {m}, droplets \ {m} \subseteq droplets', excused \subseteq excused',
                m \in Gpus => droplets \subseteq droplets', m \notin (droplets' \cap Plain) \ excused'
         PROVE  CapInv'
    <2>1. OrderMove(p, m, b, rows[m])
      BY <1>1, <1>4, <1>10 DEF OrderMove, Ordering
    <2>. QED
      BY <1>1, <1>10, <2>1, OrderMoves
  <1>5. CASE Provisioning(p)
    <2>1. UNCHANGED rows /\ UNCHANGED watching
      BY <1>5 DEF Provisioning
    <2>2. CASE Steps(p, "create", "wait") /\ droplets' = droplets \cup {m} /\ UNCHANGED excused
      <3>1. PICK b \in BuyerRows : b.pc = "wait" /\ b.m = m /\ buyer' = [buyer EXCEPT ![p] = b]
        BY <1>2, <2>2 DEF Ordering
      <3>. QED
        BY <1>9, <2>1, <2>2, <3>1 DEF Ordering
    <2>3. CASE Steps(p, "create", "fail") /\ (UNCHANGED <<droplets, excused>> \/ (droplets' = droplets \cup {m} /\ excused' = excused \cup {m}))
      <3>1. PICK b \in BuyerRows : b.pc = "fail" /\ b.m = m /\ buyer' = [buyer EXCEPT ![p] = b]
        BY <1>2, <2>3 DEF Ordering
      <3>2. m \in Plain \ excused => m \notin droplets
        BY <2>3 DEF Steps, CapInv, BuyersRight
      <3>3. m \in (droplets' \cap Plain) \ excused' => FALSE
        BY <2>3, <3>2
      <3>4. /\ droplets' \subseteq droplets \cup {m} /\ droplets \ {m} \subseteq droplets' /\ excused \subseteq excused'
            /\ droplets \subseteq droplets'
        BY <2>3
      <3>. QED
        BY <1>10, <2>1, <3>1, <3>3, <3>4
    <2>4. CASE Steps(p, "wait", "store") /\ UNCHANGED <<droplets, excused>>
      <3>1. PICK b \in BuyerRows : b.pc = "store" /\ b.m = m /\ buyer' = [buyer EXCEPT ![p] = b]
        BY <1>2, <2>4 DEF Ordering
      <3>. QED
        BY <1>9, <2>1, <2>4, <3>1 DEF Ordering
    <2>5. CASE Steps(p, "wait", afterFailure(m)) /\ UNCHANGED <<droplets, excused>>
      <3>1. PICK b \in BuyerRows : b.pc = afterFailure(m) /\ b.m = m /\ buyer' = [buyer EXCEPT ![p] = b]
        BY <1>2, <2>5 DEF Ordering, afterFailure
      <3>2. b.pc \in Ordering /\ (m \in Plain => b.pc = "clean") /\ (b.pc = "clean" => m \in Plain)
        BY <1>1, <3>1 DEF afterFailure, Ordering, Machines
      <3>. QED
        BY <1>9, <2>1, <2>5, <3>1, <3>2
    <2>6. \/ Steps(p, "create", "wait") /\ droplets' = droplets \cup {m} /\ UNCHANGED excused
          \/ Steps(p, "create", "fail") /\ (UNCHANGED <<droplets, excused>> \/ (droplets' = droplets \cup {m} /\ excused' = excused \cup {m}))
          \/ Steps(p, "wait", "store") /\ UNCHANGED <<droplets, excused>>
          \/ Steps(p, "wait", afterFailure(m)) /\ UNCHANGED <<droplets, excused>>
      BY <1>5 DEF Provisioning, createNode, waitForNodeActive
    <2>. QED
      BY <2>2, <2>3, <2>4, <2>5, <2>6
  <1>6. CASE StoreData(p)
    <2>1. UNCHANGED <<droplets, excused>> /\ UNCHANGED watching /\ buyer[p].pc = "store"
      BY <1>6 DEF StoreData
    <2>2. CASE rows' = [rows EXCEPT ![m] = IF m \in Gpus THEN updateHost(@) ELSE updateProvisionData(@)] /\ Ends(p)
      <3>. PICK row : row = IF m \in Gpus THEN updateHost(rows[m]) ELSE updateProvisionData(rows[m])
        OBVIOUS
      <3>1. (m \in Gpus \/ m \notin excused) => rows[m].status # "none"
        BY <2>1 DEF CapInv, BuyersRight
      <3>2. /\ row \in Rows /\ row.status = rows[m].status /\ (rows[m].status # "none" => row.droplet)
            /\ rows[m].status = "none" => row = rows[m]
        <4>1. CASE m \in Gpus
          BY <1>1, <3>1, <4>1 DEF updateHost, Rows
        <4>2. CASE m \notin Gpus
          <5>1. Shelf \in Nat
            BY CapacityAssumption
          <5>2. CASE rows[m].status = "none"
            BY <1>1, <4>2, <5>2 DEF updateProvisionData
          <5>3. CASE rows[m].status # "none"
            <6>1. row = [rows[m] EXCEPT !.droplet = TRUE, !.host = TRUE, !.cap = Shelf]
              BY <4>2, <5>3 DEF updateProvisionData
            <6>. QED
              BY <1>1, <5>1, <5>3, <6>1 DEF Rows
          <5>. QED
            BY <5>2, <5>3
        <4>. QED
          BY <4>1, <4>2
      <3>3. rows' = [rows EXCEPT ![m] = row] /\ buyer' = [buyer EXCEPT ![p] = Idle]
        BY <2>2 DEF Ends
      <3>. QED
        <4>1. OrderMove(p, m, Idle, row)
          BY <1>1, <1>3, <2>1, <3>1, <3>2, <3>3 DEF OrderMove
        <4>. QED
          BY <1>1, <1>3, <3>1, <3>2, <4>1, OrderMoves
    <2>3. CASE Steps(p, "store", afterFailure(m)) /\ UNCHANGED rows
      <3>1. PICK b \in BuyerRows : b.pc = afterFailure(m) /\ b.m = m /\ buyer' = [buyer EXCEPT ![p] = b]
        BY <1>2, <2>3 DEF Ordering, afterFailure
      <3>2. b.pc \in Ordering /\ (m \in Plain => b.pc = "clean") /\ (b.pc = "clean" => m \in Plain)
        BY <1>1, <3>1 DEF afterFailure, Ordering, Machines
      <3>. QED
        BY <1>9, <2>1, <2>3, <3>1, <3>2
    <2>. QED
      BY <1>6, <2>2, <2>3 DEF StoreData
  <1>7. CASE CleanUp(p)
    <2>1. UNCHANGED rows /\ UNCHANGED watching /\ Steps(p, "clean", "fail")
          /\ \/ droplets' = droplets \ {m} /\ UNCHANGED excused
             \/ excused' = excused \cup {m} /\ UNCHANGED droplets
      BY <1>7 DEF CleanUp, deleteOrdered
    <2>2. PICK b \in BuyerRows : b.pc = "fail" /\ b.m = m /\ buyer' = [buyer EXCEPT ![p] = b]
      BY <1>2, <2>1 DEF Ordering
    <2>3. m \in Plain
      BY <2>1 DEF Steps, CapInv, CapTypes
    <2>4. m \in (droplets' \cap Plain) \ excused' => FALSE
      BY <2>1
    <2>5. /\ droplets' \subseteq droplets \cup {m} /\ droplets \ {m} \subseteq droplets' /\ excused \subseteq excused'
          /\ m \notin Gpus
      BY <1>1, <2>1, <2>3
    <2>. QED
      BY <1>10, <2>1, <2>2, <2>4, <2>5
  <1>8. CASE ProvisionFails(p)
    <2>. PICK row : row = markNodeFailed(rows[m])
      OBVIOUS
    <2>1. /\ rows' = [rows EXCEPT ![m] = row] /\ buyer' = [buyer EXCEPT ![p] = Idle] /\ buyer[p].pc = "fail"
          /\ UNCHANGED <<droplets, excused>> /\ UNCHANGED watching
      BY <1>8 DEF ProvisionFails, Ends
    <2>2. /\ row \in Rows /\ (row.status = "none" <=> rows[m].status = "none") /\ row.droplet = rows[m].droplet
          /\ rows[m].status = "none" => row = rows[m]
      BY <1>1 DEF markNodeFailed, Rows
    <2>3. m \in Plain \ excused => m \notin droplets
      BY <2>1 DEF CapInv, BuyersRight
    <2>. QED
      <3>1. OrderMove(p, m, Idle, row)
        BY <1>1, <1>3, <2>1, <2>2, <2>3 DEF OrderMove
      <3>. QED
        BY <1>1, <1>3, <2>2, <3>1, OrderMoves
  <1>. QED
    BY <1>5, <1>6, <1>7, <1>8

\* A new order, of a node nobody works on.
LEMMA OrderBegins ==
    ASSUME CapInv, NEW p \in Buyers, buyer[p] = Idle, provision(p, Ids(p)), UNCHANGED <<droplets, excused>>, UNCHANGED watching
    PROVE  CapInv'
  <1>1. PICK m \in Ids(p) :
          /\ rows[m] = NoRow /\ m \notin droplets /\ rows' = [rows EXCEPT ![m] = insertProvisioning]
          /\ buyer' = [buyer EXCEPT ![p] = [pc |-> "create", m |-> m]]
    BY DEF provision
  <1>. PICK row : row = insertProvisioning
    OBVIOUS
  <1>2. row \in Rows /\ row.status = "provisioning" /\ m \in Machines /\ rows[m].status = "none" /\ ~rows[m].droplet
    <2>1. row = [status |-> "provisioning", droplet |-> FALSE, host |-> FALSE, cap |-> 0, used |-> 0]
      BY DEF insertProvisioning, NoRow
    <2>2. m \in Machines
      BY <1>1 DEF Ids, Machines
    <2>. QED
      BY <1>1, <2>1, <2>2 DEF Rows, NoRow
  <1>. PICK b : b = [pc |-> "create", m |-> m]
    OBVIOUS
  <1>3. b \in BuyerRows /\ b.pc = "create" /\ b.m = m /\ buyer[p].pc = "idle" /\ Plain \cap Gpus = {}
    BY <1>2, CapacityAssumption DEF BuyerRows, Idle, Ordering
  <1>4. /\ rows' \in [Machines -> Rows] /\ rows'[m] = row /\ \A n \in Machines \ {m} : rows'[n] = rows[n]
        /\ buyer' \in [Buyers -> BuyerRows] /\ buyer'[p] = b /\ \A q \in Buyers \ {p} : buyer'[q] = buyer[q]
    BY <1>1, <1>2, <1>3 DEF CapInv, CapTypes
  <1>5. CapTypes'
    BY <1>1, <1>2, <1>3, <1>4 DEF CapInv, CapTypes, watching
  <1>6. \A q \in Buyers \ {p} : buyer[q].pc # "idle" /\ buyer[q].m = m => m \in excused /\ m \notin Gpus
    BY <1>2 DEF CapInv, BuyersRight
  <1>7. \A q \in Buyers : buyer[q].pc # "idle" => buyer[q].m \in Machines
    BY DEF CapInv, CapTypes, Ids, Machines
  <1>8. BuyersRight'
    <2>1. \A q \in Buyers : buyer'[q].pc # "idle" /\ (buyer'[q].m \in Gpus \/ buyer'[q].m \notin excused)
            => rows'[buyer'[q].m].status # "none"
      BY <1>2, <1>3, <1>4, <1>7 DEF CapInv, BuyersRight
    <2>2. ASSUME NEW q \in Buyers, NEW o \in Buyers, buyer'[q].pc \in Ordering,
                 buyer'[o].pc \in Ordering \cup {"delete", "forget"},
                 buyer'[q].m = buyer'[o].m, buyer'[q].m \in Plain \ excused
          PROVE  q = o
      <3>1. CASE q = p \/ o = p
        BY <1>3, <1>4, <1>6, <2>2, <3>1 DEF Ordering
      <3>2. CASE q # p /\ o # p
        BY <1>4, <2>2, <3>2 DEF CapInv, BuyersRight
      <3>. QED
        BY <3>1, <3>2
    <2>3. \A q \in Buyers : buyer'[q].pc \in {"create", "fail", "forget"} /\ buyer'[q].m \in Plain \ excused
            => buyer'[q].m \notin droplets
      BY <1>1, <1>3, <1>4 DEF CapInv, BuyersRight
    <2>. QED
      BY <2>1, <2>2, <2>3 DEF BuyersRight
  <1>9. DropletsHeld'
    <2>. SUFFICES ASSUME NEW n \in (droplets \cap Plain) \ excused
                  PROVE  rows'[n].droplet \/ \E q \in Buyers : buyer'[q].pc \in {"wait", "store", "clean"} /\ buyer'[q].m = n
      BY DEF DropletsHeld
    <2>1. rows'[n] = rows[n]
      BY <1>1, <1>4 DEF Machines
    <2>2. rows[n].droplet \/ \E q \in Buyers : buyer[q].pc \in {"wait", "store", "clean"} /\ buyer[q].m = n
      BY DEF CapInv, DropletsHeld
    <2>. QED
      BY <1>3, <1>4, <2>1, <2>2
  <1>10. SeenRight' /\ (~overlapped' => ChecksRight')
    <2>1. m \notin seenUp
      BY <1>1, <1>2 DEF CapInv, SeenRight
    <2>2. \A g \in seenUp : g \in Machines /\ rows'[g] = rows[g]
      BY <1>4, <2>1 DEF CapInv, CapTypes, Machines
    <2>3. answering \subseteq Gpus \cap droplets /\ \A g \in seenUp : rows[g].status = "none" => g \in droplets
      BY DEF CapInv, SeenRight
    <2>. QED
      BY <2>2, <2>3, WatchRests DEF watching
  <1>. QED
    BY <1>5, <1>8, <1>9, <1>10 DEF CapInv

\* The destruction of a node begins with reading its row.
LEMMA DestroyBegins ==
    ASSUME CapInv, NEW p \in Buyers, buyer[p] = Idle, NEW m \in Ids(p), rows[m].status # "none", beginDestroy(p, m),
           UNCHANGED <<rows, droplets, excused>>, UNCHANGED watching
    PROVE  CapInv'
  <1>. PICK b : b = [pc |-> "read", m |-> m]
    OBVIOUS
  <1>1. b \in BuyerRows /\ b.pc = "read" /\ b.m = m /\ buyer[p].pc = "idle" /\ m \in Machines
    BY DEF BuyerRows, Destroying, Ids, Machines, Idle
  <1>2. buyer' \in [Buyers -> BuyerRows] /\ buyer'[p] = b /\ \A q \in Buyers \ {p} : buyer'[q] = buyer[q]
    BY <1>1 DEF beginDestroy, CapInv, CapTypes
  <1>3. CapTypes'
    BY <1>1, <1>2 DEF CapInv, CapTypes, watching
  <1>4. BuyersRight'
    BY <1>1, <1>2 DEF CapInv, BuyersRight, Ordering
  <1>5. DropletsHeld'
    BY <1>1, <1>2 DEF CapInv, DropletsHeld
  <1>6. SeenRight' /\ (~overlapped' => ChecksRight')
    BY WatchRests DEF CapInv, SeenRight, watching
  <1>. QED
    BY <1>3, <1>4, <1>5, <1>6 DEF CapInv

\* The steps of destroy.
LEMMA DestroySteps ==
    ASSUME CapInv, NEW p \in Buyers, destroyReads(p) \/ deleteNode(p) \/ forgetNode(p)
    PROVE  CapInv'
  <1>. DEFINE m == buyer[p].m
  <1>1. /\ buyer[p] \in BuyerRows /\ buyer[p].pc \in Destroying /\ m \in Machines /\ m \in Ids(p)
        /\ Plain \cap Gpus = {}
    <2>1. buyer[p].pc \in Destroying
      BY DEF destroyReads, deleteNode, forgetNode, Destroying
    <2>. QED
      BY <2>1, CapacityAssumption DEF CapInv, CapTypes, Destroying, Ids, Machines
  <1>2. ASSUME NEW b \in BuyerRows, b.pc \in {"idle", "delete", "forget"}, b.pc # "idle" => b.m = m,
               buyer' = [buyer EXCEPT ![p] = b]
        PROVE  /\ buyer' \in [Buyers -> BuyerRows] /\ buyer'[p] = b /\ \A q \in Buyers \ {p} : buyer'[q] = buyer[q]
               /\ \A q \in Buyers : buyer'[q].pc # "idle" => buyer'[q].m \in Ids(q)
               /\ \A q \in Buyers : buyer'[q].pc = "clean" => buyer'[q].m \in Plain
               /\ \A q \in Buyers : buyer'[q].pc \in Ordering => q # p /\ buyer'[q] = buyer[q]
    <2>1. buyer' \in [Buyers -> BuyerRows] /\ buyer'[p] = b /\ \A q \in Buyers \ {p} : buyer'[q] = buyer[q]
      BY <1>2 DEF CapInv, CapTypes
    <2>. QED
      BY <1>1, <1>2, <2>1 DEF CapInv, CapTypes, Ordering
  <1>3. Idle \in BuyerRows /\ Idle.pc = "idle"
    BY DEF Idle, BuyerRows
  <1>4. ASSUME NEW pc, NEW to \in {"delete", "forget"}, Steps(p, pc, to)
        PROVE  \E b \in BuyerRows : b.pc = to /\ b.m = m /\ buyer' = [buyer EXCEPT ![p] = b]
    <2>. PICK b : b = [pc |-> to, m |-> m]
      OBVIOUS
    <2>1. b \in BuyerRows
      BY <1>1 DEF BuyerRows, Destroying
    <2>2. buyer' = [buyer EXCEPT ![p] = [buyer[p] EXCEPT !.pc = to]] /\ b = [buyer[p] EXCEPT !.pc = to]
      <3>1. buyer' = [buyer EXCEPT ![p].pc = to]
        BY <1>4 DEF Steps
      <3>. QED
        BY <1>1, <3>1 DEF BuyerRows, CapInv, CapTypes
    <2>. QED
      BY <2>1, <2>2
  <1>5. \A q \in Buyers : buyer[q].pc # "idle" => buyer[q].m \in Machines
    BY DEF CapInv, CapTypes, Ids, Machines
  <1>6. CASE destroyReads(p)
    <2>1. UNCHANGED <<rows, droplets>> /\ UNCHANGED watching /\ excused' = excused \cup Contested(p) /\ buyer[p].pc = "read"
      BY <1>6 DEF destroyReads
    <2>2. PICK b \in BuyerRows : /\ b.pc \in {"idle", "delete", "forget"} /\ (b.pc # "idle" => b.m = m)
                                 /\ buyer' = [buyer EXCEPT ![p] = b] /\ (b.pc = "forget" => ~rows[m].droplet)
      <3>1. CASE Ends(p)
        BY <1>3, <3>1 DEF Ends
      <3>2. CASE Steps(p, "read", "delete")
        BY <1>4, <3>2
      <3>3. CASE Steps(p, "read", "forget") /\ ~rows[m].droplet
        BY <1>4, <3>3
      <3>4. Ends(p) \/ Steps(p, "read", "delete") \/ (Steps(p, "read", "forget") /\ ~rows[m].droplet)
        BY <1>6 DEF destroyReads
      <3>. QED
        BY <3>1, <3>2, <3>3, <3>4
    <2>3. \A q \in Buyers \ {p} : buyer[q].m = m => m \in excused'
      BY <2>1 DEF Contested
    <2>4. CapTypes'
      BY <1>2, <2>1, <2>2 DEF CapInv, CapTypes, watching
    <2>5. BuyersRight'
      <3>1. \A q \in Buyers : buyer'[q].pc # "idle" /\ (buyer'[q].m \in Gpus \/ buyer'[q].m \notin excused')
              => rows[buyer'[q].m].status # "none"
        BY <1>2, <2>1, <2>2 DEF CapInv, BuyersRight
      <3>2. ASSUME NEW q \in Buyers, NEW o \in Buyers, buyer'[q].pc \in Ordering,
                   buyer'[o].pc \in Ordering \cup {"delete", "forget"},
                   buyer'[q].m = buyer'[o].m, buyer'[q].m \in Plain \ excused'
            PROVE  q = o
        <4>1. q # p /\ buyer'[q] = buyer[q]
          BY <1>2, <2>2, <3>2
        <4>2. CASE o = p
          BY <1>2, <2>2, <2>3, <3>2, <4>1, <4>2 DEF Ordering
        <4>3. CASE o # p
          BY <1>2, <2>1, <2>2, <3>2, <4>1, <4>3 DEF CapInv, BuyersRight
        <4>. QED
          BY <4>2, <4>3
      <3>3. ASSUME NEW q \in Buyers, buyer'[q].pc \in {"create", "fail", "forget"}, buyer'[q].m \in Plain \ excused'
            PROVE  buyer'[q].m \notin droplets
        <4>1. CASE q = p
          <5>1. b.pc = "forget" /\ ~rows[m].droplet /\ m \in Plain \ excused'
            BY <1>2, <2>2, <3>3, <4>1
          <5>2. \A o \in Buyers : buyer[o].pc \in {"wait", "store", "clean"} => buyer[o].m # m
            BY <2>1, <2>3, <5>1
          <5>. QED
            BY <1>2, <2>1, <2>2, <4>1, <5>1, <5>2 DEF CapInv, DropletsHeld
        <4>2. CASE q # p
          BY <1>2, <2>1, <2>2, <3>3, <4>2 DEF CapInv, BuyersRight
        <4>. QED
          BY <4>1, <4>2
      <3>. QED
        BY <2>1, <3>1, <3>2, <3>3 DEF BuyersRight
    <2>6. DropletsHeld'
      BY <1>2, <2>1, <2>2 DEF CapInv, DropletsHeld
    <2>7. SeenRight' /\ (~overlapped' => ChecksRight')
      BY <2>1, WatchRests DEF CapInv, SeenRight, watching
    <2>. QED
      BY <2>4, <2>5, <2>6, <2>7 DEF CapInv
  <1>7. CASE deleteNode(p)
    <2>1. /\ UNCHANGED <<rows, excused, states, checks, overlapped, seenUp, gaveUp>> /\ buyer[p].pc = "delete"
          /\ droplets' \subseteq droplets /\ droplets \ {m} \subseteq droplets' /\ answering' = answering \cap droplets'
      BY <1>7 DEF deleteNode
    <2>2. PICK b \in BuyerRows : /\ b.pc \in {"idle", "delete", "forget"} /\ (b.pc # "idle" => b.m = m)
                                 /\ buyer' = [buyer EXCEPT ![p] = b] /\ (b.pc = "forget" => m \notin droplets') /\ b.pc # "delete"
      <3>1. CASE Ends(p)
        BY <1>3, <3>1 DEF Ends
      <3>2. CASE Steps(p, "delete", "forget") /\ droplets' = droplets \ {m}
        <4>1. PICK b \in BuyerRows : b.pc = "forget" /\ b.m = m /\ buyer' = [buyer EXCEPT ![p] = b]
          BY <1>4, <3>2
        <4>. QED
          BY <3>2, <4>1
      <3>. QED
        BY <1>7, <3>1, <3>2 DEF deleteNode
    <2>3. CapTypes'
      BY <1>2, <2>1, <2>2 DEF CapInv, CapTypes
    <2>4. BuyersRight'
      <3>1. \A q \in Buyers : buyer'[q].pc # "idle" /\ (buyer'[q].m \in Gpus \/ buyer'[q].m \notin excused)
              => rows[buyer'[q].m].status # "none"
        BY <1>2, <2>1, <2>2 DEF CapInv, BuyersRight
      <3>2. ASSUME NEW q \in Buyers, NEW o \in Buyers, buyer'[q].pc \in Ordering,
                   buyer'[o].pc \in Ordering \cup {"delete", "forget"},
                   buyer'[q].m = buyer'[o].m, buyer'[q].m \in Plain \ excused
            PROVE  q = o
        <4>1. q # p /\ buyer'[q] = buyer[q]
          BY <1>2, <2>2, <3>2
        <4>2. buyer[o].pc \in Ordering \cup {"delete", "forget"} /\ buyer[o].m = buyer'[o].m
          BY <1>2, <2>1, <2>2, <3>2 DEF Ordering
        <4>. QED
          BY <3>2, <4>1, <4>2 DEF CapInv, BuyersRight
      <3>3. \A q \in Buyers : buyer'[q].pc \in {"create", "fail", "forget"} /\ buyer'[q].m \in Plain \ excused
              => buyer'[q].m \notin droplets'
        BY <1>2, <2>1, <2>2 DEF CapInv, BuyersRight
      <3>. QED
        BY <2>1, <3>1, <3>2, <3>3 DEF BuyersRight
    <2>5. DropletsHeld'
      BY <1>2, <2>1, <2>2 DEF CapInv, DropletsHeld
    <2>6. SeenRight' /\ (~overlapped' => ChecksRight')
      <3>1. rows[m].status = "none" => m \notin Gpus
        BY <2>1 DEF CapInv, BuyersRight
      <3>2. \A g \in seenUp : rows[g].status = "none" => g \in droplets'
        BY <2>1, <3>1 DEF CapInv, CapTypes, SeenRight
      <3>3. answering' \subseteq Gpus \cap droplets'
        BY <2>1 DEF CapInv, SeenRight
      <3>. QED
        BY <2>1, <3>2, <3>3, WatchRests
    <2>. QED
      BY <2>3, <2>4, <2>5, <2>6 DEF CapInv
  <1>8. CASE forgetNode(p)
    <2>1. /\ UNCHANGED <<droplets, answering, states, checks, overlapped, gaveUp>> /\ buyer[p].pc = "forget"
          /\ rows' = [rows EXCEPT ![m] = NoRow] /\ seenUp' = seenUp \ {m} /\ excused' = excused \cup Contested(p)
          /\ buyer' = [buyer EXCEPT ![p] = Idle]
      BY <1>8 DEF forgetNode, Ends
    <2>2. \A q \in Buyers \ {p} : buyer[q].m = m => m \in excused'
      BY <2>1 DEF Contested
    <2>3. /\ rows' \in [Machines -> Rows] /\ rows'[m] = NoRow /\ \A n \in Machines \ {m} : rows'[n] = rows[n]
      <3>1. NoRow \in Rows
        BY DEF NoRow, Rows
      <3>. QED
        BY <1>1, <2>1, <3>1 DEF CapInv, CapTypes
    <2>4. /\ buyer' \in [Buyers -> BuyerRows] /\ buyer'[p] = Idle /\ \A q \in Buyers \ {p} : buyer'[q] = buyer[q]
          /\ \A q \in Buyers : buyer'[q].pc # "idle" => buyer'[q].m \in Ids(q) /\ q # p /\ buyer'[q] = buyer[q]
          /\ \A q \in Buyers : buyer'[q].pc = "clean" => buyer'[q].m \in Plain
      BY <1>2, <1>3, <2>1
    <2>5. CapTypes'
      BY <2>1, <2>3, <2>4 DEF CapInv, CapTypes
    <2>6. BuyersRight'
      <3>1. ASSUME NEW q \in Buyers, buyer'[q].pc # "idle", buyer'[q].m \in Gpus \/ buyer'[q].m \notin excused'
            PROVE  rows'[buyer'[q].m].status # "none"
        <4>1. q # p /\ buyer'[q] = buyer[q] /\ buyer[q].m \in Ids(q) /\ buyer[q].m \in Machines
          BY <1>5, <2>4, <3>1
        <4>2. buyer[q].m # m
          <5>1. CASE m \in Gpus
            BY <1>1, <4>1, <5>1 DEF Ids
          <5>2. CASE m \notin Gpus
            BY <2>2, <3>1, <4>1, <5>2
          <5>. QED
            BY <5>1, <5>2
        <4>3. rows[buyer[q].m].status # "none"
          BY <2>1, <3>1, <4>1 DEF CapInv, BuyersRight
        <4>. QED
          BY <2>3, <4>1, <4>2, <4>3
      <3>2. \A q, o \in Buyers : /\ buyer'[q].pc \in Ordering /\ buyer'[o].pc \in Ordering \cup {"delete", "forget"}
                                 /\ buyer'[q].m = buyer'[o].m /\ buyer'[q].m \in Plain \ excused'
                                 => q = o
        BY <2>1, <2>4 DEF CapInv, BuyersRight, Ordering
      <3>3. \A q \in Buyers : buyer'[q].pc \in {"create", "fail", "forget"} /\ buyer'[q].m \in Plain \ excused'
              => buyer'[q].m \notin droplets
        BY <2>1, <2>4 DEF CapInv, BuyersRight
      <3>. QED
        BY <2>1, <3>1, <3>2, <3>3 DEF BuyersRight
    <2>7. DropletsHeld'
      <3>. SUFFICES ASSUME NEW n \in (droplets \cap Plain) \ excused'
                    PROVE  rows'[n].droplet \/ \E q \in Buyers : buyer'[q].pc \in {"wait", "store", "clean"} /\ buyer'[q].m = n
        BY <2>1 DEF DropletsHeld
      <3>1. n # m
        BY <2>1 DEF CapInv, BuyersRight
      <3>2. rows[n].droplet \/ \E q \in Buyers : buyer[q].pc \in {"wait", "store", "clean"} /\ buyer[q].m = n
        BY <2>1 DEF CapInv, DropletsHeld
      <3>. QED
        BY <2>1, <2>3, <2>4, <3>1, <3>2 DEF Machines
    <2>8. SeenRight' /\ (~overlapped' => ChecksRight')
      <3>1. \A g \in seenUp' : g \in Machines /\ rows'[g] = rows[g] /\ (rows[g].status = "none" => g \in droplets)
        BY <2>1, <2>3 DEF CapInv, CapTypes, SeenRight, Machines
      <3>2. answering \subseteq Gpus \cap droplets
        BY DEF CapInv, SeenRight
      <3>. QED
        BY <2>1, <3>1, <3>2, WatchRests
    <2>. QED
      BY <2>5, <2>6, <2>7, <2>8 DEF CapInv
  <1>. QED
    BY <1>6, <1>7, <1>8

\* Nothing that is said of the machines has changed.
LEMMA CapStutters ==
    ASSUME CapInv, UNCHANGED <<rows, droplets, buyer, excused>>, UNCHANGED watching
    PROVE  CapInv'
  <1>1. CapTypes'
    BY DEF CapInv, CapTypes, watching
  <1>2. BuyersRight' /\ DropletsHeld'
    BY BuyersRest
  <1>3. SeenRight' /\ (~overlapped' => ChecksRight')
    BY WatchRests DEF CapInv, SeenRight, watching
  <1>. QED
    BY <1>1, <1>2, <1>3 DEF CapInv

\* The policy and the administrators order and destroy; heartbeats and a node that
\* reports write rows that are there.
LEMMA PolicySteps ==
    ASSUME CapInv,
           \/ \E p \in Buyers : evaluate(p) \/ AdminOrders(p, Ids(p)) \/ \E m \in Ids(p) : AdminDestroys(p, m)
           \/ TimePasses
           \/ \E m \in Plain : updateHeartbeat(m) \/ cancelDrain(m)
           \/ \E g \in Gpus : reportDone(g) \/ ServicesChange(g)
    PROVE  CapInv'
  <1>1. ASSUME NEW p \in Buyers, evaluate(p) PROVE CapInv'
    <2>1. /\ p = "policy" /\ buyer[p] = Idle /\ Ids(p) = Plain
          /\ UNCHANGED <<droplets, excused>> /\ UNCHANGED watching
      BY <1>1 DEF evaluate, Ids
    <2>2. \/ UNCHANGED <<rows, buyer>>
          \/ provision(p, Plain)
          \/ (\E m \in activeNodes : beginDestroy(p, m)) /\ UNCHANGED rows
      BY <1>1 DEF evaluate
    <2>3. CASE UNCHANGED <<rows, buyer>>
      BY <2>1, <2>3, CapStutters
    <2>4. CASE provision(p, Plain)
      BY <2>1, <2>4, OrderBegins
    <2>5. ASSUME NEW m \in activeNodes, beginDestroy(p, m), UNCHANGED rows PROVE CapInv'
      <3>1. m \in Ids(p) /\ rows[m].status # "none"
        BY <2>1 DEF activeNodes
      <3>. QED
        BY <2>1, <2>5, <3>1, DestroyBegins
    <2>. QED
      BY <2>2, <2>3, <2>4, <2>5
  <1>2. ASSUME NEW p \in Buyers, AdminOrders(p, Ids(p)) PROVE CapInv'
    <2>1. buyer[p] = Idle /\ provision(p, Ids(p)) /\ UNCHANGED <<droplets, excused>> /\ UNCHANGED watching
      BY <1>2 DEF AdminOrders
    <2>. QED
      BY <2>1, OrderBegins
  <1>3. ASSUME NEW p \in Buyers, NEW m \in Ids(p), AdminDestroys(p, m) PROVE CapInv'
    <2>1. buyer[p] = Idle /\ rows[m] # NoRow /\ beginDestroy(p, m) /\ UNCHANGED <<rows, droplets, excused>> /\ UNCHANGED watching
      BY <1>3 DEF AdminDestroys
    <2>2. rows[m].status # "none"
      BY <2>1 DEF CapInv, CapTypes, Ids, Machines
    <2>. QED
      BY <2>1, <2>2, DestroyBegins
  <1>4. CASE TimePasses
    BY <1>4, CapStutters DEF TimePasses
  <1>5. ASSUME NEW m \in Machines, NEW row \in Rows, rows' = [rows EXCEPT ![m] = row],
               rows[m].status # "none", row.status # "none", row.droplet = rows[m].droplet,
               UNCHANGED <<droplets, buyer, excused>>, UNCHANGED watching
        PROVE  CapInv'
    <2>1. answering \subseteq droplets \cap Gpus
      BY DEF CapInv, SeenRight
    <2>. QED
      BY <1>5, <2>1, RowSteps DEF watching
  <1>6. ASSUME NEW m \in Plain, updateHeartbeat(m) PROVE CapInv'
    <2>1. PICK n \in 0..Shelf : rows' = [rows EXCEPT ![m].used = n]
      BY <1>6 DEF updateHeartbeat
    <2>2. m \in Machines /\ rows[m] \in Rows /\ rows[m].status = "active" /\ n \in Nat
          /\ UNCHANGED <<droplets, buyer, excused>> /\ UNCHANGED watching
      BY <1>6, CapacityAssumption DEF updateHeartbeat, CapInv, CapTypes, Machines
    <2>. PICK row : row = [rows[m] EXCEPT !.used = n]
      OBVIOUS
    <2>3. row \in Rows /\ row.status = "active" /\ row.droplet = rows[m].droplet /\ rows' = [rows EXCEPT ![m] = row]
      BY <2>1, <2>2 DEF Rows
    <2>. QED
      BY <1>5, <2>2, <2>3
  <1>7. ASSUME NEW m \in Machines, rows[m].status # "none", rows' = [rows EXCEPT ![m].status = "active"],
               UNCHANGED <<droplets, buyer, excused, states, checks, overlapped, seenUp, gaveUp>>,
               answering' \subseteq droplets \cap Gpus
        PROVE CapInv'
    <2>1. rows[m] \in Rows
      BY DEF CapInv, CapTypes
    <2>. PICK row : row = [rows[m] EXCEPT !.status = "active"]
      OBVIOUS
    <2>2. row \in Rows /\ row.status = "active" /\ row.droplet = rows[m].droplet
      BY <2>1 DEF Rows
    <2>3. rows' = [rows EXCEPT ![m] = row]
      BY <1>7
    <2>. QED
      BY <1>7, <2>2, <2>3, RowSteps
  <1>8. ASSUME NEW m \in Plain, cancelDrain(m) PROVE CapInv'
    <2>1. answering \subseteq droplets \cap Gpus
      BY DEF CapInv, SeenRight
    <2>. QED
      BY <1>7, <1>8, <2>1 DEF cancelDrain, watching, Machines
  <1>9. ASSUME NEW g \in Gpus, reportDone(g) PROVE CapInv'
    <2>1. answering \cup {g} \subseteq droplets \cap Gpus
      BY <1>9 DEF CapInv, SeenRight, reportDone
    <2>. QED
      BY <1>7, <1>9, <2>1 DEF reportDone, Machines
  <1>10. ASSUME NEW g \in Gpus, ServicesChange(g) PROVE CapInv'
    <2>1. /\ UNCHANGED <<rows, droplets, buyer, excused, states, checks, overlapped, seenUp, gaveUp>>
          /\ answering' \subseteq Gpus \cap droplets
      BY <1>10 DEF ServicesChange, CapInv, SeenRight
    <2>2. CapTypes'
      BY <2>1 DEF CapInv, CapTypes
    <2>3. BuyersRight' /\ DropletsHeld'
      BY <2>1, BuyersRest
    <2>4. SeenRight' /\ (~overlapped' => ChecksRight')
      BY <2>1, WatchRests DEF CapInv, SeenRight
    <2>. QED
      BY <2>2, <2>3, <2>4 DEF CapInv
  <1>. QED
    BY <1>1, <1>2, <1>3, <1>4, <1>6, <1>8, <1>9, <1>10

\* What a step of a check may do to its list, its node and what it has seen.
CheckMove(c, g, k, row, state) ==
    /\ checks[c].pc # "idle" /\ g = Node(c) /\ (k.pc # "idle" => k.todo # << >>) /\ (k.pc = "mark" => k.status # "none")
    /\ checks' = [checks EXCEPT ![c] = k] /\ rows' = [rows EXCEPT ![g] = row] /\ states' = [states EXCEPT ![g] = state]
    /\ row.status = "none" <=> rows[g].status = "none"
    /\ row.status = "none" => row = NoRow
    /\ rows[g].droplet => row.droplet
    /\ seenUp' \ {g} = seenUp \ {g} /\ (g \in seenUp' => g \in seenUp \/ g \in droplets)
    /\ ~overlapped =>
         /\ g \in seenUp' /\ state.reboot # "no" /\ row.status # "none" =>
              k.pc = "judge" /\ k.health = "ok" /\ Head(k.todo).id = g
         /\ k.pc = "mark" /\ k.status = "failed" => Head(k.todo).id = g /\ g \notin seenUp'
         /\ gaveUp' = {}
    /\ UNCHANGED <<droplets, buyer, excused, answering, overlapped>>

\* A check goes on with the node at the head of its list: what it has seen it is
\* about to write, and what it gives up it has not seen.
LEMMA CheckMoves ==
    ASSUME CapInv, NEW c \in Checks, NEW g, NEW k \in CheckRows, NEW row \in Rows, NEW state \in StateRows,
           CheckMove(c, g, k, row, state)
    PROVE  CapInv'
  <1>. USE DEF CheckMove
  <1>1. g \in Gpus /\ g \in Machines
    <2>1. checks[c] \in CheckRows /\ checks[c].todo # << >>
      BY DEF CapInv, CapTypes
    <2>2. checks[c].todo \in Seq(Items)
      BY <2>1 DEF CheckRows
    <2>3. Head(checks[c].todo) \in Items
      BY <2>1, <2>2
    <2>. QED
      BY <2>3 DEF Node, Listed, Items, Machines
  <1>2. /\ rows' \in [Machines -> Rows] /\ rows'[g] = row
        /\ \A n \in Machines : /\ rows'[n].status = "none" <=> rows[n].status = "none"
                               /\ rows[n].droplet => rows'[n].droplet
                               /\ rows'[n].status = "none" => rows'[n] = NoRow
    BY <1>1 DEF CapInv, CapTypes
  <1>3. /\ checks' \in [Checks -> CheckRows] /\ checks'[c] = k /\ \A d \in Checks \ {c} : checks'[d] = checks[d]
        /\ states' \in [Gpus -> StateRows] /\ states'[g] = state /\ \A n \in Gpus \ {g} : states'[n] = states[n]
    BY <1>1 DEF CapInv, CapTypes
  <1>4. CapTypes'
    BY <1>1, <1>2, <1>3 DEF CapInv, CapTypes
  <1>5. BuyersRight' /\ DropletsHeld'
    BY <1>2, BuyersRest
  <1>6. seenUp' \subseteq Gpus /\ Gpus \subseteq Machines
    BY <1>1 DEF CapInv, CapTypes, Machines
  <1>7. SeenRight'
    BY <1>2, <1>6 DEF CapInv, SeenRight
  <1>8. ASSUME ~overlapped PROVE ChecksRight'
    <2>1. ChecksRight
      BY <1>8 DEF CapInv
    <2>2. \A d \in Checks \ {c} : checks[d].pc = "idle" /\ checks'[d].pc = "idle"
      BY <1>3, <2>1 DEF ChecksRight
    <2>3. Node(c)' = Head(k.todo).id
      BY <1>3 DEF Node, Listed
    <2>4. ASSUME NEW n \in seenUp', states'[n].reboot # "no", rows'[n].status # "none"
          PROVE  \E d \in Checks : SeenBy(d, n)'
      <3>1. CASE n = g
        <4>1. k.pc = "judge" /\ k.health = "ok" /\ Head(k.todo).id = g
          BY <1>2, <1>3, <1>8, <2>4, <3>1
        <4>2. SeenBy(c, n)'
          BY <1>3, <2>3, <3>1, <4>1 DEF SeenBy
        <4>. QED
          BY <4>2
      <3>2. CASE n # g
        <4>1. n \in seenUp /\ states[n].reboot # "no" /\ rows[n].status # "none"
          BY <1>2, <1>3, <1>6, <2>4, <3>2
        <4>2. PICK d \in Checks : SeenBy(d, n)
          BY <2>1, <4>1 DEF ChecksRight
        <4>3. d = c
          BY <2>2, <4>2 DEF SeenBy
        <4>. QED
          BY <3>2, <4>2, <4>3 DEF SeenBy
      <3>. QED
        BY <3>1, <3>2
    <2>5. ASSUME NEW d \in Checks, checks'[d].pc = "mark", checks'[d].status = "failed"
          PROVE  Node(d)' \notin seenUp'
      <3>1. d = c
        BY <2>2, <2>5
      <3>. QED
        BY <1>3, <1>8, <2>3, <2>5, <3>1
    <2>. QED
      BY <1>8, <2>2, <2>4, <2>5 DEF ChecksRight
  <1>. QED
    BY <1>4, <1>5, <1>7, <1>8 DEF CapInv

\* SetToSeq lists a finite set.
LEMMA Enumerated ==
    ASSUME NEW S, IsFiniteSet(S)
    PROVE  /\ SetToSeq(S) \in Seq(S) /\ (S # {} => SetToSeq(S) # << >>)
           /\ \A x \in S : \E i \in 1..Len(SetToSeq(S)) : SetToSeq(S)[i] = x
  <1>. DEFINE n == Cardinality(S)
  <1>1. n \in Nat /\ \E f \in Bijection(1..n, S) : TRUE
    BY FS_CardinalityType DEF ExistsBijection
  <1>2. PICK f \in [1..n -> S] : IsInjective(f)
    BY <1>1 DEF Bijection, Injection
  <1>3. SetToSeq(S) \in [1..n -> S] /\ IsInjective(SetToSeq(S))
    BY <1>2 DEF SetToSeq
  <1>4. SetToSeq(S) \in Injection(1..n, S)
    BY <1>3 DEF Injection
  <1>5. Cardinality(1..n) = Cardinality(S)
    BY <1>1, FS_Interval
  <1>6. SetToSeq(S) \in Surjection(1..n, S)
    BY <1>4, <1>5, FS_Injection
  <1>7. \A x \in S : \E i \in 1..n : SetToSeq(S)[i] = x
    BY <1>6 DEF Surjection
  <1>8. SetToSeq(S) \in Seq(S) /\ Len(SetToSeq(S)) = n
    BY <1>1, <1>3
  <1>9. S # {} => SetToSeq(S) # << >>
    <2>. SUFFICES ASSUME S # {}, SetToSeq(S) = << >> PROVE FALSE
      OBVIOUS
    <2>1. n = 0
      BY <1>8
    <2>. QED
      BY <1>7, <2>1
  <1>. QED
    BY <1>7, <1>8, <1>9

\* A check that polls the nodes of a list.
LEMMA PollRow ==
    ASSUME NEW todo \in Seq(Items)
    PROVE  \E k \in CheckRows : k = [NoCheck EXCEPT !.pc = "poll", !.todo = todo] /\ k.pc = "poll" /\ k.todo = todo
  <1>1. PICK k : k = [NoCheck EXCEPT !.pc = "poll", !.todo = todo]
    OBVIOUS
  <1>2. k = [pc |-> "poll", todo |-> todo, health |-> "none", status |-> "none"]
    BY <1>1 DEF NoCheck
  <1>3. k \in CheckRows /\ k.pc = "poll" /\ k.todo = todo
    BY <1>2 DEF CheckRows
  <1>. QED
    BY <1>1, <1>3

\* The checks of the watchdog.
LEMMA CheckSteps ==
    ASSUME CapInv,
           \/ \E c \in Checks : check(c) \/ pollHealth(c) \/ judge(c) \/ updateStatus(c)
           \/ \E g \in Gpus : WaitEnds(g)
    PROVE  CapInv'
  <1>1. ASSUME NEW g \in Gpus, WaitEnds(g) PROVE CapInv'
    <2>1. /\ UNCHANGED <<rows, droplets, buyer, excused, checks, overlapped, seenUp, gaveUp, answering>>
          /\ states' = [states EXCEPT ![g].reboot = "long"] /\ states[g].reboot = "recent" /\ states[g] \in StateRows
      BY <1>1 DEF WaitEnds, CapInv, CapTypes
    <2>2. /\ states' \in [Gpus -> StateRows] /\ \A n \in Gpus : states'[n].reboot # "no" => states[n].reboot # "no"
      <3>. PICK state : state = [states[g] EXCEPT !.reboot = "long"]
        OBVIOUS
      <3>1. state \in StateRows /\ states' = [states EXCEPT ![g] = state]
        BY <2>1 DEF StateRows
      <3>. QED
        BY <2>1, <3>1 DEF CapInv, CapTypes
    <2>3. CapTypes'
      BY <2>1, <2>2 DEF CapInv, CapTypes
    <2>4. BuyersRight' /\ DropletsHeld'
      BY <2>1, BuyersRest
    <2>5. SeenRight'
      BY <2>1 DEF CapInv, SeenRight
    <2>6. ASSUME ~overlapped PROVE ChecksRight'
      <3>1. \A c \in Checks : Node(c)' = Node(c) /\ \A n : SeenBy(c, n)' <=> SeenBy(c, n)
        BY <2>1 DEF Node, Listed, SeenBy
      <3>2. ChecksRight /\ seenUp \subseteq Gpus
        BY <2>6 DEF CapInv, CapTypes
      <3>. QED
        BY <2>1, <2>2, <3>1, <3>2 DEF ChecksRight
    <2>. QED
      BY <2>1, <2>3, <2>4, <2>5, <2>6 DEF CapInv
  <1>2. ASSUME NEW c \in Checks, check(c) PROVE CapInv'
    <2>. DEFINE nodes == {g \in Gpus : rows[g].status \in {"active", "degraded"} /\ rows[g].host}
                list == {[id |-> g, status |-> rows[g].status] : g \in nodes}
    <2>1. /\ checks[c] = NoCheck /\ nodes # {}
          /\ checks' = [checks EXCEPT ![c] = [NoCheck EXCEPT !.pc = "poll", !.todo = SetToSeq(list)]]
          /\ overlapped' = (overlapped \/ \E d \in Checks : checks[d] # NoCheck)
          /\ UNCHANGED <<rows, droplets, buyer, excused, answering, states, seenUp, gaveUp>>
      BY <1>2 DEF check
    <2>2. IsFiniteSet(list)
      <3>. PICK f : f = [g \in nodes |-> [id |-> g, status |-> rows[g].status]]
        OBVIOUS
      <3>1. nodes \subseteq Gpus /\ IsFiniteSet(nodes)
        BY CapacityAssumption, FS_Subset
      <3>2. f \in Surjection(nodes, list)
        <4>1. f \in [nodes -> list] /\ \A x \in list : \E g \in nodes : f[g] = x
          OBVIOUS
        <4>. QED
          BY <4>1 DEF Surjection
      <3>. QED
        BY <3>1, <3>2, FS_Surjection
    <2>3. list \subseteq Items /\ list # {}
      <3>1. ASSUME NEW g \in nodes PROVE [id |-> g, status |-> rows[g].status] \in Items
        BY <3>1 DEF Items
      <3>. QED
        BY <2>1, <3>1
    <2>. PICK todo : todo = SetToSeq(list)
      OBVIOUS
    <2>4. todo \in Seq(Items) /\ todo # << >>
      <3>1. todo \in Seq(list) /\ todo # << >>
        BY <2>2, <2>3, Enumerated
      <3>. QED
        BY <2>3, <3>1
    <2>5. PICK k \in CheckRows : k = [NoCheck EXCEPT !.pc = "poll", !.todo = todo] /\ k.pc = "poll" /\ k.todo = todo
      BY <2>4, PollRow
    <2>6. /\ checks' \in [Checks -> CheckRows] /\ checks'[c] = k /\ \A d \in Checks \ {c} : checks'[d] = checks[d]
      BY <2>1, <2>5 DEF CapInv, CapTypes
    <2>7. CapTypes'
      BY <2>1, <2>4, <2>5, <2>6 DEF CapInv, CapTypes
    <2>8. BuyersRight' /\ DropletsHeld'
      BY <2>1, BuyersRest
    <2>9. SeenRight'
      BY <2>1 DEF CapInv, SeenRight
    <2>10. ASSUME ~overlapped' PROVE ChecksRight'
      <3>1. ~overlapped /\ \A d \in Checks : checks[d].pc = "idle"
        <4>1. overlapped' = (overlapped \/ \E d \in Checks : checks[d] # NoCheck)
          BY <2>1
        <4>2. ~overlapped /\ \A d \in Checks : checks[d] = NoCheck
          BY <2>10, <4>1
        <4>. QED
          BY <4>2 DEF NoCheck
      <3>2. \A d \in Checks : checks'[d].pc # "idle" => d = c /\ checks'[d].pc = "poll"
        BY <2>5, <2>6, <3>1
      <3>3. \A g : ~\E d \in Checks : SeenBy(d, g)
        BY <3>1 DEF SeenBy
      <3>4. ChecksRight
        BY <3>1 DEF CapInv
      <3>. QED
        BY <2>1, <3>2, <3>3, <3>4 DEF ChecksRight
    <2>. QED
      BY <2>7, <2>8, <2>9, <2>10 DEF CapInv
  <1>3. ASSUME NEW c \in Checks, checks[c].pc # "idle"
        PROVE  /\ checks[c] \in CheckRows /\ checks[c].todo # << >> /\ checks[c].todo \in Seq(Items)
               /\ Node(c) \in Gpus /\ Node(c) \in Machines /\ Listed(c).status # "none"
               /\ Tail(checks[c].todo) \in Seq(Items) /\ rows[Node(c)] \in Rows /\ states[Node(c)] \in StateRows
               /\ rows[Node(c)].status = "none" <=> rows[Node(c)] = NoRow
               /\ rows = [rows EXCEPT ![Node(c)] = rows[Node(c)]] /\ states = [states EXCEPT ![Node(c)] = states[Node(c)]]
    <2>1. checks[c] \in CheckRows /\ checks[c].todo # << >>
      BY <1>3 DEF CapInv, CapTypes
    <2>2. checks[c].todo \in Seq(Items)
      BY <2>1 DEF CheckRows
    <2>3. Head(checks[c].todo) \in Items /\ Tail(checks[c].todo) \in Seq(Items)
      BY <2>1, <2>2
    <2>4. Node(c) \in Gpus /\ Node(c) \in Machines /\ Listed(c).status # "none"
      BY <2>3 DEF Node, Listed, Items, Machines
    <2>. QED
      BY <2>1, <2>2, <2>3, <2>4 DEF CapInv, CapTypes, NoRow
  <1>4. ASSUME NEW c \in Checks, checks[c].pc # "idle"
        PROVE  /\ Continue(c) \in CheckRows /\ Continue(c).pc \in {"idle", "poll"}
               /\ Continue(c).pc # "idle" => Continue(c).todo # << >>
               /\ NoCheck \in CheckRows /\ NoCheck.pc = "idle"
    <2>1. << >> \in Seq(Items)
      OBVIOUS
    <2>2. NoCheck \in CheckRows /\ NoCheck.pc = "idle"
      BY <2>1 DEF NoCheck, CheckRows
    <2>. PICK rest : rest = Tail(checks[c].todo)
      OBVIOUS
    <2>3. rest \in Seq(Items)
      BY <1>3, <1>4
    <2>5. PICK k \in CheckRows : k = [NoCheck EXCEPT !.pc = "poll", !.todo = rest] /\ k.pc = "poll" /\ k.todo = rest
      BY <2>3, PollRow
    <2>6. Continue(c) = IF rest = << >> THEN NoCheck ELSE k
      BY <2>5 DEF Continue
    <2>. QED
      BY <2>2, <2>5, <2>6
  <1>5. ASSUME NEW c \in Checks, pollHealth(c) PROVE CapInv'
    <2>. DEFINE g == Node(c)
    <2>. PICK health : health = IF g \in answering THEN "ok" ELSE "down"
      OBVIOUS
    <2>. PICK k : k = [checks[c] EXCEPT !.pc = "judge", !.health = health]
      OBVIOUS
    <2>1. /\ checks[c].pc = "poll" /\ checks' = [checks EXCEPT ![c] = k]
          /\ seenUp' = IF g \in answering THEN seenUp \cup {g} ELSE seenUp
          /\ UNCHANGED <<rows, droplets, buyer, excused, answering, states, overlapped, gaveUp>>
      <3>1. checks' = [checks EXCEPT ![c].pc = "judge", ![c].health = health]
        BY <1>5 DEF pollHealth
      <3>. QED
        BY <1>5, <3>1 DEF pollHealth, CapInv, CapTypes
    <2>2. /\ k \in CheckRows /\ k.pc = "judge" /\ k.health = health /\ k.todo = checks[c].todo /\ k.status = checks[c].status
      BY <1>3, <2>1 DEF CheckRows
    <2>3. g \in answering => g \in droplets
      BY DEF CapInv, SeenRight
    <2>4. ~overlapped => /\ g \in seenUp /\ g \notin answering /\ states[g].reboot # "no" => rows[g].status = "none"
                         /\ gaveUp = {}
      <3>. SUFFICES ASSUME ~overlapped PROVE /\ g \in seenUp /\ states[g].reboot # "no" => rows[g].status = "none"
                                             /\ gaveUp = {}
        OBVIOUS
      <3>1. ChecksRight
        BY DEF CapInv
      <3>2. ASSUME NEW d \in Checks, SeenBy(d, g) PROVE FALSE
        BY <2>1, <3>1, <3>2 DEF ChecksRight, SeenBy
      <3>. QED
        BY <3>1, <3>2 DEF ChecksRight
    <2>5. Head(k.todo).id = g
      BY <2>2 DEF Node, Listed
    <2>6. PICK state \in StateRows : state = states[g] /\ states' = [states EXCEPT ![g] = state]
      BY <1>3, <2>1
    <2>7. /\ seenUp' \ {g} = seenUp \ {g} /\ (g \in seenUp' => g \in seenUp \/ g \in droplets)
          /\ ~overlapped => (g \in seenUp' /\ state.reboot # "no" /\ rows[g].status # "none" => k.health = "ok")
          /\ ~overlapped => gaveUp' = {}
      BY <2>1, <2>3, <2>4, <2>6
    <2>8. k.todo # << >> /\ checks[c].pc # "idle"
      BY <1>3, <2>1, <2>2
    <2>9. ~overlapped => (g \in seenUp' /\ state.reboot # "no" /\ rows[g].status # "none" =>
                            k.pc = "judge" /\ k.health = "ok" /\ Head(k.todo).id = g)
      BY <2>2, <2>5, <2>7
    <2>10. k.pc # "mark" /\ k \in CheckRows
      BY <2>2
    <2>11. /\ checks' = [checks EXCEPT ![c] = k]
           /\ UNCHANGED <<rows, droplets, buyer, excused, answering, overlapped>>
      BY <2>1
    <2>. QED
      <3>1. CheckMove(c, g, k, rows[g], state)
        BY <1>3, <2>6, <2>7, <2>8, <2>9, <2>10, <2>11 DEF CheckMove
      <3>. QED
        BY <1>3, <2>6, <2>8, <2>10, <3>1, CheckMoves
  <1>6. ASSUME NEW c \in Checks, checks[c].pc # "idle", ~overlapped, NEW d \in Checks, checks[d].pc # "idle"
        PROVE  c = d
    BY <1>6 DEF CapInv, ChecksRight
  <1>7. ASSUME NEW c \in Checks, checks[c].pc # "idle", checks' = [checks EXCEPT ![c] = NoCheck],
               UNCHANGED <<rows, droplets, buyer, excused, answering, overlapped, states, seenUp, gaveUp>>,
               rows[Node(c)] = NoRow
        PROVE  CapInv'
    <2>. DEFINE g == Node(c)
    <2>1. PICK state \in StateRows : state = states[g] /\ states' = [states EXCEPT ![g] = state]
      BY <1>3, <1>7
    <2>2. PICK k \in CheckRows : k = NoCheck
      BY <1>4, <1>7
    <2>3. k.pc = "idle" /\ rows[g].status = "none"
      BY <1>7, <2>2 DEF NoCheck, NoRow
    <2>4. ~overlapped => gaveUp' = {}
      BY <1>7 DEF CapInv, ChecksRight
    <2>. QED
      <3>1. CheckMove(c, g, k, rows[g], state)
        BY <1>3, <1>7, <2>1, <2>2, <2>3, <2>4 DEF CheckMove
      <3>. QED
        BY <1>3, <1>7, <2>1, <2>2, <3>1, CheckMoves
  <1>8. ASSUME NEW c \in Checks, judge(c) PROVE CapInv'
    <2>. DEFINE g == Node(c)
    <2>1. checks[c].pc = "judge" /\ UNCHANGED <<rows, droplets, buyer, excused, answering, overlapped, seenUp, gaveUp>>
      BY <1>8, ZenonT(30) DEF judge
    <2>2. CASE rows[g] = NoRow
      BY <1>7, <1>8, <2>1, <2>2 DEF judge
    <2>3. CASE rows[g] # NoRow
      <3>. PICK state : state = IF checks[c].health = "ok" THEN recovered(states[g]) ELSE downAgain(states[g])
        OBVIOUS
      <3>1. /\ state \in StateRows /\ (checks[c].health = "ok" => state.reboot = "no")
            /\ checks[c].health # "ok" => state.reboot = states[g].reboot
        <4>1. states[g] \in StateRows /\ rebootThreshold \in Nat
          BY <1>3, <2>1, CapacityAssumption
        <4>2. CASE checks[c].health = "ok"
          BY <4>2 DEF recovered, NoState, StateRows
        <4>3. CASE checks[c].health # "ok"
          <5>. PICK more \in Nat : more = states[g].downs + (IF states[g].downs < rebootThreshold THEN 1 ELSE 0)
            BY <4>1 DEF StateRows
          <5>1. state = [states[g] EXCEPT !.downs = more]
            BY <4>3 DEF downAgain
          <5>. QED
            BY <4>1, <4>3, <5>1 DEF StateRows
        <4>. QED
          BY <4>2, <4>3
      <3>2. PICK to \in {"none", "active", "degraded", "failed"} :
              /\ checks' = [checks EXCEPT ![c] = IF to = "none" THEN Continue(c) ELSE [@ EXCEPT !.pc = "mark", !.status = to]]
              /\ to = "failed" => checks[c].health # "ok" /\ state.reboot = "long"
        <4>. PICK to : to = CASE checks[c].health = "ok" /\ states[g] # NoState /\ Listed(c).status = "degraded" -> "active"
                              [] checks[c].health = "down" /\ state.reboot = "long" -> "failed"
                              [] checks[c].health = "down" /\ state.reboot = "no" /\ state.downs >= rebootThreshold -> "degraded"
                              [] OTHER -> "none"
          OBVIOUS
        <4>1. to \in {"none", "active", "degraded", "failed"} /\ (to = "failed" => checks[c].health = "down" /\ state.reboot = "long")
          OBVIOUS
        <4>2. checks' = [checks EXCEPT ![c] = IF to = "none" THEN Continue(c) ELSE [@ EXCEPT !.pc = "mark", !.status = to]]
          BY <1>8, <2>3, ZenonT(30) DEF judge
        <4>. QED
          BY <4>1, <4>2
      <3>3. states' = [states EXCEPT ![g] = state]
        BY <1>8, <2>3 DEF judge
      <3>. PICK k : k = IF to = "none" THEN Continue(c) ELSE [checks[c] EXCEPT !.pc = "mark", !.status = to]
        OBVIOUS
      <3>4. /\ k \in CheckRows /\ (k.pc # "idle" => k.todo # << >>) /\ checks' = [checks EXCEPT ![c] = k]
            /\ k.pc # "judge" /\ (k.pc = "mark" => k.status # "none" /\ k.status = to /\ k.todo = checks[c].todo)
        <4>1. CASE to = "none"
          BY <1>4, <2>1, <3>2, <4>1
        <4>2. CASE to # "none"
          <5>. PICK l : l = [checks[c] EXCEPT !.pc = "mark", !.status = to]
            OBVIOUS
          <5>1. l \in CheckRows /\ l.pc = "mark" /\ l.status = to /\ l.todo = checks[c].todo /\ checks[c].todo # << >>
            BY <1>3, <2>1 DEF CheckRows
          <5>2. k = l /\ checks' = [checks EXCEPT ![c] = l]
            BY <3>2, <4>2
          <5>. QED
            BY <3>2, <4>2, <5>1, <5>2
        <4>. QED
          BY <4>1, <4>2
      <3>5. rows[g].status # "none"
        BY <1>3, <2>1, <2>3
      <3>6. ~overlapped => (g \in seenUp /\ states[g].reboot # "no" => checks[c].health = "ok")
        <4>. SUFFICES ASSUME ~overlapped, g \in seenUp, states[g].reboot # "no" PROVE checks[c].health = "ok"
          OBVIOUS
        <4>1. PICK d \in Checks : SeenBy(d, g)
          BY <3>5 DEF CapInv, ChecksRight
        <4>2. d = c
          BY <1>6, <2>1, <4>1 DEF SeenBy
        <4>. QED
          BY <4>1, <4>2 DEF SeenBy
      <3>7. /\ ~overlapped => (g \in seenUp => state.reboot = "no")
            /\ ~overlapped => gaveUp = {}
        BY <3>1, <3>6 DEF CapInv, ChecksRight
      <3>8. k.pc = "mark" => Head(k.todo).id = g
        BY <3>4 DEF Node, Listed
      <3>9. k.pc = "mark" /\ k.status = "failed" => state.reboot = "long"
        BY <3>2, <3>4
      <3>10. /\ ~overlapped => ~(g \in seenUp /\ state.reboot # "no")
             /\ ~overlapped /\ k.pc = "mark" /\ k.status = "failed" => g \notin seenUp
        BY <3>7, <3>9
      <3>11. /\ ~overlapped => (g \in seenUp' /\ state.reboot # "no" /\ rows[g].status # "none" =>
                                 k.pc = "judge" /\ k.health = "ok" /\ Head(k.todo).id = g)
             /\ ~overlapped /\ k.pc = "mark" /\ k.status = "failed" => Head(k.todo).id = g /\ g \notin seenUp'
             /\ ~overlapped => gaveUp' = {}
             /\ seenUp' \ {g} = seenUp \ {g} /\ (g \in seenUp' => g \in seenUp \/ g \in droplets)
        BY <2>1, <3>1, <3>7, <3>8, <3>10
      <3>. QED
        <4>1. CheckMove(c, g, k, rows[g], state)
          BY <1>3, <2>1, <3>3, <3>4, <3>11 DEF CheckMove
        <4>. QED
          BY <1>3, <2>1, <3>1, <3>4, <4>1, CheckMoves
    <2>. QED
      BY <2>2, <2>3
  <1>9. ASSUME NEW c \in Checks, updateStatus(c) PROVE CapInv'
    <2>. DEFINE g == Node(c)
    <2>1. checks[c].pc = "mark" /\ UNCHANGED <<droplets, buyer, excused, answering, overlapped>>
      BY <1>9 DEF updateStatus
    <2>2. CASE rows[g] = NoRow
      BY <1>7, <1>9, <2>1, <2>2 DEF updateStatus
    <2>3. CASE rows[g] # NoRow
      <3>. PICK to : to = checks[c].status
        OBVIOUS
      <3>. PICK row : row = [rows[g] EXCEPT !.status = to]
        OBVIOUS
      <3>1. to \in {"active", "degraded", "failed"}
        BY <1>3, <2>1 DEF CapInv, CapTypes, CheckRows
      <3>2. /\ row \in Rows /\ row.status # "none" /\ row.droplet = rows[g].droplet /\ rows[g].status # "none"
            /\ rows' = [rows EXCEPT ![g] = row]
        <4>1. rows[g] \in Rows /\ rows[g].status # "none"
          BY <1>3, <2>1, <2>3
        <4>2. rows' = [rows EXCEPT ![g].status = to]
          BY <1>9, <2>3 DEF updateStatus
        <4>. QED
          BY <3>1, <4>1, <4>2 DEF Rows
      <3>3. PICK state \in StateRows :
              /\ states' = [states EXCEPT ![g] = state]
              /\ to = "active" => state = states[g]
              /\ to = "failed" => state.reboot = "no"
        <4>. PICK s : s = CASE to = "degraded" -> [states[g] EXCEPT !.reboot = "recent"]
                            [] to = "failed" -> NoState
                            [] OTHER -> states[g]
          OBVIOUS
        <4>1. states' = [states EXCEPT ![g] = s]
          BY <1>9, <2>3 DEF updateStatus
        <4>2. s \in StateRows
          <5>1. CASE to = "degraded"
            BY <1>3, <2>1, <5>1 DEF StateRows
          <5>2. CASE to = "failed"
            BY <5>2 DEF StateRows, NoState
          <5>3. CASE to = "active"
            BY <1>3, <2>1, <5>3
          <5>. QED
            BY <3>1, <5>1, <5>2, <5>3
        <4>. QED
          BY <4>1, <4>2 DEF NoState
      <3>4. /\ seenUp' = IF to = "degraded" THEN seenUp \ {g} ELSE seenUp
            /\ gaveUp' = IF to = "failed" /\ g \in seenUp THEN gaveUp \cup {g} ELSE gaveUp
            /\ checks' = [checks EXCEPT ![c] = Continue(c)]
        BY <1>9, <2>3 DEF updateStatus
      <3>5. ASSUME ~overlapped
            PROVE  /\ to = "failed" => g \notin seenUp
                   /\ g \in seenUp => states[g].reboot = "no"
                   /\ gaveUp = {}
        <4>1. ChecksRight
          BY <3>5 DEF CapInv
        <4>2. \A d \in Checks : ~SeenBy(d, g)
          BY <1>6, <2>1, <3>5 DEF SeenBy
        <4>. QED
          BY <2>1, <3>2, <4>1, <4>2 DEF ChecksRight
      <3>. PICK k : k = Continue(c)
        OBVIOUS
      <3>6. k \in CheckRows /\ k.pc \in {"idle", "poll"} /\ (k.pc # "idle" => k.todo # << >>)
        BY <1>4, <2>1
      <3>7. ~overlapped => gaveUp' = {} /\ ~(g \in seenUp' /\ state.reboot # "no")
        BY <3>1, <3>3, <3>4, <3>5
      <3>. QED
        <4>1. CheckMove(c, g, Continue(c), row, state)
          BY <2>1, <3>2, <3>3, <3>4, <3>6, <3>7 DEF CheckMove
        <4>. QED
          BY <3>2, <3>3, <3>6, <4>1, CheckMoves
    <2>. QED
      BY <2>2, <2>3
  <1>. QED
    BY <1>1, <1>2, <1>5, <1>8, <1>9

\* For any machines, buyers, checks and faults: every droplet of a plain node is
\* named by its row or held by a call that is still running, unless it was excused,
\* and while checks do not overlap no GPU node is given up that has answered.
THEOREM CapacityIsSafe == CapacitySpec => []CapacitySafe
  <1>1. CapInv /\ [CapacityNext]_capacityVars => CapInv'
    <2>. SUFFICES ASSUME CapInv, [CapacityNext]_capacityVars PROVE CapInv'
      OBVIOUS
    <2>1. CASE UNCHANGED capacityVars
      BY <2>1, CapStutters DEF capacityVars, watching
    <2>2. CASE CapacityNext
      BY <2>2, OrderSteps, DestroySteps, PolicySteps, CheckSteps DEF CapacityNext
    <2>. QED
      BY <2>1, <2>2
  <1>2. CapInv => CapacitySafe
    BY DEF CapInv, DropletsHeld, ChecksRight, CapacitySafe, DropletsTracked, GivenUpIsDown
  <1>. QED
    BY <1>1, <1>2, CapInitInv, PTL DEF CapacitySpec

-----------------------------------------------------------------------------
(* The billing crons                                                        *)

Charged == {[t |-> t, seen |-> n] : t \in Tenants, n \in Nat \ {0}}
CronSteps == {"runtime", "tier", "settle", "storage", "addon", "suspend"}
CronRows == [pc : {"idle"} \cup CronSteps, stage : {"read", "debit", "bots"}, day : Int, todo : Seq(Charged),
             t : Tenants \cup {"none"}, seen : Nat, cost : Int, cur : Int, susp : BOOLEAN,
             then : {"next", "tier", "storage", "addon"}, list : Seq(BotIds)]
BotRows == [state : BotStates, due : {"none", "later", "past"}]
HelperRows == [pc : {"idle", "bots"}, list : Seq(BotIds)]

\* Who is at work has a tenant that had a balance.
CronRight(m) == m.pc # "idle" => m.t \in Tenants /\ m.seen > 0

BillTypes ==
    /\ era \in Eras /\ day \in Nat
    /\ purse \in [Tenants -> Int] /\ tbot \in [BotIds -> BotRows]
    /\ cron \in [CronRuns -> CronRows] /\ helper \in [{"reactivation", "reaper"} -> HelperRows]
    /\ \A r \in CronRuns : CronRight(cron[r])

\* Who owes has nothing, and a run is about to suspend it while it has a bot.
Listing(list, t, bots) == \A b \in BotIds : Owner[b] = t /\ bots[b].state = "active" => \E i \in 1..Len(list) : list[i] = b
Suspends(m, t, bots) ==
    /\ m.t = t
    /\ \/ m.pc \in {"tier", "settle"} /\ ~m.susp
       \/ m.pc = "suspend" /\ (m.stage = "read" \/ Listing(m.list, t, bots))
OwedRight ==
    \A t \in owes : /\ t \in Tenants => purse[t] <= 0
                    /\ era.hook => listIds(t, "active") = {} \/ \E r \in CronRuns : Suspends(cron[r], t, tbot)

\* A dividend that has begun is paid or about to be.
Remains(p, t) == payer[p].pc = "pay" /\ \E i \in 1..Len(payer[p].todo) : payer[p].todo[i] = t
PayerRows == [pc : {"idle", "pay"}, todo : Seq(Tenants), share : Int]
DividendRight ==
    /\ payer \in [Payers -> PayerRows]
    /\ \A p \in Payers : payer[p].pc = "pay" => payer[p].todo # << >>
    /\ "dividend" \notin hurt =>
         /\ \A p \in Payers : payer[p].pc = "pay" => \A t \in activeTenants : dividendRef(t) \in posted \/ Remains(p, t)
         /\ alreadyRan => \A t \in activeTenants : dividendRef(t) \in posted \/ \E p \in Payers : Remains(p, t)

\* What was counted is in its row, or its row is about to be written.
ReportsRight ==
    /\ reporter \in [Reporters -> {<< >>} \cup (Lines \X {"create", "insert"})]
    /\ counted \in [Lines -> Nat]
    /\ \A l \in Lines \ hurt :
         /\ counted[l] <= 1
         /\ counted[l] = 1 => \/ l \in reports
                              \/ l \in remembers /\ \E p \in Reporters : reporter[p] = <<l, "insert">>
         /\ \A p \in Reporters : reporter[p] = <<l, "create">> => counted[l] = 0 \/ l \in remembers

BillInv == BillTypes /\ OwedRight /\ DividendRight /\ ReportsRight

\* Nothing charged, paid or reported.
LEMMA BillInitInv == BillingInit => BillInv
  <1>. SUFFICES ASSUME BillingInit PROVE BillInv
    OBVIOUS
  <1>1. NoCron \in CronRows /\ NoCron.pc = "idle" /\ NoHelper \in HelperRows /\ NoPayer \in PayerRows /\ NoPayer.pc = "idle"
    <2>1. << >> \in Seq(Charged) /\ << >> \in Seq(BotIds) /\ << >> \in Seq(Tenants)
      OBVIOUS
    <2>. QED
      BY <2>1 DEF NoCron, CronRows, NoHelper, HelperRows, NoPayer, PayerRows
  <1>2. BillTypes
    BY <1>1, BillingAssumption DEF BillingInit, BillTypes, CronRight, BotRows
  <1>3. OwedRight
    BY DEF BillingInit, OwedRight
  <1>4. DividendRight
    BY <1>1 DEF BillingInit, DividendRight, alreadyRan
  <1>5. ReportsRight
    <2>1. \A p \in Reporters : reporter[p] = << >>
      BY DEF BillingInit
    <2>2. ASSUME NEW l, NEW s, <<l, s>> = << >> PROVE FALSE
      <3>1. Len(<<l, s>>) = 2 /\ Len(<< >>) = 0
        OBVIOUS
      <3>. QED
        BY <2>2, <3>1
    <2>3. \A l \in Lines, p \in Reporters : reporter[p] # <<l, "create">>
      BY <2>1, <2>2
    <2>. QED
      BY <2>3 DEF BillingInit, ReportsRight
  <1>. QED
    BY <1>2, <1>3, <1>4, <1>5 DEF BillInv

\* A step that pays no dividend keeps what is said of it.
LEMMA DividendRests ==
    ASSUME BillInv, UNCHANGED <<era, payer>>, hurt \subseteq hurt', posted \subseteq posted',
           \A t \in Tenants : dividendRef(t) \in posted' => dividendRef(t) \in posted
    PROVE  DividendRight'
  <1>1. activeTenants' = activeTenants /\ activeTenants \subseteq Tenants
    BY DEF activeTenants
  <1>2. alreadyRan' => alreadyRan
    BY DEF alreadyRan, dividendRef
  <1>3. \A p, t : Remains(p, t)' <=> Remains(p, t)
    BY DEF Remains
  <1>4. \A t : dividendRef(t) \in posted => (dividendRef(t) \in posted)'
    BY DEF dividendRef
  <1>. QED
    BY <1>1, <1>2, <1>3, <1>4 DEF BillInv, DividendRight

\* A step that reports nothing keeps what is said of the reports.
LEMMA ReportsRest ==
    ASSUME BillInv, UNCHANGED <<reporter, reports, counted, remembers>>, hurt \subseteq hurt'
    PROVE  ReportsRight'
  BY DEF BillInv, ReportsRight

\* A step of the books and the bots that pays what is owed or makes nobody active.
LEMMA OwedRests ==
    ASSUME BillInv, BillTypes', UNCHANGED <<era, cron>>, owes' \subseteq owes,
           \A t \in owes' : t \in Tenants => purse'[t] <= purse[t],
           \A b \in BotIds : tbot'[b].state = "active" /\ Owner[b] \in owes' => tbot[b].state = "active"
    PROVE  OwedRight'
  <1>. SUFFICES ASSUME NEW t \in owes', t \in Tenants \/ t \notin Tenants
                PROVE  /\ t \in Tenants => purse'[t] <= 0
                       /\ era.hook => listIds(t, "active")' = {} \/ \E r \in CronRuns : Suspends(cron[r], t, tbot')
    BY DEF OwedRight
  <1>1. t \in owes /\ (t \in Tenants => purse[t] <= 0)
    BY DEF BillInv, OwedRight
  <1>2. t \in Tenants => purse'[t] <= 0
    BY <1>1 DEF BillInv, BillTypes
  <1>3. listIds(t, "active")' \subseteq listIds(t, "active")
    BY DEF listIds
  <1>4. ASSUME era.hook, NEW r \in CronRuns, Suspends(cron[r], t, tbot) PROVE Suspends(cron[r], t, tbot')
    BY <1>4 DEF Suspends, Listing
  <1>. QED
    BY <1>1, <1>2, <1>3, <1>4 DEF BillInv, OwedRight

\* What a step of a run may do to who owes and to the bots.
CronMove(r, m) ==
    /\ cron' = [cron EXCEPT ![r] = m] /\ CronRight(m) /\ UNCHANGED <<era, day, helper>>
    /\ purse' \in [Tenants -> Int] /\ tbot' \in [BotIds -> BotRows]
    /\ \A t \in owes' : t \in Tenants => purse'[t] <= 0
    /\ \A b \in BotIds : tbot'[b].state = "active" => tbot[b].state = "active"
    /\ era.hook => \A t \in owes' : \/ t \in owes /\ ~Suspends(cron[r], t, tbot)
                                    \/ Suspends(m, t, tbot')
                                    \/ listIds(t, "active")' = {}

\* A run goes on; whoever it was about to suspend it still is, or has.
LEMMA CronMoves ==
    ASSUME BillInv, NEW r \in CronRuns, NEW m \in CronRows, CronMove(r, m)
    PROVE  BillTypes' /\ OwedRight'
  <1>. USE DEF CronMove
  <1>1. cron' \in [CronRuns -> CronRows] /\ cron'[r] = m /\ \A q \in CronRuns \ {r} : cron'[q] = cron[q]
    BY DEF BillInv, BillTypes
  <1>2. BillTypes'
    BY <1>1 DEF BillInv, BillTypes
  <1>3. ASSUME NEW t \in owes', era.hook
        PROVE  listIds(t, "active")' = {} \/ \E q \in CronRuns : Suspends(cron'[q], t, tbot')
    <2>1. CASE Suspends(m, t, tbot') \/ listIds(t, "active")' = {}
      BY <1>1, <2>1
    <2>2. CASE t \in owes /\ ~Suspends(cron[r], t, tbot)
      <3>1. listIds(t, "active")' \subseteq listIds(t, "active")
        BY DEF listIds
      <3>2. CASE listIds(t, "active") = {}
        BY <3>1, <3>2
      <3>3. CASE \E q \in CronRuns : Suspends(cron[q], t, tbot)
        <4>1. PICK q \in CronRuns \ {r} : Suspends(cron[q], t, tbot)
          BY <2>2, <3>3
        <4>2. Suspends(cron'[q], t, tbot')
          BY <1>1, <4>1 DEF Suspends, Listing
        <4>. QED
          BY <4>2
      <3>. QED
        BY <1>3, <2>2, <3>2, <3>3 DEF BillInv, OwedRight
    <2>. QED
      BY <1>3, <2>1, <2>2
  <1>4. OwedRight'
    <2>. SUFFICES ASSUME NEW t \in owes'
                  PROVE  /\ t \in Tenants => purse'[t] <= 0
                         /\ era.hook => listIds(t, "active")' = {} \/ \E q \in CronRuns : Suspends(cron'[q], t, tbot')
      BY DEF OwedRight
    <2>. QED
      BY <1>3
  <1>. QED
    BY <1>2, <1>4

\* The next tenant of the list.
LEMMA NextRows ==
    ASSUME NEW m, m.todo \in Seq(Charged), m.day \in Int
    PROVE  NextTenantOf(m) \in CronRows /\ CronRight(NextTenantOf(m)) /\ NextTenantOf(m).pc \in {"idle", "runtime"}
  <1>1. << >> \in Seq(Charged) /\ << >> \in Seq(BotIds)
    OBVIOUS
  <1>2. CASE m.todo = << >>
    BY <1>1, <1>2 DEF NextTenantOf, NoCron, CronRows, CronRight
  <1>3. CASE m.todo # << >>
    <2>1. Head(m.todo) \in Charged /\ Tail(m.todo) \in Seq(Charged)
      BY <1>3
    <2>2. PICK t \in Tenants, n \in Nat \ {0} : Head(m.todo) = [t |-> t, seen |-> n]
      BY <2>1 DEF Charged
    <2>3. Head(m.todo).t = t /\ Head(m.todo).seen = n
      BY <2>2
    <2>4. NextTenantOf(m) = [NoCron EXCEPT !.pc = "runtime", !.day = m.day, !.t = Head(m.todo).t, !.seen = Head(m.todo).seen,
                                           !.todo = Tail(m.todo)]
      BY <1>3, Zenon DEF NextTenantOf
    <2>5. NextTenantOf(m) = [pc |-> "runtime", stage |-> "read", day |-> m.day, todo |-> Tail(m.todo), t |-> t, seen |-> n,
                             cost |-> 0, cur |-> 0, susp |-> FALSE, then |-> "next", list |-> << >>]
      BY <2>3, <2>4 DEF NoCron
    <2>. QED
      BY <1>1, <2>1, <2>5 DEF CronRows, CronRight, CronSteps
  <1>. QED
    BY <1>2, <1>3

\* The next step of a tenant.
LEMMA GoRows ==
    ASSUME NEW m \in CronRows, CronRight(m), m.pc # "idle", NEW pc \in {"next"} \cup (CronSteps \ {"runtime"})
    PROVE  /\ Goto(m, pc) \in CronRows /\ CronRight(Goto(m, pc))
           /\ pc # "next" => Goto(m, pc).pc = pc /\ Goto(m, pc).t = m.t /\ Goto(m, pc).stage = "read" /\ Goto(m, pc).susp = m.susp
  <1>1. CASE pc = "next"
    BY <1>1, NextRows DEF Goto, CronRows
  <1>2. CASE pc # "next"
    <2>. PICK n : n = [m EXCEPT !.pc = pc, !.stage = "read", !.cost = 0, !.cur = 0, !.then = "next"]
      OBVIOUS
    <2>1. n \in CronRows /\ n.pc = pc /\ n.t = m.t /\ n.stage = "read" /\ n.susp = m.susp /\ n.seen = m.seen
      <3>1. n = [pc |-> pc, stage |-> "read", day |-> m.day, todo |-> m.todo, t |-> m.t, seen |-> m.seen,
                 cost |-> 0, cur |-> 0, susp |-> m.susp, then |-> "next", list |-> m.list]
        BY DEF CronRows
      <3>2. /\ m.day \in Int /\ m.todo \in Seq(Charged) /\ m.t \in Tenants \cup {"none"} /\ m.seen \in Nat
            /\ m.susp \in BOOLEAN /\ m.list \in Seq(BotIds) /\ pc \in {"idle"} \cup CronSteps
        BY <1>2 DEF CronRows
      <3>. QED
        BY <3>1, <3>2 DEF CronRows
    <2>2. Goto(m, pc) = n
      BY <1>2, Zenon DEF Goto
    <2>. QED
      BY <2>1, <2>2 DEF CronRight
  <1>. QED
    BY <1>1, <1>2

\* The order of a tenant's charges.
LEMMA OnwardRows ==
    ASSUME NEW m \in CronRows, CronRight(m), m.pc \in Kinds \cup {"settle"}
    PROVE  /\ Onward(m) \in CronRows /\ CronRight(Onward(m))
           /\ m.pc = "runtime" => Onward(m).pc = "tier"
           /\ m.pc = "tier" => Onward(m).pc = "settle"
           /\ m.pc \in {"runtime", "tier"} => Onward(m).t = m.t /\ Onward(m).susp = m.susp
  <1>1. /\ Following[m.pc] \in {"next"} \cup (CronSteps \ {"runtime"})
        /\ m.pc = "runtime" => Following[m.pc] = "tier"
        /\ m.pc = "tier" => Following[m.pc] = "settle"
    BY DEF Following, CronSteps, Kinds
  <1>2. m.pc # "idle"
    BY DEF Kinds
  <1>. PICK pc \in {"next"} \cup (CronSteps \ {"runtime"}) : pc = Following[m.pc]
    BY <1>1
  <1>3. Goto(m, pc) = Onward(m)
    BY DEF Onward
  <1>4. /\ Goto(m, pc) \in CronRows /\ CronRight(Goto(m, pc))
        /\ pc # "next" => Goto(m, pc).pc = pc /\ Goto(m, pc).t = m.t /\ Goto(m, pc).susp = m.susp
    BY <1>2, GoRows
  <1>. QED
    BY <1>1, <1>3, <1>4

\* A tenant about to be suspended.
LEMMA SuspendingRows ==
    ASSUME NEW m \in CronRows, CronRight(m), m.pc # "idle", NEW then \in {"next", "tier", "storage", "addon"}
    PROVE  /\ Suspending(m, then) \in CronRows /\ CronRight(Suspending(m, then))
           /\ era.hook => Suspending(m, then).t = m.t /\ Suspending(m, then).pc = "suspend" /\ Suspending(m, then).stage = "read"
  <1>1. CASE era.hook
    <2>1. Goto(m, "suspend") \in CronRows /\ CronRight(Goto(m, "suspend")) /\ Goto(m, "suspend").pc = "suspend"
          /\ Goto(m, "suspend").t = m.t /\ Goto(m, "suspend").stage = "read"
      BY GoRows DEF CronSteps
    <2>2. Suspending(m, then) = [Goto(m, "suspend") EXCEPT !.susp = TRUE, !.then = then]
      BY <1>1 DEF Suspending
    <2>3. Suspending(m, then) \in CronRows
      BY <2>1, <2>2, ZenonT(30) DEF CronRows
    <2>4. /\ Suspending(m, then).t = Goto(m, "suspend").t /\ Suspending(m, then).pc = Goto(m, "suspend").pc
          /\ Suspending(m, then).stage = Goto(m, "suspend").stage /\ Suspending(m, then).seen = Goto(m, "suspend").seen
      BY <2>1, <2>2, SMTT(30) DEF CronRows
    <2>. QED
      BY <1>1, <2>1, <2>3, <2>4 DEF CronRight
  <1>2. CASE ~era.hook
    <2>. PICK n : n = [m EXCEPT !.susp = TRUE]
      OBVIOUS
    <2>1. n \in CronRows /\ CronRight(n) /\ n.pc # "idle"
      BY DEF CronRows, CronRight
    <2>2. Suspending(m, then) = Goto(n, then)
      BY <1>2 DEF Suspending
    <2>. QED
      <3>1. then \in {"next"} \cup (CronSteps \ {"runtime"})
        BY DEF CronSteps
      <3>2. Goto(n, then) \in CronRows /\ CronRight(Goto(n, then))
        BY <2>1, <3>1, GoRows
      <3>. QED
        BY <1>2, <2>2, <3>2
  <1>. QED
    BY <1>1, <1>2

\* A step of a run touches neither dividends nor reports.
LEMMA RunStays ==
    ASSUME BillInv, NEW r \in CronRuns, NEW m \in CronRows, CronMove(r, m), UNCHANGED <<payer, usageSide, hurt>>,
           posted \subseteq posted', \A t \in Tenants : dividendRef(t) \in posted' => dividendRef(t) \in posted
    PROVE  BillInv'
  <1>1. BillTypes' /\ OwedRight'
    BY CronMoves
  <1>2. era' = era
    BY DEF CronMove
  <1>3. DividendRight'
    BY <1>2, DividendRests
  <1>4. ReportsRight'
    BY ReportsRest DEF usageSide
  <1>. QED
    BY <1>1, <1>3, <1>4 DEF BillInv

\* Bots can be counted and listed.
LEMMA BotsListed ==
    ASSUME NEW S, S \subseteq BotIds
    PROVE  /\ Cardinality(S) \in Nat /\ SetToSeq(S) \in Seq(BotIds)
           /\ \A b \in S : \E i \in 1..Len(SetToSeq(S)) : SetToSeq(S)[i] = b
  <1>1. IsFiniteSet(S)
    BY BillingAssumption, FS_Subset
  <1>. QED
    BY <1>1, Enumerated, FS_CardinalityType

\* The smaller of two numbers.
LEMMA MinOfTwo == ASSUME NEW a \in Int, NEW b \in Int PROVE Min({a, b}) \in {a, b} /\ Min({a, b}) <= a /\ Min({a, b}) <= b
  <1>1. \E x \in {a, b} : \A y \in {a, b} : x <= y
    BY DEF Min
  <1>. QED
    BY <1>1 DEF Min

\* A run starts, reads, settles, suspends or dies.
LEMMA RunSteps ==
    ASSUME BillInv, NEW r \in CronRuns,
           StartRun(r) \/ ReadCharge(r) \/ SettleTenant(r) \/ suspendAllForTenant(r) \/ RunDies(r)
    PROVE  BillInv'
  <1>. DEFINE m == cron[r]
  <1>1. /\ m \in CronRows /\ CronRight(m) /\ NoCron \in CronRows /\ CronRight(NoCron) /\ era \in Eras
        /\ tbot \in [BotIds -> BotRows] /\ purse \in [Tenants -> Int]
        /\ \A t \in owes : t \in Tenants => purse[t] <= 0
    <2>1. << >> \in Seq(Charged) /\ << >> \in Seq(BotIds)
      OBVIOUS
    <2>. QED
      BY <2>1 DEF BillInv, BillTypes, OwedRight, NoCron, CronRows, CronRight
  <1>2. ASSUME NEW n \in CronRows, CronRight(n), cron' = [cron EXCEPT ![r] = n],
               UNCHANGED <<era, day, books, tbot, helper, payer, usageSide, hurt>>,
               \A t \in owes : era.hook /\ Suspends(m, t, tbot) => Suspends(n, t, tbot) \/ listIds(t, "active") = {}
        PROVE  BillInv'
    <2>1. CronMove(r, n)
      BY <1>1, <1>2 DEF CronMove, books, listIds
    <2>. QED
      BY <1>2, <2>1, RunStays DEF books, dividendRef
  <1>3. CASE StartRun(r)
    <2>. PICK listed : listed = {t \in Tenants : purse[t] > 0}
      OBVIOUS
    <2>. PICK S : S = {[t |-> t, seen |-> purse[t]] : t \in listed}
      OBVIOUS
    <2>. PICK k : k = [NoCron EXCEPT !.day = day, !.todo = SetToSeq(S)]
      OBVIOUS
    <2>1. /\ m.pc = "idle" /\ cron' = [cron EXCEPT ![r] = NextTenantOf(k)]
          /\ UNCHANGED <<era, day, books, tbot, helper, payer, usageSide, hurt>>
      BY <1>3 DEF StartRun
    <2>2. S \subseteq Charged
      BY <1>1 DEF Charged
    <2>3. IsFiniteSet(S)
      <3>1. IsFiniteSet(listed)
        BY BillingAssumption, FS_Subset
      <3>. PICK f : f = [t \in listed |-> [t |-> t, seen |-> purse[t]]]
        OBVIOUS
      <3>2. f \in Surjection(listed, S)
        BY DEF Surjection
      <3>. QED
        BY <3>1, <3>2, FS_Surjection
    <2>4. k.todo \in Seq(Charged) /\ k.day \in Int
      <3>1. SetToSeq(S) \in Seq(Charged)
        BY <2>2, <2>3, Enumerated
      <3>. QED
        BY <3>1 DEF NoCron, BillInv, BillTypes
    <2>5. NextTenantOf(k) \in CronRows /\ CronRight(NextTenantOf(k))
      BY <2>4, NextRows
    <2>6. \A t : ~Suspends(m, t, tbot)
      BY <2>1 DEF Suspends
    <2>. QED
      BY <1>2, <2>1, <2>5, <2>6
  <1>4. CASE ReadCharge(r)
    <2>. PICK cost : cost = costOf(m.pc, m.t)
      OBVIOUS
    <2>. PICK cur : cur = IF m.pc = "runtime" THEN m.seen ELSE purse[m.t]
      OBVIOUS
    <2>. PICK n : n = [m EXCEPT !.stage = "debit", !.cost = cost, !.cur = cur]
      OBVIOUS
    <2>1. /\ m.pc \in Kinds /\ m.stage = "read" /\ UNCHANGED <<era, day, books, tbot, helper, payer, usageSide, hurt>>
          /\ \/ m.pc = "runtime" /\ cron' = [cron EXCEPT ![r] = NextTenantOf(m)]
             \/ cron' = [cron EXCEPT ![r] = Onward(m)]
             \/ cron' = [cron EXCEPT ![r] = n]
      <3>. PICK next : next = CASE m.pc = "runtime" /\ countActiveByTenant(m.t) = 0 -> NextTenantOf(m)
                                [] ~(m.pc = "runtime" /\ countActiveByTenant(m.t) = 0)
                                   /\ (<<m.pc, m.day, m.t>> \in posted \/ cost = 0) -> Onward(m)
                                [] OTHER -> n
        OBVIOUS
      <3>1. cron' = [cron EXCEPT ![r] = next]
        BY <1>4, Zenon DEF ReadCharge
      <3>2. (m.pc = "runtime" /\ next = NextTenantOf(m)) \/ next = Onward(m) \/ next = n
        OBVIOUS
      <3>3. m.pc \in Kinds /\ m.stage = "read" /\ UNCHANGED <<era, day, books, tbot, helper, payer, usageSide, hurt>>
        BY <1>4 DEF ReadCharge
      <3>. QED
        BY <3>1, <3>2, <3>3
    <2>2. cost \in Int /\ cur \in Int /\ m.t \in Tenants /\ m.seen \in Nat
      <3>1. m.t \in Tenants /\ m.seen \in Nat
        BY <1>1, <2>1 DEF CronRight, Kinds, CronRows
      <3>2. era.fee \in [Kinds -> Nat]
        BY <1>1, BillingAssumption
      <3>3. countActiveByTenant(m.t) \in Nat
        BY BotsListed DEF countActiveByTenant, listIds
      <3>4. era.fee[m.pc] * countActiveByTenant(m.t) \in Int /\ era.fee["addon"] \in Int
        BY <2>1, <3>2, <3>3 DEF Kinds
      <3>. QED
        BY <1>1, <3>1, <3>4 DEF costOf, perBot, getAddonCosts
    <2>3. CASE m.pc = "runtime" /\ cron' = [cron EXCEPT ![r] = NextTenantOf(m)]
      <3>1. NextTenantOf(m) \in CronRows /\ CronRight(NextTenantOf(m))
        BY <1>1, NextRows DEF CronRows
      <3>2. \A t : ~Suspends(m, t, tbot)
        BY <2>3 DEF Suspends
      <3>. QED
        BY <1>2, <2>1, <2>3, <3>1, <3>2
    <2>4. CASE cron' = [cron EXCEPT ![r] = Onward(m)]
      <3>1. Onward(m) \in CronRows /\ CronRight(Onward(m))
            /\ (m.pc = "tier" => Onward(m).pc = "settle" /\ Onward(m).t = m.t /\ Onward(m).susp = m.susp)
        BY <1>1, <2>1, OnwardRows
      <3>2. \A t : Suspends(m, t, tbot) => Suspends(Onward(m), t, tbot)
        BY <2>1, <3>1 DEF Suspends, Kinds
      <3>. QED
        BY <1>2, <2>1, <2>4, <3>1, <3>2
    <2>5. CASE cron' = [cron EXCEPT ![r] = n]
      <3>1. n \in CronRows /\ n.pc = m.pc /\ n.t = m.t /\ n.susp = m.susp /\ n.seen = m.seen
        BY <1>1, <2>2 DEF CronRows
      <3>2. CronRight(n) /\ \A t : Suspends(m, t, tbot) => Suspends(n, t, tbot)
        BY <1>1, <2>1, <3>1 DEF CronRight, Suspends, Kinds
      <3>. QED
        BY <1>2, <2>1, <2>5, <3>1, <3>2
    <2>. QED
      BY <2>1, <2>3, <2>4, <2>5
  <1>5. CASE SettleTenant(r)
    <2>1. /\ m.pc = "settle" /\ UNCHANGED <<era, day, books, tbot, helper, payer, usageSide, hurt>>
          /\ cron' = [cron EXCEPT ![r] = afterTier(m)]
      BY <1>5 DEF SettleTenant
    <2>2. afterTier(m) \in CronRows /\ CronRight(afterTier(m))
      BY <1>1, <2>1, OnwardRows, SuspendingRows DEF afterTier
    <2>3. ASSUME NEW t \in owes, era.hook, Suspends(m, t, tbot) PROVE Suspends(afterTier(m), t, tbot)
      <3>1. m.t = t /\ t \in Tenants /\ ~m.susp /\ m.seen > 0 /\ purse[t] <= 0
        BY <1>1, <2>1, <2>3 DEF Suspends, CronRight
      <3>2. afterTier(m) = Suspending(m, "storage")
        BY <3>1 DEF afterTier
      <3>. QED
        BY <1>1, <2>1, <2>3, <3>1, <3>2, SuspendingRows DEF Suspends
    <2>. QED
      BY <1>2, <2>1, <2>2, <2>3
  <1>6. CASE suspendAllForTenant(r)
    <2>1. m.pc = "suspend" /\ UNCHANGED <<era, day, books, helper, payer, usageSide, hurt>>
      BY <1>6 DEF suspendAllForTenant
    <2>2. CASE /\ m.stage = "read" /\ UNCHANGED tbot
               /\ cron' = [cron EXCEPT ![r] = [m EXCEPT !.stage = "bots", !.list = SetToSeq(listIds(m.t, "active"))]]
      <3>. PICK n : n = [m EXCEPT !.stage = "bots", !.list = SetToSeq(listIds(m.t, "active"))]
        OBVIOUS
      <3>1. /\ SetToSeq(listIds(m.t, "active")) \in Seq(BotIds)
            /\ Listing(SetToSeq(listIds(m.t, "active")), m.t, tbot)
        BY BotsListed DEF listIds, Listing
      <3>2. n \in CronRows /\ n.pc = m.pc /\ n.t = m.t /\ n.stage = "bots" /\ n.list = SetToSeq(listIds(m.t, "active")) /\ n.seen = m.seen
        BY <1>1, <3>1 DEF CronRows
      <3>3. CronRight(n) /\ \A t : Suspends(m, t, tbot) => Suspends(n, t, tbot)
        BY <1>1, <2>1, <3>1, <3>2 DEF CronRight, Suspends
      <3>. QED
        BY <1>2, <2>1, <2>2, <3>2, <3>3
    <2>3. CASE /\ m.stage = "bots" /\ m.list # << >> /\ tbot' = [tbot EXCEPT ![Head(m.list)] = suspend(@)]
               /\ cron' = [cron EXCEPT ![r].list = Tail(@)]
      <3>. PICK n : n = [m EXCEPT !.list = Tail(m.list)]
        OBVIOUS
      <3>. PICK b : b = Head(m.list)
        OBVIOUS
      <3>1. /\ b \in BotIds /\ Tail(m.list) \in Seq(BotIds) /\ m.list \in Seq(BotIds)
            /\ \A i \in 1..Len(m.list) : m.list[i] = b \/ \E j \in 1..Len(Tail(m.list)) : Tail(m.list)[j] = m.list[i]
        <4>1. m.list \in Seq(BotIds)
          BY <1>1 DEF CronRows
        <4>2. \A i \in 1..Len(m.list) : i = 1 \/ (i - 1 \in 1..Len(Tail(m.list)) /\ Tail(m.list)[i - 1] = m.list[i])
          BY <2>3, <4>1
        <4>. QED
          BY <2>3, <4>1, <4>2
      <3>2. n \in CronRows /\ n.pc = m.pc /\ n.t = m.t /\ n.stage = m.stage /\ n.list = Tail(m.list) /\ n.seen = m.seen
        BY <1>1, <3>1 DEF CronRows
      <3>3. cron' = [cron EXCEPT ![r] = n]
        BY <1>1, <2>3 DEF BillInv, BillTypes
      <3>4. /\ tbot' \in [BotIds -> BotRows] /\ tbot'[b].state = "suspended" /\ \A o \in BotIds \ {b} : tbot'[o] = tbot[o]
        BY <1>1, <2>3, <3>1 DEF suspend, BotRows, BotStates
      <3>5. ASSUME NEW t, Suspends(m, t, tbot) PROVE Suspends(n, t, tbot')
        <4>1. Listing(m.list, t, tbot) /\ m.t = t
          BY <2>1, <2>3, <3>5 DEF Suspends
        <4>2. Listing(Tail(m.list), t, tbot')
          BY <3>1, <3>4, <4>1 DEF Listing
        <4>. QED
          BY <2>1, <2>3, <3>2, <4>1, <4>2 DEF Suspends
      <3>6. CronMove(r, n)
        BY <1>1, <2>1, <3>2, <3>3, <3>4, <3>5 DEF CronMove, books, CronRight
      <3>. QED
        BY <2>1, <3>2, <3>6, RunStays DEF books, dividendRef
    <2>4. CASE m.stage = "bots" /\ m.list = << >> /\ cron' = [cron EXCEPT ![r] = Goto(m, m.then)] /\ UNCHANGED tbot
      <3>1. m.then \in {"next"} \cup (CronSteps \ {"runtime"})
        BY <1>1 DEF CronRows, CronSteps
      <3>2. Goto(m, m.then) \in CronRows /\ CronRight(Goto(m, m.then))
        BY <1>1, <2>1, <3>1, GoRows
      <3>3. ASSUME NEW t, Suspends(m, t, tbot) PROVE listIds(t, "active") = {}
        BY <2>1, <2>4, <3>3 DEF Suspends, Listing, listIds
      <3>. QED
        BY <1>2, <2>1, <2>4, <3>2, <3>3
    <2>. QED
      BY <1>6, <2>2, <2>3, <2>4 DEF suspendAllForTenant
  <1>7. CASE RunDies(r)
    <2>1. /\ cron' = [cron EXCEPT ![r] = NoCron] /\ owes' = owes \ {m.t}
          /\ UNCHANGED <<era, day, purse, posted, tbot, helper, payer, usageSide, hurt>>
      BY <1>7 DEF RunDies
    <2>2. CronMove(r, NoCron)
      BY <1>1, <2>1 DEF CronMove, Suspends
    <2>. QED
      BY <1>1, <2>1, <2>2, RunStays DEF dividendRef
  <1>. QED
    BY <1>3, <1>4, <1>5, <1>6, <1>7

\* The debit of a charge: whoever it leaves with nothing is settled next.
LEMMA DebitSteps == ASSUME BillInv, NEW r \in CronRuns, DebitCharge(r) PROVE BillInv'
  <1>. DEFINE m == cron[r]
  <1>. PICK amount : amount = Min({m.cost, m.cur})
    OBVIOUS
  <1>. PICK ref : ref = <<m.pc, m.day, m.t>>
    OBVIOUS
  <1>. DEFINE short == amount > 0 /\ purse[m.t] < amount
              dup == amount > 0 /\ ~short /\ ref \in posted
              paid == amount > 0 /\ ~short /\ ~dup
  <1>1. /\ m \in CronRows /\ CronRight(m) /\ m.pc \in Kinds /\ m.pc # "idle" /\ m.t \in Tenants
        /\ amount \in Int /\ purse \in [Tenants -> Int] /\ tbot \in [BotIds -> BotRows] /\ m.list \in Seq(BotIds)
        /\ \A t \in owes : t \in Tenants => purse[t] <= 0
    <2>1. m \in CronRows /\ CronRight(m) /\ m.pc \in Kinds /\ m.pc # "idle" /\ m.t \in Tenants
      BY DEF DebitCharge, BillInv, BillTypes, CronRight, Kinds
    <2>2. amount \in Int
      BY <2>1, MinOfTwo DEF CronRows
    <2>. QED
      BY <2>1, <2>2 DEF BillInv, BillTypes, OwedRight, CronRows
  <1>2. UNCHANGED <<era, day, tbot, helper, payer, usageSide, hurt>>
    BY DEF DebitCharge
  <1>3. \E n : /\ cron' = [cron EXCEPT ![r] = n]
               /\ \/ short /\ n = Suspending(m, "next")
                  \/ dup /\ n = NextTenantOf(m)
                  \/ ~short /\ ~dup /\ m.pc # "tier" /\ n = Suspending(m, Following[m.pc])
                  \/ ~short /\ ~dup /\ n = Onward(m)
    <2>. PICK n : n = CASE short -> Suspending(m, "next")
                        [] dup -> NextTenantOf(m)
                        [] m.cost > m.cur /\ m.pc # "tier" /\ ~m.susp /\ ~short /\ ~dup -> Suspending(m, Following[m.pc])
                        [] OTHER -> Onward(m)
      OBVIOUS
    <2>1. cron' = [cron EXCEPT ![r] = n]
      BY Zenon DEF DebitCharge
    <2>2. \/ short /\ n = Suspending(m, "next")
          \/ dup /\ n = NextTenantOf(m)
          \/ ~short /\ ~dup /\ m.pc # "tier" /\ n = Suspending(m, Following[m.pc])
          \/ ~short /\ ~dup /\ n = Onward(m)
      OBVIOUS
    <2>. QED
      BY <2>1, <2>2
  <1>4. PICK n : /\ cron' = [cron EXCEPT ![r] = n]
                 /\ \/ short /\ n = Suspending(m, "next")
                    \/ dup /\ n = NextTenantOf(m)
                    \/ ~short /\ ~dup /\ m.pc # "tier" /\ n = Suspending(m, Following[m.pc])
                    \/ ~short /\ ~dup /\ n = Onward(m)
    BY <1>3
  <1>5. /\ purse' = IF paid THEN [purse EXCEPT ![m.t] = @ - amount] ELSE purse
        /\ posted' = IF paid THEN posted \cup {ref} ELSE posted
        /\ owes' = IF paid /\ purse[m.t] = amount /\ m.pc \in {"runtime", "tier"} /\ ~m.susp THEN owes \cup {m.t} ELSE owes
    BY DEF DebitCharge
  <1>6. m.pc # "tier" => Following[m.pc] \in {"next", "tier", "storage", "addon"}
    BY <1>1 DEF Following, Kinds
  <1>7. /\ Onward(m) \in CronRows /\ CronRight(Onward(m))
        /\ m.pc \in {"runtime", "tier"} => /\ Onward(m).pc \in {"tier", "settle"}
                                          /\ Onward(m).t = m.t /\ Onward(m).susp = m.susp
    BY <1>1, OnwardRows
  <1>8. \A then \in {"next", "tier", "storage", "addon"} :
          /\ Suspending(m, then) \in CronRows /\ CronRight(Suspending(m, then))
          /\ era.hook => \A bots : Suspends(Suspending(m, then), m.t, bots)
    BY <1>1, SuspendingRows DEF Suspends
  <1>9. NextTenantOf(m) \in CronRows /\ CronRight(NextTenantOf(m))
    BY <1>1, NextRows DEF CronRows
  <1>10. n \in CronRows /\ CronRight(n)
    BY <1>4, <1>6, <1>7, <1>8, <1>9
  <1>11. ~dup /\ era.hook => \/ Suspends(n, m.t, tbot)
                             \/ n = Onward(m) /\ m.pc \in {"storage", "addon"}
                             \/ m.susp
    <2>1. CASE n = Onward(m)
      BY <1>1, <1>7, <2>1 DEF Suspends, Kinds
    <2>2. CASE n = Suspending(m, "next") \/ (m.pc # "tier" /\ n = Suspending(m, Following[m.pc]))
      BY <1>6, <1>8, <2>2
    <2>. QED
      BY <1>4, <2>1, <2>2
  <1>12. /\ purse' \in [Tenants -> Int] /\ purse'[m.t] = IF paid THEN purse[m.t] - amount ELSE purse[m.t]
         /\ \A t \in Tenants \ {m.t} : purse'[t] = purse[t]
    <2>1. CASE paid
      <3>1. purse' = [purse EXCEPT ![m.t] = purse[m.t] - amount] /\ purse[m.t] - amount \in Int
        BY <1>1, <1>5, <2>1
      <3>. QED
        BY <1>1, <2>1, <3>1
    <2>2. CASE ~paid
      <3>1. purse' = purse
        BY <1>5, <2>2
      <3>. QED
        BY <1>1, <2>2, <3>1
    <2>. QED
      BY <2>1, <2>2
  <1>13. ASSUME NEW t \in owes', t \in Tenants PROVE purse'[t] <= 0
    <2>1. purse[t] \in Int /\ purse'[t] <= purse[t]
      <3>1. purse[t] \in Int /\ amount \in Int
        BY <1>1, <1>13
      <3>2. CASE t = m.t
        BY <1>12, <3>1, <3>2
      <3>3. CASE t # m.t
        BY <1>12, <1>13, <3>1, <3>3
      <3>. QED
        BY <3>1, <3>2, <3>3
    <2>2. CASE t \in owes
      BY <1>1, <1>12, <1>13, <2>1, <2>2
    <2>3. CASE t \notin owes
      <3>1. paid /\ t = m.t /\ purse[m.t] = amount
        BY <1>5, <2>3
      <3>. QED
        BY <1>1, <1>12, <3>1
    <2>. QED
      BY <2>2, <2>3
  <1>14. ASSUME NEW t \in owes', era.hook, t \in owes => Suspends(m, t, tbot) PROVE Suspends(n, t, tbot)
    <2>1. CASE t \in owes
      <3>1. m.t = t /\ m.pc = "tier" /\ ~m.susp
        BY <1>1, <1>14, <2>1 DEF Suspends, Kinds
      <3>2. purse[m.t] <= 0
        BY <1>1, <2>1, <3>1
      <3>3. ~dup
        BY <1>1, <3>2
      <3>. QED
        BY <1>11, <1>14, <3>1, <3>3
    <2>2. CASE t \notin owes
      <3>1. paid /\ t = m.t /\ m.pc \in {"runtime", "tier"} /\ ~m.susp
        BY <1>5, <2>2
      <3>. QED
        BY <1>11, <1>14, <3>1
    <2>. QED
      BY <2>1, <2>2
  <1>15. CronMove(r, n)
    BY <1>1, <1>2, <1>4, <1>10, <1>12, <1>13, <1>14 DEF CronMove
  <1>16. posted \subseteq posted' /\ \A t \in Tenants : dividendRef(t) \in posted' => dividendRef(t) \in posted
    <2>1. \A t : dividendRef(t) # ref
      BY <1>1 DEF dividendRef, Kinds
    <2>. QED
      BY <1>5, <2>1 DEF dividendRef
  <1>. QED
    BY <1>2, <1>10, <1>15, <1>16, RunStays

\* Purchases, grants, expiry, the helpers, a bot started or stopped, the gateway and the day.
LEMMA OtherSteps ==
    ASSUME BillInv,
           \/ DayBreaks \/ destroyExpiredBots
           \/ \E t \in Tenants : Purchase(t) \/ GatewaySpends(t) \/ grantSignupCredits(t) \/ expireGrant(t)
           \/ \E h \in {"reactivation", "reaper"} : HelperStep(h)
           \/ \E b \in BotIds, s \in {"active", "suspended"} : setBillingState(b, s)
    PROVE  BillInv'
  <1>1. /\ purse \in [Tenants -> Int] /\ tbot \in [BotIds -> BotRows] /\ era \in Eras /\ era.grant \in Nat
        /\ helper \in [{"reactivation", "reaper"} -> HelperRows] /\ day \in Nat
        /\ \A t \in owes : t \in Tenants => purse[t] <= 0
    BY BillingAssumption DEF BillInv, BillTypes, OwedRight
  <1>2. ASSUME UNCHANGED <<era, cron, payer, usageSide, hurt>>, day' \in Nat, owes' \subseteq owes,
               purse' \in [Tenants -> Int], tbot' \in [BotIds -> BotRows],
               helper' \in [{"reactivation", "reaper"} -> HelperRows],
               \A t \in owes' : t \in Tenants => purse'[t] <= purse[t],
               \A b \in BotIds : tbot'[b].state = "active" /\ Owner[b] \in owes' => tbot[b].state = "active",
               posted \subseteq posted', \A t \in Tenants : dividendRef(t) \in posted' => dividendRef(t) \in posted
        PROVE  BillInv'
    <2>1. BillTypes'
      BY <1>2 DEF BillInv, BillTypes
    <2>2. OwedRight'
      BY <1>2, <2>1, OwedRests
    <2>3. DividendRight'
      BY <1>2, DividendRests
    <2>4. ReportsRight'
      BY <1>2, ReportsRest DEF usageSide
    <2>. QED
      BY <2>1, <2>2, <2>3, <2>4 DEF BillInv
  <1>3. ASSUME NEW S \in SUBSET BotIds PROVE [pc |-> "bots", list |-> SetToSeq(S)] \in HelperRows
    BY BotsListed DEF HelperRows
  <1>4. CASE DayBreaks
    <2>1. /\ \A b \in BotIds : tbot'[b] \in BotRows /\ tbot'[b].state = tbot[b].state
          /\ tbot' \in [BotIds -> BotRows]
      BY <1>1, <1>4 DEF DayBreaks, BotRows
    <2>. QED
      BY <1>1, <1>2, <1>4, <2>1 DEF DayBreaks, books, dividendRef
  <1>5. CASE destroyExpiredBots
    <2>1. listExpiredSuspendedIds \in SUBSET BotIds
      BY DEF listExpiredSuspendedIds
    <2>2. helper' \in [{"reactivation", "reaper"} -> HelperRows]
      BY <1>1, <1>3, <1>5, <2>1 DEF destroyExpiredBots
    <2>. QED
      BY <1>1, <1>2, <1>5, <2>2 DEF destroyExpiredBots, books, dividendRef
  <1>6. ASSUME NEW t \in Tenants, Purchase(t) PROVE BillInv'
    <2>1. listIds(t, "suspended") \in SUBSET BotIds
      BY DEF listIds
    <2>2. helper' \in [{"reactivation", "reaper"} -> HelperRows]
      BY <1>1, <1>3, <1>6, <2>1 DEF Purchase
    <2>3. \A u : dividendRef(u) # <<"purchase", day, t>>
      BY DEF dividendRef
    <2>. QED
      BY <1>1, <1>2, <1>6, <2>2, <2>3 DEF Purchase, dividendRef
  <1>7. ASSUME NEW t \in Tenants, GatewaySpends(t) PROVE BillInv'
    BY <1>1, <1>2, <1>7 DEF GatewaySpends, dividendRef
  <1>8. ASSUME NEW t \in Tenants, grantSignupCredits(t) PROVE BillInv'
    <2>1. \A u : dividendRef(u) # <<"signup", 0, t>>
      BY DEF dividendRef
    <2>. QED
      BY <1>1, <1>2, <1>8, <2>1 DEF grantSignupCredits, dividendRef
  <1>9. ASSUME NEW t \in Tenants, expireGrant(t) PROVE BillInv'
    <2>1. \A u : dividendRef(u) # <<"expiry", 0, t>>
      BY DEF dividendRef
    <2>. PICK amount : amount = Min({purse[t], era.grant})
      OBVIOUS
    <2>2. amount \in Int /\ amount >= 0 /\ purse' = [purse EXCEPT ![t] = @ - amount]
      <3>1. purse[t] \in Int /\ purse[t] > 0 /\ purse' = [purse EXCEPT ![t] = purse[t] - amount]
        BY <1>1, <1>9 DEF expireGrant
      <3>2. amount \in {purse[t], era.grant}
        <4>1. era.grant \in Int
          BY <1>1
        <4>2. Min({purse[t], era.grant}) \in {purse[t], era.grant}
          BY <3>1, <4>1, MinOfTwo
        <4>. QED
          BY <4>2
      <3>. QED
        BY <1>1, <3>1, <3>2
    <2>. QED
      BY <1>1, <1>2, <1>9, <2>1, <2>2 DEF expireGrant, dividendRef
  <1>10. ASSUME NEW h \in {"reactivation", "reaper"}, HelperStep(h) PROVE BillInv'
    <2>1. CASE helper[h].list = << >>
      <3>1. NoHelper \in HelperRows
        BY DEF NoHelper, HelperRows
      <3>2. helper' \in [{"reactivation", "reaper"} -> HelperRows] /\ UNCHANGED <<tbot, owes>>
        BY <1>1, <1>10, <2>1, <3>1 DEF HelperStep
      <3>. QED
        BY <1>1, <1>2, <1>10, <3>2 DEF HelperStep, dividendRef
    <2>2. CASE helper[h].list # << >>
      <3>. PICK b : b = Head(helper[h].list)
        OBVIOUS
      <3>1. helper[h] \in HelperRows /\ b \in BotIds /\ Tail(helper[h].list) \in Seq(BotIds)
        BY <1>1, <2>2 DEF HelperRows
      <3>2. helper' \in [{"reactivation", "reaper"} -> HelperRows]
        <4>. PICK k : k = [helper[h] EXCEPT !.list = Tail(helper[h].list)]
          OBVIOUS
        <4>1. k \in HelperRows
          BY <3>1 DEF HelperRows
        <4>2. helper' = [helper EXCEPT ![h] = k]
          <5>1. helper' = [helper EXCEPT ![h].list = Tail(@)]
            BY <1>10, <2>2 DEF HelperStep
          <5>. QED
            BY <1>1, <5>1
        <4>. QED
          BY <1>1, <4>1, <4>2
      <3>. PICK row : row = IF h = "reaper" THEN markDestroyed(tbot[b]) ELSE reactivate(tbot[b])
        OBVIOUS
      <3>3. tbot[b] \in BotRows /\ row \in BotRows /\ (h = "reaper" => row.state # "active")
        BY <1>1, <3>1 DEF markDestroyed, reactivate, BotRows, BotStates
      <3>4. tbot' = [tbot EXCEPT ![b] = row]
        BY <1>10, <2>2 DEF HelperStep
      <3>5. owes' = IF h = "reactivation" THEN owes \ {Owner[b]} ELSE owes
        BY <1>10, <2>2 DEF HelperStep
      <3>6. /\ tbot' \in [BotIds -> BotRows] /\ owes' \subseteq owes
            /\ \A o \in BotIds : tbot'[o].state = "active" /\ Owner[o] \in owes' => tbot[o].state = "active"
        BY <1>1, <3>1, <3>3, <3>4, <3>5
      <3>. QED
        BY <1>1, <1>2, <1>10, <3>2, <3>6 DEF HelperStep, dividendRef
    <2>. QED
      BY <2>1, <2>2
  <1>11. ASSUME NEW b \in BotIds, NEW s \in {"active", "suspended"}, setBillingState(b, s) PROVE BillInv'
    <2>. PICK row : row = IF s = "suspended" THEN suspend(tbot[b]) ELSE [state |-> s, due |-> "none"]
      OBVIOUS
    <2>1. row \in BotRows /\ (s = "suspended" => row.state # "active")
      BY DEF suspend, BotRows, BotStates
    <2>2. /\ tbot' = [tbot EXCEPT ![b] = row] /\ owes' = IF s = "active" THEN owes \ {Owner[b]} ELSE owes
      BY <1>11 DEF setBillingState, suspend
    <2>3. /\ tbot' \in [BotIds -> BotRows] /\ owes' \subseteq owes
          /\ \A o \in BotIds : tbot'[o].state = "active" /\ Owner[o] \in owes' => tbot[o].state = "active"
      BY <1>1, <2>1, <2>2
    <2>. QED
      BY <1>1, <1>2, <1>11, <2>3 DEF setBillingState, dividendRef
  <1>. QED
    BY <1>4, <1>5, <1>6, <1>7, <1>8, <1>9, <1>10, <1>11

\* Every nonempty set of numbers has a least one.
LEMMA LeastOf ==
    ASSUME NEW T, T \subseteq Nat, T # {}
    PROVE  \E x \in T : \A y \in T : x <= y
  <1>. DEFINE R == {ss \in Nat \X Nat : ss[1] < ss[2]}
  <1>1. IsWellFoundedOn(R, Nat)
    BY NatLessThanWellFounded DEF OpToRel
  <1>. HIDE DEF R
  <1>2. PICK x \in T : \A y \in T : ~(<<y, x>> \in R)
    BY <1>1, WFMin
  <1>3. \A y \in T : ~(y < x)
    BY <1>2 DEF R
  <1>. QED
    BY <1>3

\* What the tenants of a set bought, one after the other.
Adding(sum, n) ==
    /\ sum \in [{s \in SUBSET Tenants : Cardinality(s) <= n} -> Int]
    /\ \A s \in SUBSET Tenants : Cardinality(s) <= n =>
         sum[s] = IF s = {} THEN 0 ELSE era.bought[CHOOSE x \in s : TRUE] + sum[s \ {CHOOSE x \in s : TRUE}]

\* Such sums exist, by the least size at which one would not.
LEMMA AddingExists == ASSUME era.bought \in [Tenants -> Nat] PROVE \E sum : Adding(sum, Cardinality(Tenants))
  <1>. DEFINE L == Cardinality(Tenants)
              T == {n \in 0..L : ~\E sum : Adding(sum, n)}
  <1>1. IsFiniteSet(Tenants) /\ L \in Nat /\ \A s \in SUBSET Tenants : IsFiniteSet(s) /\ Cardinality(s) \in Nat
    BY BillingAssumption, FS_Subset, FS_CardinalityType
  <1>2. ASSUME T # {} PROVE FALSE
    <2>1. PICK n \in T : \A y \in T : n <= y
      <3>1. T \subseteq Nat
        BY <1>1
      <3>. QED
        BY <1>2, <3>1, LeastOf
    <2>2. CASE n = 0
      <3>1. \A s \in SUBSET Tenants : Cardinality(s) <= 0 => s = {}
        BY <1>1, FS_EmptySet
      <3>2. Adding([s \in {s \in SUBSET Tenants : Cardinality(s) <= 0} |-> 0], 0)
        BY <3>1 DEF Adding
      <3>. QED
        BY <2>2, <3>2
    <2>3. CASE n # 0
      <3>1. n - 1 \in 0..L /\ n - 1 \notin T
        BY <1>1, <2>1, <2>3
      <3>2. PICK old : Adding(old, n - 1)
        BY <3>1
      <3>. DEFINE D == {s \in SUBSET Tenants : Cardinality(s) <= n}
                  new == [s \in D |-> IF s = {} THEN 0 ELSE era.bought[CHOOSE x \in s : TRUE] + old[s \ {CHOOSE x \in s : TRUE}]]
      <3>3. ASSUME NEW s \in D, s # {}
            PROVE  /\ (CHOOSE x \in s : TRUE) \in s /\ s \ {CHOOSE x \in s : TRUE} \in SUBSET Tenants
                   /\ Cardinality(s \ {CHOOSE x \in s : TRUE}) <= n - 1
        <4>1. PICK x : x = CHOOSE y \in s : TRUE
          OBVIOUS
        <4>2. x \in s
          BY <3>3, <4>1
        <4>3. Cardinality(s \ {x}) = Cardinality(s) - 1
          BY <1>1, <4>2, FS_RemoveElement
        <4>. QED
          BY <1>1, <2>1, <4>1, <4>2, <4>3
      <3>4. new \in [D -> Int]
        BY <3>2, <3>3 DEF Adding
      <3>5. \A s \in D : s \in SUBSET Tenants /\ Cardinality(s) <= n - 1 => new[s] = old[s]
        BY <3>2 DEF Adding
      <3>6. ASSUME NEW s \in D, s # {}
            PROVE  new[s] = era.bought[CHOOSE x \in s : TRUE] + new[s \ {CHOOSE x \in s : TRUE}]
        <4>1. s \ {CHOOSE x \in s : TRUE} \in D
          BY <1>1, <2>1, <3>3, <3>6
        <4>. QED
          BY <3>3, <3>5, <3>6, <4>1
      <3>7. \A s \in D : s = {} => new[s] = 0
        OBVIOUS
      <3>. HIDE DEF new
      <3>8. Adding(new, n)
        BY <3>4, <3>6, <3>7 DEF Adding
      <3>. QED
        BY <3>8
    <2>. QED
      BY <2>2, <2>3
  <1>. QED
    BY <1>1, <1>2

\* A tenant's share of the dividend is a number.
LEMMA PerUserIsInt == ASSUME era.bought \in [Tenants -> Nat] PROVE perUser \in Int
  <1>. DEFINE Def(f) == [s \in SUBSET Tenants |->
                           IF s = {} THEN 0 ELSE era.bought[CHOOSE x \in s : TRUE] + f[s \ {CHOOSE x \in s : TRUE}]]
              chosen == CHOOSE f : f = Def(f)
  <1>1. IsFiniteSet(Tenants) /\ Cardinality(Tenants) \in Nat
        /\ \A s \in SUBSET Tenants : IsFiniteSet(s) /\ Cardinality(s) \in Nat /\ Cardinality(s) <= Cardinality(Tenants)
    BY BillingAssumption, FS_Subset, FS_CardinalityType
  <1>2. PICK sum : Adding(sum, Cardinality(Tenants))
    BY AddingExists
  <1>3. sum = Def(sum) /\ sum \in [SUBSET Tenants -> Int]
    BY <1>1, <1>2 DEF Adding
  <1>4. chosen = Def(chosen)
    BY <1>3
  <1>5. sumPurchasesForPeriod = chosen[Tenants]
    BY DEF sumPurchasesForPeriod, MapThenSumSet, MapThenFoldSet
  <1>. HIDE DEF chosen
  <1>6. ASSUME {n \in Nat : \E s \in SUBSET Tenants : Cardinality(s) = n /\ chosen[s] \notin Int} # {} PROVE FALSE
    <2>. PICK T : T = {n \in Nat : \E s \in SUBSET Tenants : Cardinality(s) = n /\ chosen[s] \notin Int}
      OBVIOUS
    <2>1. PICK n \in T : \A y \in T : n <= y
      <3>1. T \subseteq Nat /\ T # {}
        BY <1>6
      <3>. QED
        BY <3>1, LeastOf
    <2>2. PICK s \in SUBSET Tenants : Cardinality(s) = n /\ chosen[s] \notin Int
      BY <2>1
    <2>. PICK x : x = CHOOSE y \in s : TRUE
      OBVIOUS
    <2>3. chosen[s] = IF s = {} THEN 0 ELSE era.bought[x] + chosen[s \ {x}]
      BY <1>4
    <2>4. s # {} /\ x \in s /\ era.bought[x] \in Int
      BY <2>2, <2>3
    <2>5. Cardinality(s \ {x}) = n - 1 /\ s \ {x} \in SUBSET Tenants /\ n - 1 \in Nat
      <3>1. IsFiniteSet(s) /\ s \ {x} \in SUBSET Tenants
        BY <1>1
      <3>2. Cardinality(s \ {x}) = Cardinality(s) - 1
        BY <2>4, <3>1, FS_RemoveElement
      <3>3. Cardinality(s \ {x}) \in Nat
        BY <1>1, <3>1
      <3>. QED
        BY <2>2, <3>1, <3>2, <3>3
    <2>6. chosen[s \ {x}] \in Int
      BY <2>1, <2>5
    <2>. QED
      BY <2>2, <2>3, <2>4, <2>6
  <1>7. sumPurchasesForPeriod \in Int
    BY <1>1, <1>5, <1>6
  <1>8. activeTenants # {} => Cardinality(activeTenants) \in Nat \ {0}
    BY <1>1, FS_EmptySet DEF activeTenants
  <1>. QED
    BY <1>7, <1>8 DEF perUser

\* The dividend of a date: it is paid, or somebody is about to pay it.
LEMMA DividendSteps ==
    ASSUME BillInv, NEW p \in Payers, StartDividend(p) \/ PayDividend(p)
    PROVE  BillInv'
  <1>1. /\ payer \in [Payers -> PayerRows] /\ payer[p] \in PayerRows /\ NoPayer \in PayerRows /\ NoPayer.pc = "idle"
        /\ purse \in [Tenants -> Int] /\ activeTenants \subseteq Tenants
    <2>1. << >> \in Seq(Tenants)
      OBVIOUS
    <2>. QED
      BY <2>1 DEF BillInv, BillTypes, DividendRight, NoPayer, PayerRows, activeTenants
  <1>2. UNCHANGED <<era, day, tbot, cron, helper, usageSide>> /\ hurt \subseteq hurt' /\ posted \subseteq posted'
    BY DEF StartDividend, PayDividend, books
  <1>3. ReportsRight'
    BY <1>2, ReportsRest DEF usageSide
  <1>4. activeTenants' = activeTenants /\ \A t : (dividendRef(t) \in posted)' <=> dividendRef(t) \in posted'
    BY <1>2 DEF activeTenants, dividendRef
  <1>5. ASSUME NEW k \in PayerRows, payer' = [payer EXCEPT ![p] = k]
        PROVE  /\ payer' \in [Payers -> PayerRows] /\ payer'[p] = k /\ \A q \in Payers \ {p} : payer'[q] = payer[q]
               /\ \A q \in Payers \ {p}, t \in Tenants : Remains(q, t)' <=> Remains(q, t)
    BY <1>1, <1>5 DEF Remains
  <1>6. CASE StartDividend(p)
    <2>. PICK k : k = [pc |-> "pay", todo |-> SetToSeq(activeTenants), share |-> perUser]
      OBVIOUS
    <2>1. /\ payer' = [payer EXCEPT ![p] = k] /\ UNCHANGED <<books, hurt>> /\ ~alreadyRan /\ payer[p] = NoPayer
      BY <1>6 DEF StartDividend
    <2>2. activeTenants # {}
      <3>1. perUser > 0
        BY <1>6 DEF StartDividend
      <3>. QED
        BY <3>1 DEF perUser
    <2>3. /\ SetToSeq(activeTenants) \in Seq(Tenants) /\ SetToSeq(activeTenants) # << >>
          /\ \A t \in activeTenants : \E i \in 1..Len(SetToSeq(activeTenants)) : SetToSeq(activeTenants)[i] = t
      <3>1. IsFiniteSet(activeTenants)
        BY <1>1, BillingAssumption, FS_Subset
      <3>. QED
        <4>1. SetToSeq(activeTenants) \in Seq(activeTenants)
          BY <3>1, Enumerated
        <4>2. SetToSeq(activeTenants) \in Seq(Tenants)
          BY <1>1, <4>1
        <4>. QED
          BY <2>2, <3>1, <4>2, Enumerated
    <2>4. k \in PayerRows
      <3>1. perUser \in Int
        <4>1. era.bought \in [Tenants -> Nat]
          BY BillingAssumption DEF BillInv, BillTypes
        <4>. QED
          BY <4>1, PerUserIsInt
      <3>. QED
        BY <2>3, <3>1 DEF PayerRows
    <2>5. \A t \in activeTenants : Remains(p, t)'
      BY <1>5, <2>1, <2>3, <2>4 DEF Remains
    <2>6. ~alreadyRan'
      BY <1>2, <2>1 DEF alreadyRan, dividendRef, books
    <2>7. DividendRight'
      <3>1. /\ payer' \in [Payers -> PayerRows] /\ payer'[p] = k /\ \A q \in Payers \ {p} : payer'[q] = payer[q]
            /\ \A q \in Payers \ {p}, t \in Tenants : Remains(q, t)' <=> Remains(q, t)
        BY <1>5, <2>1, <2>4
      <3>2. \A q \in Payers : payer'[q].pc = "pay" => payer'[q].todo # << >>
        BY <2>3, <3>1 DEF BillInv, DividendRight
      <3>3. ASSUME "dividend" \notin hurt', NEW q \in Payers, payer'[q].pc = "pay", NEW t \in activeTenants
            PROVE  dividendRef(t) \in posted' \/ Remains(q, t)'
        <4>1. CASE q = p
          BY <2>5, <4>1
        <4>2. CASE q # p
          <5>1. dividendRef(t) \in posted \/ Remains(q, t)
            BY <1>2, <3>1, <3>3, <4>2 DEF BillInv, DividendRight
          <5>. QED
            BY <1>1, <1>2, <3>1, <4>2, <5>1
        <4>. QED
          BY <4>1, <4>2
      <3>. QED
        BY <1>4, <2>6, <3>1, <3>2, <3>3 DEF DividendRight
    <2>8. BillTypes' /\ OwedRight'
      <3>1. BillTypes'
        BY <1>2, <2>1 DEF BillInv, BillTypes, books
      <3>. QED
        BY <1>1, <1>2, <2>1, <3>1, OwedRests DEF books
    <2>. QED
      BY <1>3, <2>7, <2>8 DEF BillInv
  <1>7. CASE PayDividend(p)
    <2>. PICK t : t = Head(payer[p].todo)
      OBVIOUS
    <2>1. /\ payer[p].pc = "pay" /\ payer[p].todo # << >> /\ payer[p].todo \in Seq(Tenants)
          /\ t \in Tenants /\ Tail(payer[p].todo) \in Seq(Tenants) /\ payer[p].share \in Int
      <3>1. payer[p].pc = "pay" /\ payer[p].todo # << >> /\ payer[p].todo \in Seq(Tenants) /\ payer[p].share \in Int
        BY <1>1, <1>7 DEF PayDividend, BillInv, DividendRight, PayerRows
      <3>. QED
        BY <3>1
    <2>. PICK k : k = IF Tail(payer[p].todo) = << >> THEN NoPayer ELSE [payer[p] EXCEPT !.todo = Tail(payer[p].todo)]
      OBVIOUS
    <2>2. k \in PayerRows /\ (k.pc = "pay" => k.todo # << >>)
          /\ \A u : Remains(p, u) => u = t \/ (k.pc = "pay" /\ \E i \in 1..Len(k.todo) : k.todo[i] = u)
      <3>1. \A i \in 1..Len(payer[p].todo) : i = 1 \/ (i - 1 \in 1..Len(Tail(payer[p].todo))
                                                       /\ Tail(payer[p].todo)[i - 1] = payer[p].todo[i])
        BY <2>1
      <3>2. ASSUME NEW u, Remains(p, u), u # t
            PROVE  \E j \in 1..Len(Tail(payer[p].todo)) : Tail(payer[p].todo)[j] = u
        BY <2>1, <3>1, <3>2 DEF Remains
      <3>3. CASE Tail(payer[p].todo) = << >>
        <4>1. \A u : Remains(p, u) => u = t
          BY <3>2, <3>3
        <4>. QED
          BY <1>1, <3>3, <4>1
      <3>4. CASE Tail(payer[p].todo) # << >>
        <4>1. k \in PayerRows /\ k.pc = "pay" /\ k.todo = Tail(payer[p].todo)
          BY <1>1, <2>1, <3>4 DEF PayerRows
        <4>. QED
          BY <3>2, <3>4, <4>1
      <3>. QED
        BY <3>3, <3>4
    <2>3. goOn(p) <=> payer' = [payer EXCEPT ![p] = k]
      BY <1>1, Zenon DEF goOn, afterOne
    <2>4. \/ /\ posted' = posted \cup {dividendRef(t)} /\ owes' = owes \ {t} /\ goOn(p) /\ UNCHANGED hurt
             /\ purse' = [purse EXCEPT ![t] = @ + payer[p].share]
          \/ dividendRef(t) \in posted /\ UNCHANGED books /\ goOn(p) /\ UNCHANGED hurt
          \/ "dividend" \in hurt' /\ UNCHANGED books /\ (goOn(p) \/ payer' = [payer EXCEPT ![p] = NoPayer])
      BY <1>7, Zenon DEF PayDividend
    <2>5. purse' \in [Tenants -> Int] /\ owes' \subseteq owes /\ \A u \in owes' : u \in Tenants => purse'[u] <= purse[u]
      BY <1>1, <2>1, <2>4 DEF books
    <2>6. BillTypes' /\ OwedRight'
      <3>1. BillTypes'
        BY <1>2, <2>5 DEF BillInv, BillTypes
      <3>. QED
        BY <1>2, <2>5, <3>1, OwedRests
    <2>7. DividendRight'
      <3>1. CASE "dividend" \in hurt'
        <4>1. payer' \in [Payers -> PayerRows] /\ \A q \in Payers : payer'[q].pc = "pay" => payer'[q].todo # << >>
          <5>1. PICK n \in PayerRows : payer' = [payer EXCEPT ![p] = n] /\ (n.pc = "pay" => n.todo # << >>)
            BY <1>1, <2>2, <2>3, <2>4
          <5>2. \A q \in Payers : payer[q].pc = "pay" => payer[q].todo # << >>
            BY DEF BillInv, DividendRight
          <5>. QED
            BY <1>1, <5>1, <5>2
        <4>. QED
          BY <3>1, <4>1 DEF DividendRight
      <3>2. CASE "dividend" \notin hurt'
        <4>1. payer' = [payer EXCEPT ![p] = k] /\ dividendRef(t) \in posted' /\ "dividend" \notin hurt
          <5>1. goOn(p) /\ dividendRef(t) \in posted'
            BY <2>4, <3>2 DEF books
          <5>. QED
            BY <1>2, <2>3, <3>2, <5>1
        <4>2. /\ payer' \in [Payers -> PayerRows] /\ payer'[p] = k /\ \A q \in Payers \ {p} : payer'[q] = payer[q]
              /\ \A q \in Payers \ {p}, u \in Tenants : Remains(q, u)' <=> Remains(q, u)
          <5>1. k \in PayerRows
            BY <2>2
          <5>. QED
            BY <1>5, <4>1, <5>1
        <4>3. ASSUME NEW u, Remains(p, u) PROVE dividendRef(u) \in posted' \/ Remains(p, u)'
          <5>1. CASE u = t
            BY <4>1, <5>1
          <5>2. CASE u # t
            <6>1. k.pc = "pay" /\ \E i \in 1..Len(k.todo) : k.todo[i] = u
              BY <2>2, <4>3, <5>2
            <6>. QED
              BY <4>2, <6>1 DEF Remains
          <5>. QED
            BY <5>1, <5>2
        <4>4. \A u \in activeTenants : dividendRef(u) \in posted \/ Remains(p, u)
          BY <2>1, <4>1 DEF BillInv, DividendRight
        <4>5. \A u \in activeTenants : dividendRef(u) \in posted' \/ Remains(p, u)'
          BY <1>2, <4>3, <4>4
        <4>6. \A q \in Payers : payer'[q].pc = "pay" => \A u \in activeTenants : dividendRef(u) \in posted' \/ Remains(q, u)'
          <5>1. ASSUME NEW q \in Payers, q # p, payer'[q].pc = "pay", NEW u \in activeTenants
                PROVE  dividendRef(u) \in posted' \/ Remains(q, u)'
            BY <1>1, <1>2, <4>1, <4>2, <5>1 DEF BillInv, DividendRight
          <5>. QED
            BY <4>5, <5>1
        <4>7. \A q \in Payers : payer'[q].pc = "pay" => payer'[q].todo # << >>
          BY <2>2, <4>2 DEF BillInv, DividendRight
        <4>. QED
          BY <1>4, <4>2, <4>5, <4>6, <4>7 DEF DividendRight
      <3>. QED
        BY <3>1, <3>2
    <2>. QED
      BY <1>3, <2>6, <2>7 DEF BillInv
  <1>. QED
    BY <1>6, <1>7

\* The reports: who was counted has a row or a writer about to write it.
LEMMA ReportSteps ==
    ASSUME BillInv,
           \/ StripeForgets \/ runReconciliation \/ runStripeUsageReconciliation
           \/ \E p \in Reporters : CreateMeterEvent(p) \/ InsertReport(p) \/ \E l \in Lines : BeginReport(p, l)
    PROVE  BillInv'
  <1>1. UNCHANGED <<era, day, books, tbot, cron, helper, payer>> /\ hurt \subseteq hurt'
    BY DEF StripeForgets, runReconciliation, runStripeUsageReconciliation, CreateMeterEvent, InsertReport, BeginReport
  <1>2. BillTypes'
    BY <1>1 DEF BillInv, BillTypes, books
  <1>3. OwedRight'
    <2>1. \A t \in owes' : t \in Tenants => purse'[t] <= purse[t]
      BY <1>1 DEF books, BillInv, BillTypes
    <2>. QED
      BY <1>1, <1>2, <2>1, OwedRests DEF books
  <1>4. DividendRight'
    BY <1>1, DividendRests DEF books, dividendRef
  <1>. SUFFICES ReportsRight'
    BY <1>2, <1>3, <1>4 DEF BillInv
  <1>5. ReportsRight
    BY DEF BillInv
  <1>6. ASSUME NEW l, NEW s PROVE <<l, s>> # << >>
    <2>1. Len(<<l, s>>) = 2 /\ Len(<< >>) = 0
      OBVIOUS
    <2>. QED
      BY <2>1
  <1>7. CASE StripeForgets
    <2>1. /\ \A p \in Reporters : reporter[p] = << >>
          /\ UNCHANGED <<reporter, reports, counted, hurt>>
      BY <1>7 DEF StripeForgets
    <2>2. \A l : \A p \in Reporters : reporter[p] # <<l, "insert">> /\ reporter[p] # <<l, "create">>
      BY <1>6, <2>1
    <2>. QED
      BY <1>5, <2>1, <2>2 DEF ReportsRight
  <1>8. CASE runReconciliation \/ runStripeUsageReconciliation
    BY <1>5, <1>8 DEF ReportsRight, runReconciliation, runStripeUsageReconciliation
  <1>9. ASSUME NEW p \in Reporters, CreateMeterEvent(p) PROVE ReportsRight'
    <2>1. PICK l \in Lines : reporter[p] = <<l, "create">>
      BY <1>5, <1>9 DEF ReportsRight, CreateMeterEvent
    <2>2. /\ reporter' = [reporter EXCEPT ![p] = <<l, "insert">>] /\ remembers' = remembers \cup {l} /\ UNCHANGED <<reports, hurt>>
          /\ counted' = IF l \in remembers THEN counted ELSE [counted EXCEPT ![l] = @ + 1]
      BY <1>9, <2>1 DEF CreateMeterEvent, meterEvent
    <2>3. /\ reporter' \in [Reporters -> {<< >>} \cup (Lines \X {"create", "insert"})] /\ reporter'[p] = <<l, "insert">>
          /\ \A q \in Reporters \ {p} : reporter'[q] = reporter[q]
      BY <1>5, <2>2 DEF ReportsRight
    <2>4. counted' \in [Lines -> Nat] /\ \A k \in Lines \ {l} : counted'[k] = counted[k]
      BY <1>5, <2>2 DEF ReportsRight
    <2>5. l \notin hurt => counted'[l] <= 1
      BY <1>5, <2>1, <2>2 DEF ReportsRight
    <2>6. ASSUME NEW k \in Lines \ hurt', k # l
          PROVE  /\ counted'[k] <= 1
                 /\ counted'[k] = 1 => \/ k \in reports'
                                       \/ k \in remembers' /\ \E q \in Reporters : reporter'[q] = <<k, "insert">>
                 /\ \A q \in Reporters : reporter'[q] = <<k, "create">> => counted'[k] = 0 \/ k \in remembers'
      <3>1. counted'[k] = counted[k] /\ k \in Lines \ hurt /\ k \in Lines \ {l}
        BY <2>2, <2>4, <2>6
      <3>2. \A s, q : q \in Reporters /\ reporter[q] = <<k, s>> => reporter'[q] = <<k, s>>
        BY <2>1, <2>3, <2>6
      <3>3. \A q \in Reporters : reporter'[q] = <<k, "create">> => reporter[q] = <<k, "create">>
        BY <2>3
      <3>4. /\ counted[k] <= 1
            /\ counted[k] = 1 => \/ k \in reports
                                 \/ k \in remembers /\ \E q \in Reporters : reporter[q] = <<k, "insert">>
            /\ \A q \in Reporters : reporter[q] = <<k, "create">> => counted[k] = 0 \/ k \in remembers
        BY <1>5, <3>1 DEF ReportsRight
      <3>5. reports' = reports /\ remembers \subseteq remembers'
        BY <2>2
      <3>. QED
        BY <3>1, <3>2, <3>3, <3>4, <3>5
    <2>7. l \in remembers' /\ \E q \in Reporters : reporter'[q] = <<l, "insert">>
      BY <2>2, <2>3
    <2>8. \A k \in Lines \ hurt' :
            /\ counted'[k] <= 1
            /\ counted'[k] = 1 => \/ k \in reports'
                                  \/ k \in remembers' /\ \E q \in Reporters : reporter'[q] = <<k, "insert">>
            /\ \A q \in Reporters : reporter'[q] = <<k, "create">> => counted'[k] = 0 \/ k \in remembers'
      BY <2>2, <2>5, <2>6, <2>7
    <2>. QED
      BY <2>3, <2>4, <2>8 DEF ReportsRight
  <1>10. ASSUME NEW p \in Reporters, InsertReport(p) PROVE ReportsRight'
    <2>1. PICK l \in Lines : reporter[p] = <<l, "insert">>
      BY <1>5, <1>10 DEF ReportsRight, InsertReport
    <2>2. /\ reporter' = [reporter EXCEPT ![p] = << >>] /\ UNCHANGED <<counted, remembers>>
          /\ \/ reports' = reports \cup {l} /\ UNCHANGED hurt
             \/ hurt' = hurt \cup {l} /\ UNCHANGED reports
      BY <1>10, <2>1 DEF InsertReport
    <2>3. /\ reporter' \in [Reporters -> {<< >>} \cup (Lines \X {"create", "insert"})] /\ reporter'[p] = << >>
          /\ \A q \in Reporters \ {p} : reporter'[q] = reporter[q]
      BY <1>5, <2>2 DEF ReportsRight
    <2>4. ASSUME NEW k \in Lines \ hurt'
          PROVE  /\ counted[k] <= 1
                 /\ counted[k] = 1 => \/ k \in reports'
                                      \/ k \in remembers /\ \E q \in Reporters : reporter'[q] = <<k, "insert">>
                 /\ \A q \in Reporters : reporter'[q] = <<k, "create">> => counted[k] = 0 \/ k \in remembers
      <3>1. k \in Lines \ hurt /\ (k = l => k \in reports') /\ reports \subseteq reports'
        BY <2>2
      <3>2. \A q \in Reporters : k # l /\ reporter[q] = <<k, "insert">> => reporter'[q] = <<k, "insert">>
        BY <2>1, <2>3
      <3>3. \A q \in Reporters : reporter'[q] = <<k, "create">> => reporter[q] = <<k, "create">>
        BY <1>6, <2>3
      <3>. QED
        BY <1>5, <3>1, <3>2, <3>3 DEF ReportsRight
    <2>. QED
      BY <1>5, <2>2, <2>3, <2>4 DEF ReportsRight
  <1>11. ASSUME NEW p \in Reporters, NEW l \in Lines, BeginReport(p, l) PROVE ReportsRight'
    <2>1. /\ l \notin reports /\ reporter[p] = << >> /\ reporter' = [reporter EXCEPT ![p] = <<l, "create">>]
          /\ UNCHANGED <<reports, counted, remembers, hurt>>
      BY <1>11 DEF BeginReport
    <2>2. /\ reporter' \in [Reporters -> {<< >>} \cup (Lines \X {"create", "insert"})] /\ reporter'[p] = <<l, "create">>
          /\ \A q \in Reporters \ {p} : reporter'[q] = reporter[q]
      BY <1>5, <2>1 DEF ReportsRight
    <2>3. \A k, q : q \in Reporters /\ reporter[q] = <<k, "insert">> => reporter'[q] = <<k, "insert">>
      BY <1>6, <2>1, <2>2
    <2>4. l \notin hurt => counted[l] = 0 \/ l \in remembers
      BY <1>5, <2>1 DEF ReportsRight
    <2>5. \A k, q : q \in Reporters /\ reporter'[q] = <<k, "create">> => k = l \/ reporter[q] = <<k, "create">>
      BY <2>2
    <2>. QED
      BY <1>5, <2>1, <2>2, <2>3, <2>4, <2>5 DEF ReportsRight
  <1>. QED
    BY <1>7, <1>8, <1>9, <1>10, <1>11

\* For any tenants, bots, runs that overlap, deaths and days: a tenant whose
\* balance the runtime or tier debit of a run used up has no active bot when
\* the runs are over, a dividend that has begun reaches every active tenant,
\* and a summary is counted once, each unless a run died half-way
\* (runtime-cron.ts, dividend-cron.ts, usage-report-writer.ts).
THEOREM BillingIsSafe == BillingSpec => []BillingSafe
  <1>1. BillInv /\ [BillingNext]_billingVars => BillInv'
    <2>. SUFFICES ASSUME BillInv, [BillingNext]_billingVars PROVE BillInv'
      OBVIOUS
    <2>1. CASE UNCHANGED billingVars
      <3>1. BillTypes' /\ OwedRight'
        BY <2>1 DEF billingVars, BillInv, BillTypes, OwedRight, listIds
      <3>2. DividendRight'
        BY <2>1, DividendRests DEF billingVars, dividendRef
      <3>3. ReportsRight'
        BY <2>1, ReportsRest DEF billingVars
      <3>. QED
        BY <3>1, <3>2, <3>3 DEF BillInv
    <2>2. CASE BillingNext
      BY <2>2, RunSteps, DebitSteps, OtherSteps, DividendSteps, ReportSteps DEF BillingNext
    <2>. QED
      BY <2>1, <2>2
  <1>2. BillInv => BillingSafe
    <2>. SUFFICES ASSUME BillInv PROVE BillingSafe
      OBVIOUS
    <2>1. ExhaustedIsSuspended
      <3>. SUFFICES ASSUME era.hook, \A r \in CronRuns : cron[r].pc = "idle", NEW t \in owes
                    PROVE  listIds(t, "active") = {}
        BY DEF ExhaustedIsSuspended
      <3>1. \A r \in CronRuns : ~Suspends(cron[r], t, tbot)
        BY DEF Suspends
      <3>. QED
        BY <3>1 DEF BillInv, OwedRight
    <2>2. DividendReachesAll
      <3>1. \A p : payer[p] = NoPayer => \A t : ~Remains(p, t)
        BY DEF Remains, NoPayer
      <3>. QED
        BY <3>1 DEF DividendReachesAll, BillInv, DividendRight
    <2>3. ReportedOnce
      BY DEF ReportedOnce, BillInv, ReportsRight
    <2>. QED
      BY <2>1, <2>2, <2>3 DEF BillingSafe
  <1>. QED
    BY BillInitInv, <1>1, <1>2, PTL DEF BillingSpec

=============================================================================
