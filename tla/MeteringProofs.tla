--------------------------- MODULE MeteringProofs ----------------------------
(***************************************************************************)
(* Proofs about the three parts of metering, for every value of their      *)
(* constants: no metered event gets lost (MeterEmitter), every one that is *)
(* in time is counted, and once if the runs do not overlap                 *)
(* (MeterAggregator), and a top-up credits what was charged, once          *)
(* (UsageTopup).                                                           *)
(***************************************************************************)
EXTENDS MeterEmitter, MeterAggregator, UsageTopup, FiniteSetTheorems, WellFoundedInduction, TLAPS

(***************************************************************************)
(* The emitter: every set of events, number of flushes, batch size, retry  *)
(* limit and bound on deaths and failures.                                 *)
(***************************************************************************)
-----------------------------------------------------------------------------
(* The inductive invariant                                                  *)

\* A call that is not in flight holds nothing, and only one that has
\* dead-lettered events holds some to retry.
FlushShape ==
    \A f \in Flushers :
        /\ pc[f] = "idle" => batch[f] = {}
        /\ pc[f] # "removeDead" => retry[f] = {}

\* A dead process has no memory, and no emit() under way.
DeadIsEmpty ==
    ~up =>
        /\ buffer = {} /\ todo = {} /\ fresh = {} /\ stale = {}
        /\ \A f \in Flushers : pc[f] = "idle"
        /\ \A e \in Events : stage[e] \notin {"called", "logged"}

Done == {e \in Events : stage[e] = "done"}

\* Before emit() has handed an event over it is in the log at most.
HandedOver ==
    /\ buffer \cup todo \cup fresh \cup db \cup dlq \cup torn \subseteq Done
    /\ \A f \in Flushers : batch[f] \cup retry[f] \subseteq Done
    /\ \A e \in wal : stage[e] \in {"logged", "done"}

\* What a call is about to take out of the log is safe elsewhere.
RemovedIsSafe ==
    /\ \A f \in Flushers :
         /\ pc[f] = "remove" => batch[f] \subseteq db
         /\ pc[f] = "removeDead" => batch[f] \subseteq dlq
    /\ stale \subseteq db

\* Without a failure, nothing that is still to be written is in the table.
UnwrittenIsNew ==
    failures = 0 =>
        /\ dlq = {}
        /\ (buffer \cup fresh) \cap db = {}
        /\ \A f \in Flushers :
             /\ pc[f] # "removeDead"
             /\ pc[f] = "insert" => batch[f] \cap db = {}

EmitterInv ==
    /\ EmitterTypeOK
    /\ FlushShape /\ DeadIsEmpty /\ HandedOver /\ RemovedIsSafe
    /\ OnlyTornRewriteLoses /\ LogIsTracked /\ OneCopy
    /\ UnwrittenIsNew

\* InMemory, event by event.
Held(e) ==
    \/ e \in buffer \cup todo \cup fresh
    \/ \E f \in Flushers : e \in batch[f] \cup retry[f]
    \/ e \in Events /\ stage[e] = "logged"

MemoryIsHeld == \A e : e \in InMemory <=> Held(e)

\* An event is in memory exactly when one of the lists of the process holds
\* it.
LEMMA HeldInMemory == MemoryIsHeld
  <1>1. \A e : e \in InFlight <=> \E f \in Flushers : e \in batch[f] \cup retry[f]
    BY DEF InFlight
  <1>. QED
    BY <1>1 DEF InMemory, MemoryIsHeld, Held

\* The types, one by one.
LEMMA Types ==
    ASSUME EmitterTypeOK
    PROVE  /\ wal \in SUBSET Events /\ db \in SUBSET Events /\ dlq \in SUBSET Events
           /\ torn \in SUBSET Events /\ buffer \in SUBSET Events /\ todo \in SUBSET Events
           /\ fresh \in SUBSET Events /\ stale \in SUBSET Events
           /\ up \in BOOLEAN /\ closed \in BOOLEAN
  BY DEF EmitterTypeOK

\* Initially there is no event.
LEMMA EmitterInvInit == EmitterInit => EmitterInv
  <1>. SUFFICES ASSUME EmitterInit PROVE EmitterInv
    OBVIOUS
  <1>1. EmitterTypeOK
    <2>1. crashes \in 0..MaxCrashes /\ failures \in 0..MaxFailures
      BY EmitterAssumption DEF EmitterInit
    <2>2. retryCount \in [Events -> 0..(MaxRetries - 1)]
      BY EmitterAssumption DEF EmitterInit
    <2>. QED
      BY <2>1, <2>2 DEF EmitterInit, EmitterTypeOK, Stages, PCs
  <1>. QED
    BY <1>1 DEF EmitterInit, EmitterInv, FlushShape, DeadIsEmpty, HandedOver, RemovedIsSafe,
                OnlyTornRewriteLoses, LogIsTracked, OneCopy, UnwrittenIsNew

-----------------------------------------------------------------------------
(* A flush() begins                                                         *)

\* The content of a flush that begins leaves the buffer, or where else it was,
\* for the batch of a call that held nothing.
LEMMA BeginEffect ==
    ASSUME EmitterTypeOK, FlushShape, NEW f \in Flushers, NEW content \in SUBSET Events,
           BeginFlush(f, content)
    PROVE  /\ pc[f] = "idle" /\ batch[f] = {} /\ retry[f] = {}
           /\ pc'[f] = "insert" /\ batch'[f] = content
           /\ \A g \in Flushers \ {f} : pc'[g] = pc[g] /\ batch'[g] = batch[g]
           /\ pc' \in [Flushers -> PCs] /\ batch' \in [Flushers -> SUBSET Events]
           /\ retry' = retry /\ buffer' = {}
  BY DEF BeginFlush, EmitterTypeOK, FlushShape, PCs

\* Where the content comes from: all of the buffer, and perhaps what the replay
\* found missing or the event of one emit(), which ends with this.
HandsOver(content) ==
    /\ buffer \subseteq content /\ fresh' \subseteq fresh
    /\ \A e \in content : e \in buffer \cup fresh \/ (e \in Events /\ stage[e] = "logged")
    /\ \A e \in fresh : e \in fresh' \/ e \in content
    /\ \A e \in content : e \notin fresh'
    /\ \A e \in Events : \/ stage'[e] = stage[e] /\ (e \in content => e \in buffer \cup fresh)
                         \/ stage[e] = "logged" /\ stage'[e] = "done" /\ e \in content

\* Taking the buffer for a flush keeps the invariant.
LEMMA BeginInv ==
    ASSUME EmitterInv, up, NEW f \in Flushers, NEW content \in SUBSET Events,
           BeginFlush(f, content), HandsOver(content),
           UNCHANGED <<wal, db, dlq, torn, up, retryCount, todo, stale, crashes, failures>>,
           closed' \in BOOLEAN, stage' \in [Events -> Stages],
           replay' \in {"lookup", "cleanup", "done"} \cup Flushers
    PROVE  EmitterInv'
  <1>1. /\ EmitterTypeOK /\ FlushShape /\ DeadIsEmpty /\ HandedOver /\ RemovedIsSafe
        /\ OnlyTornRewriteLoses /\ LogIsTracked /\ OneCopy /\ UnwrittenIsNew
    BY DEF EmitterInv
  <1>2. /\ pc[f] = "idle" /\ batch[f] = {} /\ retry[f] = {}
        /\ pc'[f] = "insert" /\ batch'[f] = content
        /\ \A g \in Flushers \ {f} : pc'[g] = pc[g] /\ batch'[g] = batch[g]
        /\ pc' \in [Flushers -> PCs] /\ batch' \in [Flushers -> SUBSET Events]
        /\ retry' = retry /\ buffer' = {}
    BY <1>1, BeginEffect
  <1>. USE DEF HandsOver
  <1>5. EmitterTypeOK'
    BY <1>1, <1>2 DEF EmitterTypeOK
  <1>6. FlushShape' /\ DeadIsEmpty' /\ RemovedIsSafe'
    BY <1>1, <1>2 DEF FlushShape, DeadIsEmpty, RemovedIsSafe
  <1>7. HandedOver'
    <2>1. \A e \in Events : stage[e] = "done" => stage'[e] = "done"
      OBVIOUS
    <2>2. Done \subseteq Done' /\ content \subseteq Done'
      BY <1>1, <2>1, Types DEF HandedOver, Done
    <2>3. \A e \in wal : stage'[e] \in {"logged", "done"}
      BY <1>1, Types DEF HandedOver
    <2>4. buffer' \cup todo' \cup fresh' \cup db' \cup dlq' \cup torn' \subseteq Done'
      BY <1>1, <1>2, <2>2 DEF HandedOver
    <2>5. \A g \in Flushers : batch'[g] \cup retry'[g] \subseteq Done'
      BY <1>1, <1>2, <2>2 DEF HandedOver
    <2>. QED
      BY <2>3, <2>4, <2>5 DEF HandedOver
  <1>8. OnlyTornRewriteLoses'
    BY <1>1 DEF OnlyTornRewriteLoses
  <1>9. LogIsTracked'
    <2>. SUFFICES ASSUME NEW e \in wal, e \notin db \cup dlq PROVE e \in InMemory'
      BY DEF LogIsTracked
    <2>1. e \in InMemory /\ e \in Events
      BY <1>1, Types DEF LogIsTracked
    <2>2. \/ e \in content \cup todo \cup fresh'
          \/ \E g \in Flushers \ {f} : e \in batch[g] \cup retry[g]
          \/ stage'[e] = "logged"
      BY <1>2, <2>1, HeldInMemory DEF MemoryIsHeld, Held
    <2>3. \/ e \in todo' \cup fresh'
          \/ \E g \in Flushers : e \in batch'[g] \cup retry'[g]
          \/ stage'[e] = "logged"
      BY <1>2, <2>2
    <2>4. MemoryIsHeld'
      BY HeldInMemory, PTL
    <2>. QED
      BY <2>1, <2>3, <2>4 DEF MemoryIsHeld, Held
  <1>10. OneCopy'
    <2>1. \A e \in content : /\ e \notin todo
                             /\ \A g \in Flushers : e \notin batch[g] \cup retry[g]
      BY <1>1 DEF OneCopy, HandedOver, Done
    <2>. QED
      BY <1>1, <1>2, <2>1 DEF OneCopy
  <1>11. UnwrittenIsNew'
    <2>1. failures = 0 => content \cap db = {}
      BY <1>1 DEF UnwrittenIsNew, HandedOver, Done
    <2>. QED
      BY <1>1, <1>2, <2>1 DEF UnwrittenIsNew
  <1>. QED
    BY <1>5, <1>6, <1>7, <1>8, <1>9, <1>10, <1>11 DEF EmitterInv

\* The timer, a full buffer, close() and the replay begin a flush.
LEMMA BeginSteps ==
    ASSUME EmitterInv,
           \/ \E f \in Flushers : TimerFlush(f)
           \/ \E e \in Events : EmitBuffer(e)
           \/ Close \/ ReplayFlush
    PROVE  EmitterInv'
  <1>1. EmitterTypeOK /\ HandedOver /\ OneCopy
    BY DEF EmitterInv
  <1>. USE Types DEF disk, memory, replaying, bounds, flushing
  <1>2. buffer \in SUBSET Events /\ fresh \in SUBSET Events /\ stage \in [Events -> Stages]
    BY <1>1, Types DEF EmitterTypeOK
  <1>3. /\ \A e \in buffer : e \notin fresh
        /\ replay \in {"lookup", "cleanup", "done"} \cup Flushers
    BY <1>1 DEF OneCopy, EmitterTypeOK
  <1>4. ASSUME NEW f \in Flushers, TimerFlush(f) PROVE EmitterInv'
    <2>1. HandsOver(buffer)
      BY <1>2, <1>3, <1>4 DEF TimerFlush, HandsOver
    <2>. QED
      BY <1>1, <1>2, <1>3, <1>4, <2>1, BeginInv DEF TimerFlush
  <1>5. ASSUME NEW e \in Events, EmitBuffer(e) PROVE EmitterInv'
    <2>. DEFINE content == buffer \cup {e}
    <2>1. e \notin fresh /\ e \notin buffer /\ e \notin todo
          /\ \A f \in Flushers : e \notin batch[f] \cup retry[f]
      BY <1>1, <1>5 DEF HandedOver, Done, EmitBuffer
    <2>2. HandsOver(content) /\ content \in SUBSET Events
      BY <1>2, <1>3, <1>5, <2>1 DEF EmitBuffer, HandsOver
    <2>3. stage' \in [Events -> Stages]
      BY <1>2, <1>5 DEF EmitBuffer, Stages
    <2>4. CASE \E f \in Flushers : BeginFlush(f, content)
      BY <1>1, <1>3, <1>5, <2>2, <2>3, <2>4, BeginInv DEF EmitBuffer
    <2>5. CASE buffer' = content /\ UNCHANGED flushing
      <3>1. /\ EmitterTypeOK /\ FlushShape /\ DeadIsEmpty /\ HandedOver /\ RemovedIsSafe
            /\ OnlyTornRewriteLoses /\ LogIsTracked /\ OneCopy /\ UnwrittenIsNew
        BY DEF EmitterInv
      <3>2. UNCHANGED <<wal, db, dlq, torn, up, closed, retryCount, todo, fresh, stale, replay,
                        crashes, failures, pc, batch, retry>>
        BY <1>5, <2>5 DEF EmitBuffer
      <3>3. /\ up /\ stage[e] = "logged" /\ stage'[e] = "done"
            /\ \A d \in Events \ {e} : stage'[d] = stage[d]
        BY <1>2, <1>5 DEF EmitBuffer
      <3>4. EmitterTypeOK'
        BY <1>2, <2>2, <2>3, <2>5, <3>1, <3>2 DEF EmitterTypeOK
      <3>5. FlushShape' /\ DeadIsEmpty' /\ RemovedIsSafe'
        BY <3>1, <3>2, <3>3 DEF FlushShape, DeadIsEmpty, RemovedIsSafe
      <3>6. HandedOver'
        <4>1. Done' = Done \cup {e}
          BY <3>3 DEF Done
        <4>2. \A d \in wal : stage'[d] \in {"logged", "done"}
          BY <3>1, <3>3, Types DEF HandedOver
        <4>. QED
          BY <2>5, <3>1, <3>2, <4>1, <4>2 DEF HandedOver
      <3>7. OnlyTornRewriteLoses'
        BY <3>1, <3>2, <3>3 DEF OnlyTornRewriteLoses
      <3>8. LogIsTracked'
        <4>1. \A d \in Events : Held(d) => Held(d)'
          BY <2>5, <3>2, <3>3 DEF Held
        <4>2. MemoryIsHeld /\ MemoryIsHeld'
          BY HeldInMemory, PTL
        <4>. QED
          BY <3>1, <3>2, <4>1, <4>2 DEF LogIsTracked, MemoryIsHeld
      <3>9. OneCopy'
        BY <2>1, <2>5, <3>1, <3>2 DEF OneCopy
      <3>10. UnwrittenIsNew'
        BY <2>5, <3>1, <3>2, <3>3 DEF UnwrittenIsNew, HandedOver, Done
      <3>. QED
        BY <3>4, <3>5, <3>6, <3>7, <3>8, <3>9, <3>10 DEF EmitterInv
    <2>. QED
      BY <1>5, <2>4, <2>5 DEF EmitBuffer
  <1>6. CASE Close
    <2>1. up /\ closed' = TRUE
          /\ UNCHANGED <<wal, db, dlq, torn, up, stage, retryCount, todo, fresh, stale, replay, crashes, failures>>
      BY <1>6 DEF Close
    <2>2. CASE \E f \in Flushers : BeginFlush(f, buffer)
      <3>1. HandsOver(buffer)
        BY <1>2, <1>3, <2>1 DEF HandsOver
      <3>. QED
        BY <1>1, <1>2, <1>3, <2>1, <2>2, <3>1, BeginInv
    <2>3. CASE UNCHANGED <<buffer, flushing>>
      <3>1. MemoryIsHeld /\ MemoryIsHeld' /\ \A d \in Events : Held(d) => Held(d)'
        <4>1. MemoryIsHeld /\ MemoryIsHeld'
          BY HeldInMemory, PTL
        <4>2. \A d \in Events : Held(d) => Held(d)'
          BY <2>1, <2>3 DEF Held
        <4>. QED
          BY <4>1, <4>2
      <3>2. LogIsTracked'
        BY <1>1, <2>1, <3>1 DEF EmitterInv, LogIsTracked, MemoryIsHeld
      <3>. QED
        BY <2>1, <2>3, <3>2
           DEF EmitterInv, EmitterTypeOK, FlushShape, DeadIsEmpty, HandedOver, Done, RemovedIsSafe,
               OnlyTornRewriteLoses, OneCopy, UnwrittenIsNew
    <2>. QED
      BY <1>6, <2>2, <2>3 DEF Close
  <1>7. CASE ReplayFlush
    <2>. DEFINE content == buffer \cup fresh
    <2>1. HandsOver(content) /\ content \in SUBSET Events
      BY <1>2, <1>3, <1>7 DEF ReplayFlush, HandsOver
    <2>. QED
      BY <1>1, <1>2, <1>7, <2>1, BeginInv DEF ReplayFlush
  <1>. QED
    BY <1>4, <1>5, <1>6, <1>7

-----------------------------------------------------------------------------
(* A flush() goes on                                                        *)

\* A batch that failed: what is dead goes to the dead-letter queue and out of
\* the log, the rest back to the buffer, at once or with the next step.
LEMMA FailEffect ==
    ASSUME EmitterTypeOK, FlushShape, NEW f \in Flushers, pc[f] \in {"insert", "remove"}, HandleFailure(f)
    PROVE  \E dead \in SUBSET batch[f] :
             /\ dlq' = dlq \cup dead
             /\ retryCount' \in [Events -> 0..(MaxRetries - 1)]
             /\ pc' \in [Flushers -> PCs] /\ batch' \in [Flushers -> SUBSET Events]
             /\ retry' \in [Flushers -> SUBSET Events]
             /\ replay' \in {"lookup", "cleanup", "done"} \cup Flushers
             /\ \A g \in Flushers \ {f} :
                  pc'[g] = pc[g] /\ batch'[g] = batch[g] /\ retry'[g] = retry[g]
             /\ \/ /\ dead = {} /\ buffer' = batch[f] \cup buffer
                   /\ pc'[f] = "idle" /\ batch'[f] = {} /\ retry'[f] = {}
                \/ /\ buffer' = buffer
                   /\ pc'[f] = "removeDead" /\ batch'[f] = dead /\ retry'[f] = batch[f] \ dead
  <1>. DEFINE dead == {e \in batch[f] : retryCount[e] + 1 >= MaxRetries}
  <1>1. dead \in SUBSET batch[f] /\ dlq' = dlq \cup dead /\ batch[f] \subseteq Events /\ retry[f] = {}
    BY DEF HandleFailure, EmitterTypeOK, FlushShape
  <1>2. retryCount' \in [Events -> 0..(MaxRetries - 1)]
    <2>. SUFFICES ASSUME NEW e \in Events
                  PROVE  (CASE e \in dead -> 0
                            [] e \in batch[f] \ dead -> retryCount[e] + 1
                            [] OTHER -> retryCount[e]) \in 0..(MaxRetries - 1)
      BY DEF HandleFailure
    <2>1. retryCount[e] \in 0..(MaxRetries - 1) /\ MaxRetries \in Nat \ {0}
      BY EmitterAssumption DEF EmitterTypeOK
    <2>2. CASE e \in dead
      BY <2>1, <2>2
    <2>3. CASE e \in batch[f] /\ e \notin dead
      <3>1. ~(retryCount[e] + 1 >= MaxRetries)
        BY <2>3
      <3>2. retryCount[e] + 1 \in 0..(MaxRetries - 1)
        BY <2>1, <3>1
      <3>. HIDE DEF dead
      <3>. QED
        BY <2>3, <3>2
    <2>4. CASE e \notin batch[f] /\ e \notin dead
      <3>. HIDE DEF dead
      <3>. QED
        BY <2>1, <2>4
    <2>. QED
      BY <2>2, <2>3, <2>4
  <1>3. CASE dead = {}
    BY SMTT(30), <1>1, <1>2, <1>3 DEF HandleFailure, FlushReturns, EmitterTypeOK, PCs
  <1>4. CASE dead # {}
    BY SMTT(30), <1>1, <1>2, <1>4 DEF HandleFailure, FlushReturns, EmitterTypeOK, PCs
  <1>. QED
    BY <1>3, <1>4

\* A failed batch keeps the invariant, whether or not it had reached the table.
LEMMA FailInv ==
    ASSUME EmitterInv, up, NEW f \in Flushers, pc[f] \in {"insert", "remove"}, HandleFailure(f),
           UNCHANGED <<wal, torn, up, closed, stage, todo, fresh, stale, crashes>>,
           failures' \in 0..MaxFailures, failures' # 0,
           db \subseteq db', db' \subseteq db \cup batch[f]
    PROVE  EmitterInv'
  <1>1. /\ EmitterTypeOK /\ FlushShape /\ DeadIsEmpty /\ HandedOver /\ RemovedIsSafe
        /\ OnlyTornRewriteLoses /\ LogIsTracked /\ OneCopy
    BY DEF EmitterInv
  <1>2. PICK dead \in SUBSET batch[f] :
             /\ dlq' = dlq \cup dead
             /\ retryCount' \in [Events -> 0..(MaxRetries - 1)]
             /\ pc' \in [Flushers -> PCs] /\ batch' \in [Flushers -> SUBSET Events]
             /\ retry' \in [Flushers -> SUBSET Events]
             /\ replay' \in {"lookup", "cleanup", "done"} \cup Flushers
             /\ \A g \in Flushers \ {f} :
                  pc'[g] = pc[g] /\ batch'[g] = batch[g] /\ retry'[g] = retry[g]
             /\ \/ /\ dead = {} /\ buffer' = batch[f] \cup buffer
                   /\ pc'[f] = "idle" /\ batch'[f] = {} /\ retry'[f] = {}
                \/ /\ buffer' = buffer
                   /\ pc'[f] = "removeDead" /\ batch'[f] = dead /\ retry'[f] = batch[f] \ dead
    BY <1>1, FailEffect
  <1>3. batch[f] \subseteq Events /\ retry[f] = {} /\ batch[f] \subseteq Done
    BY <1>1 DEF EmitterTypeOK, FlushShape, HandedOver
  <1>4. EmitterTypeOK'
    <2>1. buffer' \in SUBSET Events /\ db' \in SUBSET Events /\ dlq' \in SUBSET Events
      BY <1>1, <1>2, <1>3, Types
    <2>. QED
      BY <1>1, <1>2, <2>1 DEF EmitterTypeOK
  <1>5. FlushShape' /\ DeadIsEmpty'
    BY <1>1, <1>2 DEF FlushShape, DeadIsEmpty
  <1>6. RemovedIsSafe'
    BY <1>1, <1>2 DEF RemovedIsSafe
  <1>7. HandedOver'
    <2>1. Done' = Done
      BY DEF Done
    <2>2. buffer' \cup dlq' \cup db' \subseteq Done
      BY <1>1, <1>2, <1>3 DEF HandedOver
    <2>3. \A g \in Flushers : batch'[g] \cup retry'[g] \subseteq Done
      BY <1>1, <1>2, <1>3 DEF HandedOver
    <2>. QED
      BY <1>1, <2>1, <2>2, <2>3 DEF HandedOver
  <1>8. OnlyTornRewriteLoses'
    BY <1>1, <1>2 DEF OnlyTornRewriteLoses
  <1>9. LogIsTracked'
    <2>1. \A e : Held(e) => Held(e)'
      <3>. SUFFICES ASSUME NEW e, Held(e) PROVE Held(e)'
        OBVIOUS
      <3>1. CASE e \in batch[f]
        BY <1>2, <3>1 DEF Held
      <3>2. CASE e \in buffer \cup todo \cup fresh
        BY <1>2, <3>2 DEF Held
      <3>3. ASSUME NEW g \in Flushers \ {f}, e \in batch[g] \cup retry[g] PROVE Held(e)'
        BY <1>2, <3>3 DEF Held
      <3>4. CASE e \in Events /\ stage[e] = "logged"
        BY <3>4 DEF Held
      <3>. QED
        BY <1>3, <3>1, <3>2, <3>3, <3>4 DEF Held
    <2>2. MemoryIsHeld /\ MemoryIsHeld'
      BY HeldInMemory, PTL
    <2>. QED
      BY <1>1, <1>2, <2>1, <2>2 DEF LogIsTracked, MemoryIsHeld
  <1>10. OneCopy'
    BY <1>1, <1>2, <1>3 DEF OneCopy
  <1>11. UnwrittenIsNew'
    BY DEF UnwrittenIsNew
  <1>. QED
    BY <1>4, <1>5, <1>6, <1>7, <1>8, <1>9, <1>10, <1>11 DEF EmitterInv

\* The end of a flush: its batch leaves the log, being safe elsewhere.
LEMMA RemoveInv ==
    ASSUME EmitterInv, up, NEW f \in Flushers, pc[f] \in {"remove", "removeDead"},
           wal' = wal \ batch[f], buffer' = retry[f] \cup buffer,
           pc' = [pc EXCEPT ![f] = "idle"], batch' = [batch EXCEPT ![f] = {}],
           retry' = [retry EXCEPT ![f] = {}],
           retryCount' \in [Events -> 0..(MaxRetries - 1)],
           replay' \in {"lookup", "cleanup", "done"} \cup Flushers,
           UNCHANGED <<db, dlq, torn, up, closed, stage, todo, fresh, stale, crashes, failures>>
    PROVE  EmitterInv'
  <1>1. /\ EmitterTypeOK /\ FlushShape /\ DeadIsEmpty /\ HandedOver /\ RemovedIsSafe
        /\ OnlyTornRewriteLoses /\ LogIsTracked /\ OneCopy /\ UnwrittenIsNew
    BY DEF EmitterInv
  <1>2. /\ pc'[f] = "idle" /\ batch'[f] = {} /\ retry'[f] = {}
        /\ \A g \in Flushers \ {f} : pc'[g] = pc[g] /\ batch'[g] = batch[g] /\ retry'[g] = retry[g]
    BY <1>1 DEF EmitterTypeOK
  <1>3. /\ batch[f] \subseteq Events /\ retry[f] \subseteq Events /\ retry[f] \subseteq Done
        /\ batch[f] \subseteq db \cup dlq
    BY <1>1 DEF EmitterTypeOK, HandedOver, RemovedIsSafe
  <1>4. EmitterTypeOK'
    <2>1. buffer' \in SUBSET Events /\ wal' \in SUBSET Events
      BY <1>1, <1>3, Types
    <2>. QED
      BY <1>1, <2>1 DEF EmitterTypeOK, PCs
  <1>5. FlushShape' /\ DeadIsEmpty' /\ RemovedIsSafe'
    BY <1>1, <1>2 DEF FlushShape, DeadIsEmpty, RemovedIsSafe
  <1>6. HandedOver'
    BY <1>1, <1>2, <1>3 DEF HandedOver, Done
  <1>7. OnlyTornRewriteLoses'
    BY <1>1, <1>3 DEF OnlyTornRewriteLoses
  <1>8. LogIsTracked'
    <2>1. \A e : Held(e) => e \in batch[f] \/ Held(e)'
      BY <1>2 DEF Held
    <2>2. MemoryIsHeld /\ MemoryIsHeld'
      BY HeldInMemory, PTL
    <2>. QED
      BY <1>1, <1>3, <2>1, <2>2 DEF LogIsTracked, MemoryIsHeld
  <1>9. OneCopy'
    BY <1>1, <1>2 DEF OneCopy
  <1>10. UnwrittenIsNew'
    BY <1>1, <1>2 DEF UnwrittenIsNew, FlushShape
  <1>. QED
    BY <1>4, <1>5, <1>6, <1>7, <1>8, <1>9, <1>10 DEF EmitterInv

\* A flush in flight goes on.
LEMMA FlushSteps ==
    ASSUME EmitterInv, NEW f \in Flushers,
           \/ InsertOk(f) \/ InsertConflict(f) \/ InsertFails(f)
           \/ RemoveFlushed(f) \/ RemoveFlushedFails(f) \/ RemoveDead(f)
    PROVE  EmitterInv'
  <1>1. /\ EmitterTypeOK /\ FlushShape /\ DeadIsEmpty /\ HandedOver /\ RemovedIsSafe
        /\ OnlyTornRewriteLoses /\ LogIsTracked /\ OneCopy /\ UnwrittenIsNew
    BY DEF EmitterInv
  <1>. USE DEF disk, memory, replaying, bounds
  <1>2. batch[f] \in SUBSET Events /\ failures \in 0..MaxFailures /\ MaxFailures \in Nat
    BY <1>1, EmitterAssumption DEF EmitterTypeOK
  <1>3. CASE InsertOk(f)
    <2>1. /\ pc[f] = "insert" /\ pc'[f] = "remove" /\ \A g \in Flushers \ {f} : pc'[g] = pc[g]
          /\ db' = db \cup batch[f] /\ pc' \in [Flushers -> PCs]
      BY <1>1, <1>3 DEF InsertOk, EmitterTypeOK, PCs
    <2>2. UNCHANGED <<wal, dlq, torn, up, closed, stage, buffer, retryCount, batch, retry,
                      todo, fresh, stale, replay, crashes, failures>>
      BY <1>3 DEF InsertOk
    <2>3. EmitterTypeOK'
      <3>1. db' \in SUBSET Events
        BY <1>1, <1>2, <2>1, Types
      <3>. QED
        BY <1>1, <2>1, <2>2, <3>1 DEF EmitterTypeOK
    <2>4. FlushShape' /\ DeadIsEmpty' /\ RemovedIsSafe' /\ OnlyTornRewriteLoses'
      BY <1>1, <1>3, <2>1, <2>2
         DEF FlushShape, DeadIsEmpty, RemovedIsSafe, OnlyTornRewriteLoses, InsertOk
    <2>5. HandedOver'
      BY <1>1, <2>1, <2>2 DEF HandedOver, Done
    <2>6. LogIsTracked'
      <3>1. \A e : Held(e) => Held(e)'
        BY <2>2 DEF Held
      <3>2. MemoryIsHeld /\ MemoryIsHeld'
        BY HeldInMemory, PTL
      <3>. QED
        BY <1>1, <2>1, <2>2, <3>1, <3>2 DEF LogIsTracked, MemoryIsHeld
    <2>7. OneCopy'
      BY <1>1, <2>2 DEF OneCopy
    <2>8. UnwrittenIsNew'
      <3>. SUFFICES ASSUME failures = 0
                    PROVE  /\ dlq = {} /\ (buffer \cup fresh) \cap db' = {}
                           /\ \A g \in Flushers : /\ pc'[g] # "removeDead"
                                                  /\ pc'[g] = "insert" => batch[g] \cap db' = {}
        BY <2>2 DEF UnwrittenIsNew
      <3>1. (buffer \cup fresh) \cap db' = {}
        BY <1>1, <2>1 DEF UnwrittenIsNew, OneCopy
      <3>2. \A g \in Flushers \ {f} : pc[g] = "insert" => batch[g] \cap db' = {}
        BY <1>1, <2>1 DEF UnwrittenIsNew, OneCopy
      <3>. QED
        BY <1>1, <2>1, <3>1, <3>2 DEF UnwrittenIsNew
    <2>. QED
      BY <2>3, <2>4, <2>5, <2>6, <2>7, <2>8 DEF EmitterInv
  <1>4. CASE InsertConflict(f)
    <2>1. failures # 0
      BY <1>1, <1>4 DEF InsertConflict, UnwrittenIsNew
    <2>. QED
      BY <1>2, <1>4, <2>1, FailInv DEF InsertConflict
  <1>5. CASE InsertFails(f)
    <2>1. failures' \in 0..MaxFailures /\ failures' # 0
      BY <1>2, <1>5 DEF InsertFails
    <2>2. db \subseteq db' /\ db' \subseteq db \cup batch[f]
      BY <1>5 DEF InsertFails
    <2>. QED
      BY <1>5, <2>1, <2>2, FailInv DEF InsertFails
  <1>6. CASE RemoveFlushedFails(f)
    <2>1. failures' \in 0..MaxFailures /\ failures' # 0
      BY <1>2, <1>6 DEF RemoveFlushedFails
    <2>. QED
      BY <1>6, <2>1, FailInv DEF RemoveFlushedFails
  <1>7. CASE RemoveFlushed(f)
    <2>1. retry[f] = {} /\ retry' = [retry EXCEPT ![f] = {}]
      BY <1>1, <1>7 DEF RemoveFlushed, FlushShape, EmitterTypeOK
    <2>2. retryCount' \in [Events -> 0..(MaxRetries - 1)]
      BY <1>1, <1>7, EmitterAssumption DEF RemoveFlushed, EmitterTypeOK
    <2>3. replay' \in {"lookup", "cleanup", "done"} \cup Flushers
      BY <1>1, <1>7 DEF RemoveFlushed, FlushReturns, EmitterTypeOK
    <2>4. buffer' = retry[f] \cup buffer
      BY <1>7, <2>1 DEF RemoveFlushed
    <2>. QED
      BY <1>7, <2>1, <2>2, <2>3, <2>4, RemoveInv DEF RemoveFlushed
  <1>8. CASE RemoveDead(f)
    <2>1. replay' \in {"lookup", "cleanup", "done"} \cup Flushers /\ retryCount' \in [Events -> 0..(MaxRetries - 1)]
      BY <1>1, <1>8 DEF RemoveDead, FlushReturns, EmitterTypeOK
    <2>. QED
      BY <1>8, <2>1, RemoveInv DEF RemoveDead
  <1>. QED
    BY <1>3, <1>4, <1>5, <1>6, <1>7, <1>8

-----------------------------------------------------------------------------
(* emit(), death, restart and replay                                        *)

\* An event that is emitted, and then logged, is nowhere else.
LEMMA EmitSteps ==
    ASSUME EmitterInv, NEW e \in Events, EmitCall(e) \/ EmitLog(e)
    PROVE  EmitterInv'
  <1>1. /\ EmitterTypeOK /\ FlushShape /\ DeadIsEmpty /\ HandedOver /\ RemovedIsSafe
        /\ OnlyTornRewriteLoses /\ LogIsTracked /\ OneCopy /\ UnwrittenIsNew
    BY DEF EmitterInv
  <1>2. /\ up /\ wal' \in {wal, wal \cup {e}} /\ stage[e] \in {"new", "called"}
        /\ stage' \in [Events -> Stages]
        /\ \A d \in Events \ {e} : stage'[d] = stage[d]
        /\ \/ wal' = wal /\ stage'[e] = "called"
           \/ wal' = wal \cup {e} /\ stage'[e] = "logged"
        /\ UNCHANGED <<db, dlq, torn, up, closed, buffer, retryCount, batch, retry, pc,
                       todo, fresh, stale, replay, crashes, failures>>
    BY <1>1 DEF EmitCall, EmitLog, EmitterTypeOK, Stages, disk, memory, flushing, replaying, bounds
  <1>3. EmitterTypeOK'
    BY <1>1, <1>2, Types DEF EmitterTypeOK
  <1>4. FlushShape' /\ DeadIsEmpty' /\ RemovedIsSafe' /\ OneCopy'
    BY <1>1, <1>2 DEF FlushShape, DeadIsEmpty, RemovedIsSafe, OneCopy
  <1>5. HandedOver'
    <2>1. Done' = Done
      BY <1>2 DEF Done
    <2>2. \A d \in wal' : stage'[d] \in {"logged", "done"}
      BY <1>1, <1>2, Types DEF HandedOver
    <2>. QED
      BY <1>1, <1>2, <2>1, <2>2 DEF HandedOver
  <1>6. OnlyTornRewriteLoses'
    BY <1>1, <1>2 DEF OnlyTornRewriteLoses
  <1>7. LogIsTracked'
    <2>1. \A d : Held(d) => Held(d)'
      BY <1>2 DEF Held
    <2>2. stage'[e] = "logged" => Held(e)'
      BY DEF Held
    <2>3. MemoryIsHeld /\ MemoryIsHeld'
      BY HeldInMemory, PTL
    <2>4. \A d \in wal' : (d = e /\ stage'[e] = "logged") \/ d \in wal
      BY <1>2
    <2>. QED
      BY <1>1, <1>2, <2>1, <2>2, <2>3, <2>4 DEF LogIsTracked, MemoryIsHeld
  <1>8. UnwrittenIsNew'
    BY <1>1, <1>2 DEF UnwrittenIsNew
  <1>. QED
    BY <1>3, <1>4, <1>5, <1>6, <1>7, <1>8 DEF EmitterInv

\* A death empties the memory, and the log at most of what it records as torn.
LEMMA DieInv ==
    ASSUME EmitterInv, Die, wal' \subseteq wal, torn \subseteq torn', torn' \subseteq torn \cup wal,
           \A e \in wal : e \in wal' \cup torn' \cup db \cup dlq,
           \A e \in torn' : e \in torn \/ stage'[e] = "done"
    PROVE  EmitterInv'
  <1>1. /\ EmitterTypeOK /\ FlushShape /\ DeadIsEmpty /\ HandedOver /\ RemovedIsSafe
        /\ OnlyTornRewriteLoses /\ LogIsTracked /\ OneCopy /\ UnwrittenIsNew
    BY DEF EmitterInv
  <1>2. /\ buffer' = {} /\ todo' = {} /\ fresh' = {} /\ stale' = {} /\ replay' = "done" /\ up' = FALSE
        /\ pc' = [f \in Flushers |-> "idle"]
        /\ batch' = [f \in Flushers |-> {}] /\ retry' = [f \in Flushers |-> {}]
        /\ retryCount' = [e \in Events |-> 0]
        /\ UNCHANGED <<db, dlq, closed, failures>>
    BY DEF Die
  <1>3. /\ stage' \in [Events -> Stages]
        /\ \A e \in Events : /\ stage'[e] \notin {"called", "logged"}
                             /\ stage[e] \in {"logged", "done"} <=> stage'[e] = "done"
    <2>. SUFFICES ASSUME NEW e \in Events
                  PROVE  /\ stage'[e] \in Stages /\ stage'[e] \notin {"called", "logged"}
                         /\ stage[e] \in {"logged", "done"} <=> stage'[e] = "done"
      BY DEF Die
    <2>1. stage[e] \in Stages
      BY <1>1 DEF EmitterTypeOK
    <2>2. stage'[e] = CASE stage[e] = "called" -> "dropped"
                        [] stage[e] = "logged" -> "done"
                        [] OTHER -> stage[e]
      BY DEF Die
    <2>. QED
      BY <2>1, <2>2 DEF Stages
  <1>4. EmitterTypeOK'
    <2>1. wal' \in SUBSET Events /\ torn' \in SUBSET Events
      BY <1>1, Types
    <2>2. crashes' \in 0..MaxCrashes
      BY <1>1, EmitterAssumption DEF Die, EmitterTypeOK
    <2>3. retryCount' \in [Events -> 0..(MaxRetries - 1)]
      BY <1>2, EmitterAssumption
    <2>. QED
      BY <1>1, <1>2, <1>3, <2>1, <2>2, <2>3, Types DEF EmitterTypeOK, PCs
  <1>5. FlushShape' /\ DeadIsEmpty' /\ RemovedIsSafe' /\ LogIsTracked' /\ OneCopy'
    BY <1>2, <1>3 DEF FlushShape, DeadIsEmpty, RemovedIsSafe, LogIsTracked, OneCopy
  <1>6. HandedOver'
    <2>1. db \cup dlq \cup torn' \subseteq Done'
      <3>. SUFFICES ASSUME NEW e \in db \cup dlq \cup torn' PROVE e \in Done'
        OBVIOUS
      <3>1. e \in Done \/ (e \in wal /\ stage'[e] = "done")
        BY <1>1 DEF HandedOver
      <3>. QED
        BY <1>1, <1>3, <3>1, Types DEF Done
    <2>2. \A e \in wal' : stage'[e] \in {"logged", "done"}
      BY <1>1, <1>3, Types DEF HandedOver
    <2>. QED
      BY <1>2, <2>1, <2>2 DEF HandedOver
  <1>7. OnlyTornRewriteLoses'
    <2>. SUFFICES ASSUME NEW e \in Events, stage'[e] = "done" PROVE e \in wal' \cup db \cup dlq \cup torn'
      BY <1>2, <1>3 DEF OnlyTornRewriteLoses
    <2>1. e \in wal \cup db \cup dlq \cup torn
      BY <1>1, <1>3 DEF OnlyTornRewriteLoses
    <2>. QED
      BY <2>1
  <1>8. UnwrittenIsNew'
    BY <1>1, <1>2 DEF UnwrittenIsNew
  <1>. QED
    BY <1>4, <1>5, <1>6, <1>7, <1>8 DEF EmitterInv

\* A process dies, in the middle of a rewrite of its log or elsewhere.
LEMMA DeathSteps ==
    ASSUME EmitterInv, Crash \/ \E f \in Flushers : CrashInRewrite(f)
    PROVE  EmitterInv'
  <1>1. CASE Crash
    BY <1>1, DieInv DEF Crash
  <1>2. ASSUME NEW f \in Flushers, CrashInRewrite(f) PROVE EmitterInv'
    <2>1. PICK kept \in SUBSET (wal \ batch[f]) :
            wal' = kept /\ torn' = torn \cup ((wal \ batch[f]) \ kept)
      BY <1>2 DEF CrashInRewrite
    <2>2. batch[f] \subseteq db \cup dlq
      BY <1>2 DEF CrashInRewrite, EmitterInv, RemovedIsSafe
    <2>3. \A e \in wal : stage'[e] = "done"
      <3>. SUFFICES ASSUME NEW e \in wal PROVE stage'[e] = "done"
        OBVIOUS
      <3>1. e \in Events /\ stage[e] \in {"logged", "done"}
        BY Types DEF EmitterInv, HandedOver
      <3>2. stage'[e] = CASE stage[e] = "called" -> "dropped"
                          [] stage[e] = "logged" -> "done"
                          [] OTHER -> stage[e]
        BY <1>2, <3>1 DEF CrashInRewrite, Die
      <3>. QED
        BY <3>1, <3>2
    <2>4. /\ wal' \subseteq wal /\ torn \subseteq torn' /\ torn' \subseteq torn \cup wal
          /\ \A e \in wal : e \in wal' \cup torn' \cup db \cup dlq
          /\ \A e \in torn' : e \in torn \/ stage'[e] = "done"
      BY <2>1, <2>2, <2>3
    <2>. QED
      BY <1>2, <2>4, DieInv DEF CrashInRewrite
  <1>. QED
    BY <1>1, <1>2

\* The log is read again, looked up in the table event by event, and rid of what
\* was found there.
LEMMA ReplaySteps ==
    ASSUME EmitterInv, Restart \/ (\E e \in Events : ReplayLookup(e)) \/ ReplayCleanup
    PROVE  EmitterInv'
  <1>1. /\ EmitterTypeOK /\ FlushShape /\ DeadIsEmpty /\ HandedOver /\ RemovedIsSafe
        /\ OnlyTornRewriteLoses /\ LogIsTracked /\ OneCopy /\ UnwrittenIsNew
    BY DEF EmitterInv
  <1>. USE DEF disk, memory, flushing, bounds
  <1>2. MemoryIsHeld /\ MemoryIsHeld'
    BY HeldInMemory, PTL
  <1>3. CASE Restart
    <2>1. /\ ~up /\ up' = TRUE /\ closed' = FALSE /\ todo' = wal
          /\ replay' \in {"lookup", "done"}
          /\ UNCHANGED <<wal, db, dlq, torn, stage, buffer, retryCount, pc, batch, retry,
                         fresh, stale, crashes, failures>>
      BY <1>3 DEF Restart
    <2>2. /\ buffer = {} /\ fresh = {} /\ \A e \in Events : stage[e] # "logged"
          /\ \A f \in Flushers : batch[f] = {} /\ retry[f] = {}
      BY <1>1, <2>1 DEF DeadIsEmpty, FlushShape
    <2>3. EmitterTypeOK'
      BY <1>1, <2>1, Types DEF EmitterTypeOK
    <2>4. FlushShape' /\ DeadIsEmpty' /\ RemovedIsSafe' /\ OnlyTornRewriteLoses' /\ UnwrittenIsNew'
      BY <1>1, <2>1 DEF FlushShape, DeadIsEmpty, RemovedIsSafe, OnlyTornRewriteLoses, UnwrittenIsNew
    <2>5. HandedOver'
      <3>1. wal \subseteq Done
        BY <1>1, <2>2, Types DEF HandedOver, Done
      <3>. QED
        BY <1>1, <2>1, <3>1 DEF HandedOver, Done
    <2>6. LogIsTracked'
      BY <1>2, <2>1 DEF LogIsTracked, MemoryIsHeld, Held
    <2>7. OneCopy'
      BY <2>1, <2>2 DEF OneCopy
    <2>. QED
      BY <2>3, <2>4, <2>5, <2>6, <2>7 DEF EmitterInv
  <1>4. ASSUME NEW e \in Events, ReplayLookup(e) PROVE EmitterInv'
    <2>1. /\ up /\ e \in todo /\ todo' = todo \ {e}
          /\ \/ e \in db /\ stale' = stale \cup {e} /\ fresh' = fresh
             \/ e \notin db /\ fresh' = fresh \cup {e} /\ stale' = stale
          /\ UNCHANGED <<wal, db, dlq, torn, up, closed, stage, buffer, retryCount, pc, batch, retry,
                         replay, crashes, failures>>
      BY <1>4 DEF ReplayLookup
    <2>2. EmitterTypeOK'
      BY <1>1, <2>1, Types DEF EmitterTypeOK
    <2>3. FlushShape' /\ DeadIsEmpty' /\ RemovedIsSafe' /\ OnlyTornRewriteLoses'
      BY <1>1, <2>1 DEF FlushShape, DeadIsEmpty, RemovedIsSafe, OnlyTornRewriteLoses
    <2>4. HandedOver'
      BY <1>1, <2>1 DEF HandedOver, Done
    <2>5. LogIsTracked'
      <3>1. \A d : Held(d) => d \in db \/ Held(d)'
        BY <2>1 DEF Held
      <3>. QED
        BY <1>1, <1>2, <2>1, <3>1 DEF LogIsTracked, MemoryIsHeld
    <2>6. OneCopy'
      BY <1>1, <2>1 DEF OneCopy
    <2>7. UnwrittenIsNew'
      BY <1>1, <2>1 DEF UnwrittenIsNew
    <2>. QED
      BY <2>2, <2>3, <2>4, <2>5, <2>6, <2>7 DEF EmitterInv
  <1>5. CASE ReplayCleanup
    <2>1. /\ up /\ replay' = "done" /\ stale' = {} /\ wal' = wal \ stale
          /\ UNCHANGED <<db, dlq, torn, up, closed, stage, buffer, retryCount, pc, batch, retry,
                         todo, fresh, crashes, failures>>
      BY <1>5 DEF ReplayCleanup
    <2>2. EmitterTypeOK'
      <3>1. wal' \in SUBSET Events
        BY <1>1, <2>1, Types
      <3>. QED
        BY <1>1, <2>1, <3>1 DEF EmitterTypeOK
    <2>3. /\ FlushShape' /\ DeadIsEmpty' /\ HandedOver' /\ RemovedIsSafe' /\ OnlyTornRewriteLoses'
          /\ OneCopy' /\ UnwrittenIsNew'
      BY <1>1, <2>1 DEF FlushShape, DeadIsEmpty, HandedOver, Done, RemovedIsSafe,
                        OnlyTornRewriteLoses, OneCopy, UnwrittenIsNew
    <2>4. LogIsTracked'
      <3>1. \A d : Held(d) => Held(d)'
        BY <2>1 DEF Held
      <3>. QED
        BY <1>1, <1>2, <2>1, <3>1 DEF LogIsTracked, MemoryIsHeld
    <2>. QED
      BY <2>2, <2>3, <2>4 DEF EmitterInv
  <1>. QED
    BY <1>3, <1>4, <1>5

\* What changes nothing keeps the invariant.
LEMMA EmitterStutter ==
    ASSUME EmitterInv, UNCHANGED emitterVars
    PROVE  EmitterInv'
  <1>. USE DEF emitterVars, disk, memory, flushing, replaying, bounds
  <1>1. FlushShape' /\ DeadIsEmpty' /\ HandedOver' /\ RemovedIsSafe' /\ OnlyTornRewriteLoses'
    BY DEF EmitterInv, FlushShape, DeadIsEmpty, HandedOver, Done, RemovedIsSafe, OnlyTornRewriteLoses
  <1>2. EmitterTypeOK' /\ OneCopy' /\ UnwrittenIsNew'
    BY DEF EmitterInv, EmitterTypeOK, OneCopy, UnwrittenIsNew
  <1>3. LogIsTracked'
    BY DEF EmitterInv, LogIsTracked, InMemory, InFlight
  <1>. QED
    BY <1>1, <1>2, <1>3 DEF EmitterInv

\* Every step keeps the invariant.
LEMMA EmitterInvNext == EmitterInv /\ [EmitterNext]_emitterVars => EmitterInv'
  <1>. SUFFICES ASSUME EmitterInv, [EmitterNext]_emitterVars PROVE EmitterInv'
    OBVIOUS
  <1>1. \/ UNCHANGED emitterVars
        \/ \E e \in Events : EmitCall(e) \/ EmitLog(e)
        \/ Crash \/ \E f \in Flushers : CrashInRewrite(f)
        \/ Restart \/ (\E e \in Events : ReplayLookup(e)) \/ ReplayCleanup
        \/ \E f \in Flushers : TimerFlush(f)
        \/ \E e \in Events : EmitBuffer(e)
        \/ Close \/ ReplayFlush
        \/ \E f \in Flushers : \/ InsertOk(f) \/ InsertConflict(f) \/ InsertFails(f)
                               \/ RemoveFlushed(f) \/ RemoveFlushedFails(f) \/ RemoveDead(f)
    BY DEF EmitterNext, Flush, Emit, Replay
  <1>. QED
    BY <1>1, EmitterStutter, EmitSteps, DeathSteps, ReplaySteps, BeginSteps, FlushSteps

\* What the write-ahead log is for (wal.ts:9, "ensuring no event is lost even
\* if the process crashes before flush completes"; emitter.ts:30, the
\* idempotent replay): however many flushes overlap, inserts and file writes
\* fail and processes die, an event in the log is lost only in a torn rewrite,
\* never forgotten by the running process, never held twice, and without
\* failures neither inserted twice nor dead-lettered.
THEOREM LogIsSafe == EmitterSpec => []EmitterSafe
  <1>1. EmitterInv => EmitterSafe
    BY DEF EmitterInv, EmitterSafe, UnwrittenIsNew, ReplayIdempotent
  <1>. QED
    BY <1>1, EmitterInvInit, EmitterInvNext, PTL DEF EmitterSpec

(***************************************************************************)
(* The aggregator: every set of events, window length, clock bound and     *)
(* number of aborts.                                                       *)
(***************************************************************************)
-----------------------------------------------------------------------------
(* The inductive invariant of any number of runs                            *)

\* An event that is stored has a timestamp; a window that is read has been
\* accounted for in the frontier.
StoredIsStamped == \A e \in table : ts[e] \in 1..MaxTime

FrontierLeads ==
    /\ lastEnd <= frontier
    /\ \A r \in Runs :
         /\ phase[r] \in {"read", "insert"} => cursor[r] <= frontier
         /\ phase[r] = "insert" => WindowEnd(r) <= frontier

\* The timely events before a run's cursor are counted, and those of the window
\* it has read are among its rows.
CursorFollows ==
    \A r \in Runs : \A e \in table \ late :
        /\ phase[r] \in {"read", "insert"} /\ ts[e] < cursor[r] => counted[e] >= 1
        /\ phase[r] = "insert" /\ cursor[r] <= ts[e] /\ ts[e] < WindowEnd(r) => e \in rows[r]

TimelyInv ==
    /\ AggregatorTypeOK
    /\ StoredIsStamped /\ FrontierLeads /\ OnTimeCounted /\ CursorFollows

-----------------------------------------------------------------------------
(* The inductive invariant of runs that do not overlap                      *)

OneRun == \A r, s \in Runs : r = s

\* What is counted lies before the last window's end, what a run has read after
\* it: the run starts there, or at the first event when nothing is counted yet.
CountedIsPast ==
    /\ \A e \in Metered : counted[e] >= 1 => e \in table /\ ts[e] < lastEnd
    /\ \A r \in Runs :
         /\ phase[r] = "anchor" => lastEnd = 0
         /\ phase[r] \in {"read", "insert"} => lastEnd = 0 \/ lastEnd = cursor[r]
         /\ \A e \in rows[r] : /\ phase[r] = "insert" /\ e \in table
                               /\ cursor[r] <= ts[e] /\ ts[e] < WindowEnd(r)

OnceInv == TimelyInv /\ CountedAtMostOnce /\ CountedIsPast

-----------------------------------------------------------------------------
(* Windows                                                                  *)

\* The window of a time starts at it or before.
LEMMA WindowStartBounds == \A t \in Nat : WindowStart(t) \in 0..t
  <1>. SUFFICES ASSUME NEW t \in Nat PROVE (t \div Window) * Window \in 0..t
    BY DEF WindowStart
  <1>1. Window \in Nat /\ Window > 0
    BY AggregatorAssumption
  <1>. QED
    BY <1>1, SMT

\* A run at work has a window before the end of what it is to summarise.
LEMMA WindowEndBounds ==
    ASSUME AggregatorTypeOK, NEW r \in Runs, phase[r] # "idle"
    PROVE  /\ cursor[r] \in 0..MaxTime /\ limit[r] \in 0..MaxTime /\ WindowEnd(r) \in 0..MaxTime
           /\ cursor[r] < WindowEnd(r) /\ WindowEnd(r) <= limit[r] /\ limit[r] <= clock
  BY AggregatorAssumption DEF AggregatorTypeOK, WindowEnd

\* A set of numbers that is not empty has a least one.
LEMMA Smallest ==
    ASSUME NEW S, S \subseteq Nat, S # {}
    PROVE  \E n \in S : \A m \in S : n <= m
  <1>. DEFINE less == OpToRel(<, Nat)
  <1>1. IsWellFoundedOn(less, Nat)
    BY NatLessThanWellFounded, Zenon
  <1>2. PICK n \in S : \A m \in S : ~(<<m, n>> \in less)
    <2>. HIDE DEF less
    <2>. QED
      BY <1>1, WFMin
  <1>3. \A m \in S : ~(m < n)
    BY <1>2 DEF OpToRel
  <1>. QED
    BY <1>3

\* The earliest event before a limit, when there is one.
LEMMA EarliestEvent ==
    ASSUME \A e \in table : ts[e] \in 1..MaxTime, MaxTime \in Nat, NEW limitOf \in Nat
    PROVE  IF Earliest(limitOf) = NoEvent
             THEN \A e \in table : ts[e] >= limitOf
             ELSE /\ Earliest(limitOf) \in 1..MaxTime /\ Earliest(limitOf) < limitOf
                  /\ \A e \in table : ts[e] >= Earliest(limitOf)
  <1>. DEFINE seen == {ts[e] : e \in {x \in table : ts[x] < limitOf}}
  <1>1. CASE seen = {}
    BY <1>1 DEF Earliest
  <1>2. CASE seen # {}
    <2>1. seen \subseteq Nat
      OBVIOUS
    <2>2. PICK t \in seen : \A u \in seen : t <= u
      <3>. HIDE DEF seen
      <3>. QED
        BY <1>2, <2>1, Smallest
    <2>3. Earliest(limitOf) \in seen /\ \A u \in seen : Earliest(limitOf) <= u
      <3>1. Earliest(limitOf) = CHOOSE v \in seen : \A u \in seen : v <= u
        BY <1>2 DEF Earliest
      <3>. HIDE DEF seen
      <3>. QED
        BY <2>2, <3>1
    <2>4. \A e \in table : ts[e] < limitOf => ts[e] \in seen
      OBVIOUS
    <2>5. seen \subseteq 1..MaxTime /\ \A u \in seen : u < limitOf
      OBVIOUS
    <2>6. \A e \in table : ts[e] >= Earliest(limitOf)
      <3>. SUFFICES ASSUME NEW e \in table PROVE ts[e] >= Earliest(limitOf)
        OBVIOUS
      <3>1. Earliest(limitOf) \in 1..MaxTime /\ Earliest(limitOf) < limitOf /\ ts[e] \in Nat
        BY <2>3, <2>5
      <3>2. CASE ts[e] < limitOf
        BY <2>3, <2>4, <3>2
      <3>. QED
        BY <3>1, <3>2
    <2>7. Earliest(limitOf) \in 1..MaxTime /\ Earliest(limitOf) < limitOf
      BY <2>3, <2>5
    <2>. QED
      BY <2>6, <2>7 DEF NoEvent
  <1>. QED
    BY <1>1, <1>2

-----------------------------------------------------------------------------
(* What came in time is counted                                             *)

\* Initially nothing is stored and no run is under way.
LEMMA TimelyInit == AggregatorInit => TimelyInv
  <1>. SUFFICES ASSUME AggregatorInit PROVE TimelyInv
    OBVIOUS
  <1>1. AggregatorTypeOK
    BY AggregatorAssumption DEF AggregatorInit, AggregatorTypeOK, NotEmitted
  <1>. QED
    BY <1>1 DEF AggregatorInit, TimelyInv, StoredIsStamped, FrontierLeads, OnTimeCounted, CursorFollows

\* Time passes, events are emitted and, later, stored.
LEMMA EnvironmentTimely ==
    ASSUME TimelyInv, Tick \/ \E e \in Metered : EmitEvent(e) \/ StoreEvent(e)
    PROVE  TimelyInv'
  <1>1. AggregatorTypeOK /\ StoredIsStamped /\ FrontierLeads /\ OnTimeCounted /\ CursorFollows
    BY DEF TimelyInv
  <1>2. UNCHANGED <<counted, lastEnd, phase, cursor, limit, rows, frontier, aborts>>
    BY DEF Tick, EmitEvent, StoreEvent, runState
  <1>3. \A r \in Runs : WindowEnd(r)' = WindowEnd(r)
    BY <1>2 DEF WindowEnd
  <1>4. FrontierLeads'
    BY <1>1, <1>2, <1>3 DEF FrontierLeads
  <1>5. CASE Tick
    <2>1. AggregatorTypeOK'
      BY <1>1, <1>2, <1>5, AggregatorAssumption DEF AggregatorTypeOK, Tick
    <2>2. StoredIsStamped' /\ OnTimeCounted' /\ CursorFollows'
      BY <1>1, <1>2, <1>3, <1>5 DEF StoredIsStamped, OnTimeCounted, CursorFollows, Tick
    <2>. QED
      BY <1>4, <2>1, <2>2 DEF TimelyInv
  <1>6. ASSUME NEW e \in Metered, EmitEvent(e) PROVE TimelyInv'
    <2>1. e \notin table
      BY <1>1, <1>6 DEF StoredIsStamped, EmitEvent, NotEmitted
    <2>2. /\ UNCHANGED <<clock, table, late>> /\ table \subseteq Metered
          /\ \A d \in table : ts'[d] = ts[d]
      BY <1>1, <1>6, <2>1 DEF EmitEvent, AggregatorTypeOK
    <2>3. AggregatorTypeOK'
      BY <1>1, <1>2, <1>6, AggregatorAssumption DEF AggregatorTypeOK, EmitEvent
    <2>4. StoredIsStamped' /\ OnTimeCounted' /\ CursorFollows'
      BY <1>1, <1>2, <1>3, <2>2 DEF StoredIsStamped, OnTimeCounted, CursorFollows
    <2>. QED
      BY <1>4, <2>3, <2>4 DEF TimelyInv
  <1>7. ASSUME NEW e \in Metered, StoreEvent(e) PROVE TimelyInv'
    <2>1. /\ UNCHANGED <<clock, ts>> /\ table' = table \cup {e} /\ ts[e] # NotEmitted
          /\ late' = IF ts[e] < frontier THEN late \cup {e} ELSE late
      BY <1>7 DEF StoreEvent
    <2>2. AggregatorTypeOK'
      BY <1>1, <1>2, <2>1 DEF AggregatorTypeOK
    <2>3. ts[e] \in 1..MaxTime /\ frontier \in 0..MaxTime /\ lastEnd \in 0..MaxTime
      BY <1>1, <2>1 DEF AggregatorTypeOK
    <2>4. StoredIsStamped'
      BY <1>1, <2>1, <2>3 DEF StoredIsStamped
    <2>5. \A d \in table' \ late' : d \in table \ late \/ ts[d] >= frontier
      BY <2>1, <2>3
    <2>6. \A d \in table' \ late' : ts[d] \in 1..MaxTime
      BY <2>1, <2>4 DEF StoredIsStamped
    <2>7. OnTimeCounted'
      BY <1>1, <1>2, <2>1, <2>3, <2>5, <2>6 DEF OnTimeCounted, FrontierLeads
    <2>8. CursorFollows'
      <3>. SUFFICES ASSUME NEW r \in Runs, NEW d \in table' \ late'
                    PROVE  /\ phase[r] \in {"read", "insert"} /\ ts[d] < cursor[r] => counted[d] >= 1
                           /\ phase[r] = "insert" /\ cursor[r] <= ts[d] /\ ts[d] < WindowEnd(r)
                                => d \in rows[r]
        BY <1>2, <1>3, <2>1 DEF CursorFollows
      <3>1. CASE d \in table \ late
        BY <1>1, <3>1 DEF CursorFollows
      <3>2. CASE ts[d] >= frontier
        <4>1. phase[r] # "idle" => WindowEnd(r) \in 0..MaxTime /\ cursor[r] \in 0..MaxTime
          BY <1>1, WindowEndBounds
        <4>. QED
          BY <1>1, <2>3, <2>6, <3>2, <4>1 DEF FrontierLeads
      <3>. QED
        BY <2>5, <3>1, <3>2
    <2>. QED
      BY <1>4, <2>2, <2>4, <2>7, <2>8 DEF TimelyInv
  <1>. QED
    BY <1>5, <1>6, <1>7

\* What a step of run r leaves to the other runs.
OthersStay(r) ==
    \A s \in Runs \ {r} :
        phase'[s] = phase[s] /\ cursor'[s] = cursor[s] /\ limit'[s] = limit[s] /\ rows'[s] = rows[s]

\* A run begins at the end of the last window.
LEMMA StartTimely ==
    ASSUME TimelyInv, NEW r \in Runs, StartRun(r)
    PROVE  TimelyInv'
  <1>1. AggregatorTypeOK /\ StoredIsStamped /\ FrontierLeads /\ OnTimeCounted /\ CursorFollows
    BY DEF TimelyInv
  <1>2. /\ UNCHANGED <<clock, ts, table, counted, lastEnd, rows, frontier, late, aborts>>
        /\ OthersStay(r) /\ phase'[r] \in {"anchor", "read"}
        /\ cursor'[r] = lastEnd /\ limit'[r] = WindowStart(clock) /\ lastEnd < WindowStart(clock)
    BY <1>1 DEF StartRun, OthersStay, AggregatorTypeOK
  <1>3. \A s \in Runs \ {r} : WindowEnd(s)' = WindowEnd(s)
    BY <1>2 DEF WindowEnd, OthersStay
  <1>4. AggregatorTypeOK'
    <2>1. clock \in Nat /\ clock <= MaxTime /\ MaxTime \in Nat
      BY <1>1, AggregatorAssumption DEF AggregatorTypeOK
    <2>2. WindowStart(clock) \in 0..clock /\ WindowStart(clock) \in 0..MaxTime
      BY <2>1, WindowStartBounds
    <2>3. /\ phase' \in [Runs -> {"idle", "anchor", "read", "insert"}]
          /\ cursor' \in [Runs -> 0..MaxTime] /\ limit' \in [Runs -> 0..MaxTime]
      BY <1>1, <2>2 DEF StartRun, AggregatorTypeOK
    <2>4. \A s \in Runs : phase'[s] # "idle" => cursor'[s] < limit'[s] /\ limit'[s] <= clock
      BY <1>1, <1>2, <2>2 DEF AggregatorTypeOK, OthersStay
    <2>. QED
      BY <1>1, <1>2, <2>3, <2>4 DEF AggregatorTypeOK
  <1>5. StoredIsStamped' /\ OnTimeCounted'
    BY <1>1, <1>2 DEF StoredIsStamped, OnTimeCounted
  <1>6. FrontierLeads'
    BY <1>1, <1>2, <1>3 DEF FrontierLeads, OthersStay
  <1>7. CursorFollows'
    BY <1>1, <1>2, <1>3 DEF CursorFollows, OthersStay, OnTimeCounted
  <1>. QED
    BY <1>4, <1>5, <1>6, <1>7 DEF TimelyInv

\* The first run starts at the window of the earliest event, before which there
\* is nothing to count.
LEMMA AnchorTimely ==
    ASSUME TimelyInv, NEW r \in Runs, Anchor(r)
    PROVE  TimelyInv' /\ \A e \in table : ts[e] >= cursor'[r]
  <1>1. AggregatorTypeOK /\ StoredIsStamped /\ FrontierLeads /\ OnTimeCounted /\ CursorFollows
    BY DEF TimelyInv
  <1>2. /\ UNCHANGED <<clock, ts, table, counted, lastEnd, limit, rows, late, aborts>>
        /\ OthersStay(r) /\ phase[r] = "anchor" /\ phase'[r] = "read"
        /\ cursor'[r] = WindowStart(Earliest(limit[r]))
        /\ frontier' = IF frontier > cursor'[r] THEN frontier ELSE cursor'[r]
    BY <1>1 DEF Anchor, OthersStay, AggregatorTypeOK
  <1>3. /\ limit[r] \in 0..MaxTime /\ limit[r] <= clock /\ MaxTime \in Nat /\ frontier \in 0..MaxTime
        /\ lastEnd \in 0..MaxTime
    BY <1>1, <1>2, AggregatorAssumption DEF AggregatorTypeOK
  <1>4. /\ Earliest(limit[r]) \in 1..MaxTime /\ Earliest(limit[r]) < limit[r]
        /\ \A e \in table : ts[e] >= Earliest(limit[r])
    BY <1>1, <1>3, EarliestEvent DEF StoredIsStamped, Anchor
  <1>5. cursor'[r] \in 0..MaxTime /\ cursor'[r] < limit[r] /\ cursor'[r] <= Earliest(limit[r])
    BY <1>2, <1>3, <1>4, WindowStartBounds
  <1>6. \A e \in table : ts[e] >= cursor'[r]
    BY <1>1, <1>4, <1>5 DEF StoredIsStamped
  <1>7. \A s \in Runs \ {r} : WindowEnd(s)' = WindowEnd(s)
    BY <1>2 DEF WindowEnd, OthersStay
  <1>8. AggregatorTypeOK'
    <2>1. /\ phase' \in [Runs -> {"idle", "anchor", "read", "insert"}]
          /\ cursor' \in [Runs -> 0..MaxTime]
      BY <1>1, <1>2, <1>5 DEF Anchor, AggregatorTypeOK
    <2>2. \A s \in Runs : phase'[s] # "idle" => cursor'[s] < limit'[s] /\ limit'[s] <= clock
      BY <1>1, <1>2, <1>3, <1>5 DEF AggregatorTypeOK, OthersStay
    <2>3. frontier' \in 0..MaxTime
      BY <1>2, <1>3, <1>5
    <2>. QED
      BY <1>1, <1>2, <2>1, <2>2, <2>3 DEF AggregatorTypeOK
  <1>9. StoredIsStamped' /\ OnTimeCounted'
    BY <1>1, <1>2 DEF StoredIsStamped, OnTimeCounted
  <1>10. FrontierLeads'
    <2>1. frontier <= frontier' /\ cursor'[r] <= frontier' /\ frontier' \in 0..MaxTime
      BY <1>2, <1>3, <1>5
    <2>2. \A s \in Runs : /\ cursor[s] \in 0..MaxTime
                          /\ phase[s] = "insert" => WindowEnd(s) \in 0..MaxTime
      BY <1>1, WindowEndBounds DEF AggregatorTypeOK
    <2>. QED
      BY <1>1, <1>2, <1>3, <1>7, <2>1, <2>2 DEF FrontierLeads, OthersStay
  <1>11. CursorFollows'
    <2>1. \A e \in table : ~(ts[e] < cursor'[r])
      BY <1>1, <1>5, <1>6 DEF StoredIsStamped
    <2>. QED
      BY <1>1, <1>2, <1>7, <2>1 DEF CursorFollows, OthersStay
  <1>. QED
    BY <1>6, <1>8, <1>9, <1>10, <1>11 DEF TimelyInv

\* What the end of a run does to it.
LEMMA EndEffect ==
    ASSUME AggregatorTypeOK, NEW r \in Runs, EndRun(r)
    PROVE  /\ OthersStay(r) /\ phase'[r] = "idle" /\ rows'[r] = {}
           /\ phase' \in [Runs -> {"idle", "anchor", "read", "insert"}]
           /\ cursor' \in [Runs -> 0..MaxTime] /\ limit' \in [Runs -> 0..MaxTime]
           /\ rows' \in [Runs -> SUBSET Metered]
           /\ \A s \in Runs : phase'[s] # "idle" => cursor'[s] < limit'[s] /\ limit'[s] <= clock
  BY AggregatorAssumption DEF EndRun, AggregatorTypeOK, OthersStay

\* A run that ends, with the sentinel row of a table without events or without
\* a result.
LEMMA EndTimely ==
    ASSUME TimelyInv, NEW r \in Runs, AnchorEmpty(r) \/ AbortRun(r)
    PROVE  TimelyInv'
  <1>1. AggregatorTypeOK /\ StoredIsStamped /\ FrontierLeads /\ OnTimeCounted /\ CursorFollows
    BY DEF TimelyInv
  <1>2. EndRun(r) /\ UNCHANGED <<clock, ts, table, counted, late>>
    BY DEF AnchorEmpty, AbortRun
  <1>3. /\ OthersStay(r) /\ phase'[r] = "idle"
        /\ phase' \in [Runs -> {"idle", "anchor", "read", "insert"}]
        /\ cursor' \in [Runs -> 0..MaxTime] /\ limit' \in [Runs -> 0..MaxTime]
        /\ rows' \in [Runs -> SUBSET Metered]
        /\ \A s \in Runs : phase'[s] # "idle" => cursor'[s] < limit'[s] /\ limit'[s] <= clock
    BY <1>1, <1>2, EndEffect
  <1>4. /\ lastEnd' \in 0..MaxTime /\ frontier' \in 0..MaxTime /\ frontier \in 0..MaxTime
        /\ lastEnd' <= frontier' /\ frontier <= frontier'
        /\ aborts' \in 0..MaxAborts
        /\ \A e \in table : ts[e] < lastEnd' => ts[e] < lastEnd
    <2>1. /\ limit[r] \in 0..MaxTime /\ lastEnd \in 0..MaxTime /\ frontier \in 0..MaxTime /\ aborts \in 0..MaxAborts
          /\ MaxTime \in Nat /\ MaxAborts \in Nat /\ lastEnd <= frontier
      BY <1>1, AggregatorAssumption DEF AggregatorTypeOK, FrontierLeads
    <2>2. CASE AnchorEmpty(r)
      <3>1. \A e \in table : ts[e] >= limit[r]
        BY <1>1, <2>1, <2>2, EarliestEvent DEF StoredIsStamped, AnchorEmpty
      <3>2. \A e \in table : ts[e] \in 1..MaxTime
        BY <1>1 DEF StoredIsStamped
      <3>3. /\ lastEnd' = IF lastEnd > limit[r] THEN lastEnd ELSE limit[r]
            /\ frontier' = IF frontier > limit[r] THEN frontier ELSE limit[r]
            /\ aborts' = aborts
        BY <2>2 DEF AnchorEmpty
      <3>. QED
        BY <2>1, <3>1, <3>2, <3>3
    <2>3. CASE AbortRun(r)
      BY <2>1, <2>3 DEF AbortRun
    <2>. QED
      BY <2>2, <2>3
  <1>5. \A s \in Runs \ {r} : WindowEnd(s)' = WindowEnd(s)
    BY <1>3 DEF WindowEnd, OthersStay
  <1>6. AggregatorTypeOK'
    BY <1>1, <1>2, <1>3, <1>4 DEF AggregatorTypeOK
  <1>7. StoredIsStamped' /\ OnTimeCounted'
    BY <1>1, <1>2, <1>4 DEF StoredIsStamped, OnTimeCounted
  <1>8. FrontierLeads'
    <2>1. \A s \in Runs : /\ cursor[s] \in 0..MaxTime
                          /\ phase[s] = "insert" => WindowEnd(s) \in 0..MaxTime
      BY <1>1, WindowEndBounds DEF AggregatorTypeOK
    <2>. QED
      BY <1>1, <1>3, <1>4, <1>5, <2>1 DEF FrontierLeads, OthersStay
  <1>9. CursorFollows'
    BY <1>1, <1>2, <1>3, <1>5 DEF CursorFollows, OthersStay
  <1>. QED
    BY <1>6, <1>7, <1>8, <1>9 DEF TimelyInv

\* A run reads the events of a window, which no later event belongs to in time.
LEMMA ReadTimely ==
    ASSUME TimelyInv, NEW r \in Runs, ReadWindow(r)
    PROVE  TimelyInv'
  <1>1. AggregatorTypeOK /\ StoredIsStamped /\ FrontierLeads /\ OnTimeCounted /\ CursorFollows
    BY DEF TimelyInv
  <1>2. /\ UNCHANGED <<clock, ts, table, counted, lastEnd, cursor, limit, late, aborts>>
        /\ OthersStay(r) /\ phase[r] = "read" /\ phase'[r] = "insert"
        /\ rows'[r] = EventsIn(cursor[r], WindowEnd(r))
        /\ frontier' = IF frontier > WindowEnd(r) THEN frontier ELSE WindowEnd(r)
        /\ phase' \in [Runs -> {"idle", "anchor", "read", "insert"}]
    BY <1>1 DEF ReadWindow, OthersStay, AggregatorTypeOK
  <1>3. /\ WindowEnd(r) \in 0..MaxTime /\ frontier \in 0..MaxTime /\ frontier' \in 0..MaxTime
        /\ frontier <= frontier' /\ WindowEnd(r) <= frontier' /\ lastEnd \in 0..MaxTime
    BY <1>1, <1>2, WindowEndBounds DEF AggregatorTypeOK
  <1>4. \A s \in Runs : WindowEnd(s)' = WindowEnd(s)
    BY <1>2 DEF WindowEnd
  <1>5. AggregatorTypeOK'
    <2>1. rows' \in [Runs -> SUBSET Metered]
      BY <1>1 DEF ReadWindow, AggregatorTypeOK, EventsIn
    <2>2. \A s \in Runs : phase'[s] # "idle" => phase[s] # "idle"
      BY <1>2 DEF OthersStay
    <2>. QED
      BY <1>1, <1>2, <1>3, <2>1, <2>2 DEF AggregatorTypeOK
  <1>6. StoredIsStamped' /\ OnTimeCounted'
    BY <1>1, <1>2 DEF StoredIsStamped, OnTimeCounted
  <1>7. FrontierLeads'
    <2>1. \A s \in Runs : /\ cursor[s] \in 0..MaxTime
                          /\ phase[s] = "insert" => WindowEnd(s) \in 0..MaxTime
      BY <1>1, WindowEndBounds DEF AggregatorTypeOK
    <2>. QED
      BY <1>1, <1>2, <1>3, <1>4, <2>1 DEF FrontierLeads, OthersStay
  <1>8. CursorFollows'
    <2>1. \A e \in table : cursor[r] <= ts[e] /\ ts[e] < WindowEnd(r) => e \in rows'[r]
      BY <1>2 DEF EventsIn
    <2>. QED
      BY <1>1, <1>2, <1>4, <2>1 DEF CursorFollows, OthersStay
  <1>. QED
    BY <1>5, <1>6, <1>7, <1>8 DEF TimelyInv

\* The rows that were read are counted, and the run goes on with the next
\* window or ends.
LEMMA InsertTimely ==
    ASSUME TimelyInv, NEW r \in Runs, InsertSummaries(r)
    PROVE  TimelyInv'
  <1>1. AggregatorTypeOK /\ StoredIsStamped /\ FrontierLeads /\ OnTimeCounted /\ CursorFollows
    BY DEF TimelyInv
  <1>2. /\ UNCHANGED <<clock, ts, table, frontier, late, aborts>> /\ phase[r] = "insert"
        /\ counted' = [e \in Metered |-> counted[e] + IF e \in rows[r] THEN 1 ELSE 0]
        /\ lastEnd' = IF lastEnd > WindowEnd(r) THEN lastEnd ELSE WindowEnd(r)
    BY DEF InsertSummaries
  <1>3. /\ cursor[r] \in 0..MaxTime /\ WindowEnd(r) \in 0..MaxTime /\ limit[r] <= clock
        /\ cursor[r] < WindowEnd(r) /\ WindowEnd(r) <= limit[r]
    BY <1>1, <1>2, WindowEndBounds
  <1>4. /\ OthersStay(r)
        /\ phase'[r] = "idle" \/ (phase'[r] = "read" /\ cursor'[r] = WindowEnd(r))
        /\ phase' \in [Runs -> {"idle", "anchor", "read", "insert"}]
        /\ cursor' \in [Runs -> 0..MaxTime] /\ limit' \in [Runs -> 0..MaxTime]
        /\ rows' \in [Runs -> SUBSET Metered]
        /\ \A s \in Runs : phase'[s] # "idle" => cursor'[s] < limit'[s] /\ limit'[s] <= clock
    <2>1. CASE WindowEnd(r) < limit[r]
      <3>1. /\ cursor' = [cursor EXCEPT ![r] = WindowEnd(r)] /\ rows' = [rows EXCEPT ![r] = {}]
            /\ phase' = [phase EXCEPT ![r] = "read"] /\ limit' = limit
        BY <2>1 DEF InsertSummaries
      <3>2. /\ OthersStay(r) /\ phase'[r] = "read" /\ cursor'[r] = WindowEnd(r)
            /\ phase' \in [Runs -> {"idle", "anchor", "read", "insert"}]
            /\ cursor' \in [Runs -> 0..MaxTime] /\ limit' \in [Runs -> 0..MaxTime]
            /\ rows' \in [Runs -> SUBSET Metered]
        BY <1>1, <1>3, <3>1 DEF OthersStay, AggregatorTypeOK
      <3>3. \A s \in Runs : phase'[s] # "idle" => cursor'[s] < limit'[s] /\ limit'[s] <= clock
        BY <1>1, <1>3, <2>1, <3>1, <3>2 DEF OthersStay, AggregatorTypeOK
      <3>. QED
        BY <3>2, <3>3
    <2>2. CASE ~(WindowEnd(r) < limit[r])
      BY <1>1, <2>2, EndEffect DEF InsertSummaries
    <2>. QED
      BY <2>1, <2>2
  <1>5. \A s \in Runs \ {r} : WindowEnd(s)' = WindowEnd(s)
    BY <1>4 DEF WindowEnd, OthersStay
  <1>6. /\ counted' \in [Metered -> Nat] /\ table \subseteq Metered
        /\ \A e \in Metered : counted'[e] >= counted[e] /\ (e \in rows[r] => counted'[e] >= 1)
    BY <1>1, <1>2 DEF AggregatorTypeOK
  <1>7. /\ lastEnd' \in 0..MaxTime /\ frontier \in 0..MaxTime /\ lastEnd' <= frontier
        /\ WindowEnd(r) <= frontier
    BY <1>1, <1>2, <1>3 DEF AggregatorTypeOK, FrontierLeads
  <1>8. \A e \in table \ late : ts[e] < WindowEnd(r) => counted'[e] >= 1
    <2>. SUFFICES ASSUME NEW e \in table \ late, ts[e] < WindowEnd(r) PROVE counted'[e] >= 1
      OBVIOUS
    <2>1. ts[e] \in 1..MaxTime /\ counted[e] \in Nat /\ counted'[e] \in Nat
      BY <1>1, <1>6 DEF StoredIsStamped, AggregatorTypeOK
    <2>2. CASE ts[e] < cursor[r]
      BY <1>1, <1>2, <1>6, <2>1, <2>2 DEF CursorFollows
    <2>3. CASE cursor[r] <= ts[e]
      BY <1>1, <1>2, <1>6, <2>3 DEF CursorFollows
    <2>. QED
      BY <1>3, <2>1, <2>2, <2>3
  <1>9. \A e \in table \ late : counted[e] >= 1 => counted'[e] >= 1
    BY <1>1, <1>6 DEF AggregatorTypeOK
  <1>10. AggregatorTypeOK'
    BY <1>1, <1>2, <1>4, <1>6, <1>7 DEF AggregatorTypeOK
  <1>11. StoredIsStamped'
    BY <1>1, <1>2 DEF StoredIsStamped
  <1>12. OnTimeCounted'
    <2>. SUFFICES ASSUME NEW e \in table \ late, ts[e] < lastEnd' PROVE counted'[e] >= 1
      BY <1>2 DEF OnTimeCounted
    <2>1. CASE ts[e] < WindowEnd(r)
      BY <1>8, <2>1
    <2>2. CASE ts[e] < lastEnd
      BY <1>1, <1>9, <2>2 DEF OnTimeCounted
    <2>. QED
      BY <1>2, <2>1, <2>2
  <1>13. FrontierLeads'
    BY <1>1, <1>2, <1>4, <1>5, <1>7 DEF FrontierLeads, OthersStay
  <1>14. CursorFollows'
    BY <1>1, <1>2, <1>4, <1>5, <1>8, <1>9 DEF CursorFollows, OthersStay
  <1>. QED
    BY <1>10, <1>11, <1>12, <1>13, <1>14 DEF TimelyInv

\* Every step keeps what came in time counted.
LEMMA TimelyNext == TimelyInv /\ [AggregatorNext]_aggregatorVars => TimelyInv'
  <1>. SUFFICES ASSUME TimelyInv, [AggregatorNext]_aggregatorVars PROVE TimelyInv'
    OBVIOUS
  <1>1. CASE UNCHANGED aggregatorVars
    BY <1>1 DEF TimelyInv, AggregatorTypeOK, StoredIsStamped, FrontierLeads, OnTimeCounted,
                CursorFollows, WindowEnd, aggregatorVars
  <1>2. \/ UNCHANGED aggregatorVars
        \/ Tick \/ \E e \in Metered : EmitEvent(e) \/ StoreEvent(e)
        \/ \E r \in Runs : \/ StartRun(r) \/ Anchor(r) \/ ReadWindow(r) \/ InsertSummaries(r)
                           \/ AnchorEmpty(r) \/ AbortRun(r)
    BY DEF AggregatorNext, Work
  <1>. QED
    BY <1>1, <1>2, EnvironmentTimely, StartTimely, AnchorTimely, EndTimely, ReadTimely, InsertTimely

\* An event that was stored before its window was summarised is in the summary
\* (aggregator.ts:77, the catch-up from the last window's end), however many runs
\* of the unguarded timer overlap and wherever they die.
THEOREM OnTimeIsCounted == AggregatorSpec => []OnTimeCounted
  <1>1. TimelyInv => OnTimeCounted
    BY DEF TimelyInv
  <1>. QED
    BY <1>1, TimelyInit, TimelyNext, PTL DEF AggregatorSpec

-----------------------------------------------------------------------------
(* And once, unless runs overlap                                            *)

\* What happens outside the run does not touch what is counted.
LEMMA EnvironmentOnce ==
    ASSUME OnceInv, TimelyInv', Tick \/ \E e \in Metered : EmitEvent(e) \/ StoreEvent(e)
    PROVE  OnceInv'
  <1>1. UNCHANGED <<counted, lastEnd, phase, cursor, limit, rows>>
    BY DEF Tick, EmitEvent, StoreEvent, runState
  <1>2. \A e \in table : e \in table' /\ ts'[e] = ts[e]
    <2>1. \A e \in table : e \in Metered /\ ts[e] # NotEmitted
      BY DEF OnceInv, TimelyInv, StoredIsStamped, AggregatorTypeOK, NotEmitted
    <2>2. ts \in [Metered -> {NotEmitted} \cup 1..MaxTime]
      BY DEF OnceInv, TimelyInv, AggregatorTypeOK
    <2>. QED
      BY <2>1, <2>2 DEF Tick, EmitEvent, StoreEvent
  <1>3. \A r \in Runs : WindowEnd(r)' = WindowEnd(r)
    BY <1>1 DEF WindowEnd
  <1>4. CountedAtMostOnce' /\ CountedIsPast'
    BY <1>1, <1>2, <1>3 DEF OnceInv, CountedAtMostOnce, CountedIsPast
  <1>. QED
    BY <1>4 DEF OnceInv

\* The run starts where the last one ended, and counts nothing before.
LEMMA RunOnce ==
    ASSUME OneRun, OnceInv, TimelyInv', NEW r \in Runs,
           \/ StartRun(r) \/ Anchor(r) \/ ReadWindow(r) \/ AnchorEmpty(r) \/ AbortRun(r)
    PROVE  OnceInv'
  <1>1. AggregatorTypeOK /\ StoredIsStamped /\ CountedAtMostOnce /\ CountedIsPast /\ \A s \in Runs : s = r
    BY DEF OnceInv, TimelyInv, OneRun
  <1>2. UNCHANGED <<ts, table, counted>>
    BY DEF StartRun, Anchor, ReadWindow, AnchorEmpty, AbortRun
  <1>3. lastEnd \in 0..MaxTime /\ lastEnd' \in 0..MaxTime /\ lastEnd <= lastEnd'
    <2>1. lastEnd \in 0..MaxTime /\ lastEnd' \in 0..MaxTime
      BY DEF OnceInv, TimelyInv, AggregatorTypeOK
    <2>2. lastEnd' = lastEnd \/ lastEnd' = IF lastEnd > limit[r] THEN lastEnd ELSE limit[r]
      BY DEF StartRun, Anchor, ReadWindow, AnchorEmpty, AbortRun
    <2>3. limit[r] \in 0..MaxTime
      BY <1>1 DEF AggregatorTypeOK
    <2>. QED
      BY <2>1, <2>2, <2>3
  <1>4. CountedAtMostOnce' /\ \A e \in Metered : counted'[e] >= 1 => e \in table' /\ ts'[e] < lastEnd'
    <2>. SUFFICES ASSUME NEW e \in Metered, counted[e] >= 1 PROVE e \in table /\ ts[e] < lastEnd'
      BY <1>1, <1>2 DEF CountedAtMostOnce
    <2>1. e \in table /\ ts[e] < lastEnd /\ ts[e] \in 1..MaxTime
      BY <1>1 DEF CountedIsPast, StoredIsStamped
    <2>. QED
      BY <1>3, <2>1
  <1>5. /\ phase'[r] = "anchor" => lastEnd' = 0
        /\ phase'[r] \in {"read", "insert"} => lastEnd' = 0 \/ lastEnd' = cursor'[r]
        /\ \A e \in rows'[r] : /\ phase'[r] = "insert" /\ e \in table'
                               /\ cursor'[r] <= ts'[e] /\ ts'[e] < WindowEnd(r)'
    <2>1. CASE StartRun(r) \/ Anchor(r)
      BY <1>1, <2>1 DEF CountedIsPast, StartRun, Anchor, AggregatorTypeOK
    <2>2. CASE ReadWindow(r)
      BY <1>1, <2>2 DEF CountedIsPast, ReadWindow, AggregatorTypeOK, EventsIn, WindowEnd
    <2>3. CASE AnchorEmpty(r) \/ AbortRun(r)
      BY <1>1, <2>3, EndEffect DEF AnchorEmpty, AbortRun
    <2>. QED
      BY <2>1, <2>2, <2>3
  <1>6. CountedIsPast'
    BY <1>1, <1>4, <1>5 DEF CountedIsPast
  <1>. QED
    BY <1>4, <1>6 DEF OnceInv

\* What the run has read was not counted, and is before the end it writes.
LEMMA InsertOnce ==
    ASSUME OneRun, OnceInv, TimelyInv', NEW r \in Runs, InsertSummaries(r)
    PROVE  OnceInv'
  <1>1. AggregatorTypeOK /\ StoredIsStamped /\ CountedAtMostOnce /\ CountedIsPast /\ \A s \in Runs : s = r
    BY DEF OnceInv, TimelyInv, OneRun
  <1>2. /\ UNCHANGED <<ts, table>> /\ phase[r] = "insert"
        /\ counted' = [e \in Metered |-> counted[e] + IF e \in rows[r] THEN 1 ELSE 0]
        /\ lastEnd' = IF lastEnd > WindowEnd(r) THEN lastEnd ELSE WindowEnd(r)
    BY DEF InsertSummaries
  <1>3. /\ cursor[r] \in 0..MaxTime /\ WindowEnd(r) \in 0..MaxTime /\ cursor[r] < WindowEnd(r)
        /\ lastEnd \in 0..MaxTime /\ (lastEnd = 0 \/ lastEnd = cursor[r])
    BY <1>1, <1>2, WindowEndBounds DEF AggregatorTypeOK, CountedIsPast
  <1>4. lastEnd' = WindowEnd(r)
    BY <1>2, <1>3
  <1>5. \A e \in rows[r] : /\ e \in table /\ ts[e] \in 1..MaxTime
                           /\ cursor[r] <= ts[e] /\ ts[e] < WindowEnd(r)
    BY <1>1 DEF CountedIsPast, StoredIsStamped
  <1>6. \A e \in Metered : /\ counted[e] \in Nat
                           /\ counted[e] >= 1 => e \in table /\ ts[e] < lastEnd /\ ts[e] \in 1..MaxTime
    BY <1>1 DEF CountedIsPast, StoredIsStamped, AggregatorTypeOK
  <1>7. \A e \in Metered : e \in rows[r] => counted[e] = 0
    <2>. SUFFICES ASSUME NEW e \in Metered, e \in rows[r] PROVE counted[e] = 0
      OBVIOUS
    <2>1. ~(ts[e] < lastEnd)
      BY <1>3, <1>5
    <2>. QED
      BY <1>6, <2>1
  <1>8. CountedAtMostOnce'
    BY <1>1, <1>2, <1>6, <1>7 DEF CountedAtMostOnce
  <1>9. \A e \in Metered : counted'[e] >= 1 => e \in table' /\ ts'[e] < lastEnd'
    <2>. SUFFICES ASSUME NEW e \in Metered, counted'[e] >= 1 PROVE e \in table /\ ts[e] < WindowEnd(r)
      BY <1>2, <1>4
    <2>1. CASE e \in rows[r]
      BY <1>5, <2>1
    <2>2. CASE e \notin rows[r]
      <3>1. counted[e] >= 1
        BY <1>2, <1>6, <2>2
      <3>. QED
        BY <1>3, <1>6, <3>1
    <2>. QED
      BY <2>1, <2>2
  <1>10. /\ phase'[r] # "anchor" /\ rows'[r] = {}
         /\ phase'[r] \in {"read", "insert"} => lastEnd' = cursor'[r]
    <2>1. CASE WindowEnd(r) < limit[r]
      BY <1>1, <1>4, <2>1 DEF InsertSummaries, AggregatorTypeOK
    <2>2. CASE ~(WindowEnd(r) < limit[r])
      BY <1>1, <2>2, EndEffect DEF InsertSummaries
    <2>. QED
      BY <2>1, <2>2
  <1>11. CountedIsPast'
    BY <1>1, <1>9, <1>10 DEF CountedIsPast
  <1>. QED
    BY <1>8, <1>11 DEF OnceInv

\* Every step keeps what is counted counted once.
LEMMA OnceNext == OneRun /\ OnceInv /\ [AggregatorNext]_aggregatorVars => OnceInv'
  <1>. SUFFICES ASSUME OneRun, OnceInv, [AggregatorNext]_aggregatorVars PROVE OnceInv'
    OBVIOUS
  <1>1. TimelyInv'
    BY TimelyNext DEF OnceInv
  <1>2. CASE UNCHANGED aggregatorVars
    BY <1>1, <1>2 DEF OnceInv, CountedAtMostOnce, CountedIsPast, WindowEnd, aggregatorVars
  <1>3. \/ UNCHANGED aggregatorVars
        \/ Tick \/ \E e \in Metered : EmitEvent(e) \/ StoreEvent(e)
        \/ \E r \in Runs : InsertSummaries(r)
        \/ \E r \in Runs : \/ StartRun(r) \/ Anchor(r) \/ ReadWindow(r)
                           \/ AnchorEmpty(r) \/ AbortRun(r)
    BY DEF AggregatorNext, Work
  <1>. QED
    BY <1>1, <1>2, <1>3, EnvironmentOnce, RunOnce, InsertOnce

\* While no two runs overlap (nothing in the code prevents it: aggregator.ts
\* starts them from a plain setInterval at line 128), a meter event is in one summary and,
\* if it came in time, not in none.
THEOREM EventsAreCountedOnce == OneRun => (AggregatorSpec => []CountsRight)
  <1>. SUFFICES ASSUME OneRun PROVE AggregatorSpec => []CountsRight
    OBVIOUS
  <1>1. AggregatorInit => OnceInv
    BY TimelyInit DEF OnceInv, AggregatorInit, CountedAtMostOnce, CountedIsPast
  <1>2. OnceInv /\ [AggregatorNext]_aggregatorVars => OnceInv'
    BY OnceNext
  <1>3. OnceInv => CountsRight
    BY DEF OnceInv, TimelyInv, CountsRight
  <1>. QED
    BY <1>1, <1>2, <1>3, PTL DEF AggregatorSpec

(***************************************************************************)
(* The top-up: every number of calls, PaymentIntents, debits, faults,      *)
(* process deaths and re-enablings.                                        *)
(***************************************************************************)
\* What is credited was paid first: by the call that holds the PaymentIntent,
\* and by the webhook that was told of it.
PaidFirst ==
    /\ \A u \in Triggers : step[u] \in {"has", "credit"} => intent[u] \in paid
    /\ \A p \in Intents : delivery[p] # "none" => p \in paid

\* Calls past the settings that may yet count a failure.
MayCount == {u \in Triggers : step[u] \in {"balance", "acquire", "charge", "has", "credit",
                                           "succeeded", "failed", "caught"}}

\* A failure has been counted and not yet been judged.
Judging == {"recount", "disable", "recountCaught", "disableCaught"}

\* What the failures may add up to: a round of all calls to begin with, and
\* another one for every throw and every time the user switches on again.
Budget == MaxConsecutiveFailures + Cardinality(Triggers) * (1 + faults + enables)

\* While top-ups are on, a whole round is left, but for the failure being
\* judged; once they are off, only the calls past the settings add to it.
StreakPaced ==
    deaths = 0 =>
        IF enabled
          THEN /\ streak <= Budget - Cardinality(Triggers)
               /\ (\A u \in Triggers : step[u] \notin Judging) =>
                      streak < Budget - Cardinality(Triggers)
          ELSE streak + Cardinality(MayCount) < Budget

UsageInv ==
    /\ UsageTypeOK /\ OneCharger /\ FlagIsHeld
    /\ PaidFirst /\ GrantedOnce
    /\ StreakPaced

-----------------------------------------------------------------------------
(* Types, the in-flight flag and the order of charge and credit             *)

\* Initially nothing is under way.
LEMMA UsageInvInit == UsageInit => UsageInv
  <1>. SUFFICES ASSUME UsageInit PROVE UsageInv
    OBVIOUS
  <1>1. UsageTypeOK
    <2>1. debits \in 0..MaxDebits /\ faults \in 0..MaxFaults /\ deaths \in 0..MaxDeaths /\ enables \in 0..MaxEnables
      BY UsageTopupAssumption DEF UsageInit
    <2>2. step \in [Triggers -> Statements] /\ intent \in [Triggers -> Intents \cup {NoIntent}]
      BY DEF UsageInit, Statements
    <2>3. posted \in [Intents -> Nat] /\ delivery \in [Intents -> {"none", "pending", "credit", "seen"}]
      BY DEF UsageInit
    <2>4. balance \in Int /\ {enabled, inFlight} \subseteq BOOLEAN /\ streak \in Nat /\ paid \subseteq Intents
      BY UsageTopupAssumption DEF UsageInit
    <2>. QED
      BY <2>1, <2>2, <2>3, <2>4 DEF UsageTypeOK
  <1>4. OneCharger /\ FlagIsHeld /\ PaidFirst
    BY DEF UsageInit, OneCharger, FlagIsHeld, PaidFirst, Charging
  <1>2. GrantedOnce
    <2>1. {p \in Intents : posted[p] > 0} = {}
      BY DEF UsageInit
    <2>. QED
      BY <2>1, FS_EmptySet, UsageTopupAssumption DEF UsageInit, GrantedOnce
  <1>3. StreakPaced
    <2>1. Cardinality(Triggers) \in Nat
      BY UsageTopupAssumption, FS_CardinalityType
    <2>. QED
      BY <2>1, UsageTopupAssumption DEF UsageInit, StreakPaced, Budget
  <1>. QED
    BY <1>1, <1>2, <1>3, <1>4 DEF UsageInv

\* A statement's types and the flag, one lemma for the calls' own steps ...
LEMMA CallKeepsFlag ==
    ASSUME UsageTypeOK, OneCharger, FlagIsHeld, PaidFirst, NEW u \in Triggers,
           Debit(u) \/ TopupStep(u) \/ IntentAnswerLost(u) \/ TopupThrows(u)
    PROVE  UsageTypeOK' /\ OneCharger' /\ FlagIsHeld' /\ PaidFirst'
  <1>. USE UsageTopupAssumption
       DEF UsageTypeOK, OneCharger, FlagIsHeld, PaidFirst, Charging, Statements, row, topupBounds
  <1>1. CASE Debit(u)
    BY <1>1 DEF Debit, Goto
  <1>2. CASE CheckSettings(u)
    BY <1>2 DEF CheckSettings, Goto
  <1>3. CASE CheckBalance(u)
    BY <1>3 DEF CheckBalance, Goto
  <1>4. CASE Acquire(u)
    BY <1>4 DEF Acquire, Goto
  <1>5. CASE ChargeRefused(u)
    BY <1>5 DEF ChargeRefused, Goto
  <1>6. CASE CreateIntent(u)
    BY <1>6 DEF CreateIntent, Goto
  <1>7. CASE IntentAnswerLost(u)
    BY <1>7 DEF IntentAnswerLost, Goto
  <1>8. CASE HasReference(u)
    BY <1>8 DEF HasReference, Goto
  <1>9. CASE CreditInline(u)
    BY <1>9 DEF CreditInline, Goto, Post
  <1>10. CASE CreditRefused(u)
    BY <1>10 DEF CreditRefused, Goto
  <1>11. CASE ResetFailures(u)
    BY <1>11 DEF ResetFailures, Goto
  <1>12. CASE IncrementFailures(u)
    BY <1>12 DEF IncrementFailures, Goto
  <1>13. CASE Recount(u)
    BY <1>13 DEF Recount, Goto
  <1>14. CASE DisableUsage(u)
    BY ZenonT(60), <1>14 DEF DisableUsage, Goto
  <1>15. CASE Release(u)
    BY <1>15 DEF Release, Goto
  <1>16. CASE TopupThrows(u)
    <2>1. /\ step[u] \in Charging => AfterThrow(step[u]) \in {"idle", "caught", "release"}
          /\ step[u] \notin Charging /\ step[u] # "idle" => AfterThrow(step[u]) = "idle"
      BY DEF AfterThrow
    <2>. QED
      BY <1>16, <2>1 DEF TopupThrows
  <1>. QED
    BY <1>1, <1>2, <1>3, <1>4, <1>5, <1>6, <1>7, <1>8, <1>9, <1>10, <1>11, <1>12, <1>13, <1>14,
       <1>15, <1>16 DEF TopupStep, Charge

\* ... and one for everything else.
LEMMA OthersKeepFlag ==
    ASSUME UsageTypeOK, OneCharger, FlagIsHeld, PaidFirst,
           (\E p \in Intents : Webhook(p)) \/ UserEnables \/ TopupCrash \/ UNCHANGED usageVars
    PROVE  UsageTypeOK' /\ OneCharger' /\ FlagIsHeld' /\ PaidFirst'
  <1>. USE UsageTopupAssumption
       DEF UsageTypeOK, OneCharger, FlagIsHeld, PaidFirst, Charging, Statements, row, topupBounds
  <1>1. ASSUME NEW p \in Intents, WebhookCheck(p) \/ WebhookCredit(p) \/ WebhookThrows(p)
        PROVE  UsageTypeOK' /\ OneCharger' /\ FlagIsHeld' /\ PaidFirst'
    BY <1>1 DEF WebhookCheck, WebhookCredit, WebhookThrows, Post
  <1>2. CASE UserEnables
    BY <1>2 DEF UserEnables
  <1>3. CASE TopupCrash
    BY <1>3 DEF TopupCrash
  <1>4. CASE UNCHANGED usageVars
    BY <1>4 DEF usageVars
  <1>. QED
    BY <1>1, <1>2, <1>3, <1>4 DEF Webhook

-----------------------------------------------------------------------------
(* Each PaymentIntent is granted once                                       *)

Granted == {p \in Intents : posted[p] > 0}

\* A credit of a paid PaymentIntent is one grant more.
LEMMA PostGrants ==
    ASSUME UsageTypeOK, GrantedOnce, NEW p \in Intents, p \in paid, Post(p), UNCHANGED <<paid, debits>>
    PROVE  GrantedOnce'
  <1>1. p \notin Granted /\ Granted' = Granted \cup {p}
    BY DEF Post, Granted, UsageTypeOK
  <1>2. IsFiniteSet(Granted) /\ Cardinality(Granted) \in Nat
    BY UsageTopupAssumption, FS_Subset, FS_CardinalityType DEF Granted
  <1>3. Cardinality(Granted') = Cardinality(Granted) + 1
    BY <1>1, <1>2, FS_AddElement
  <1>4. Topup * (Cardinality(Granted) + 1) = Topup * Cardinality(Granted) + Topup
    BY <1>2, UsageTopupAssumption
  <1>5. balance = Threshold - debits + Topup * Cardinality(Granted)
    BY DEF GrantedOnce, Granted
  <1>6. Topup * Cardinality(Granted) \in Int /\ debits \in Int /\ Threshold \in Int /\ Topup \in Int
    BY <1>2, UsageTopupAssumption DEF UsageTypeOK
  <1>7. balance' = Threshold - debits' + Topup * Cardinality(Granted')
    BY <1>3, <1>4, <1>5, <1>6 DEF Post
  <1>8. \A q \in Intents : posted'[q] <= 1 /\ (posted'[q] > 0 => q \in paid')
    BY DEF Post, GrantedOnce, UsageTypeOK
  <1>. QED
    BY <1>7, <1>8 DEF GrantedOnce, Granted

\* No step grants twice, or what was not paid.
LEMMA GrantedNext ==
    ASSUME UsageTypeOK, PaidFirst, GrantedOnce, [UsageNext]_usageVars
    PROVE  GrantedOnce'
  <1>. USE DEF row, topupBounds
  <1>1. ASSUME NEW u \in Triggers, CreditInline(u) PROVE GrantedOnce'
    <2>1. intent[u] \in Intents /\ intent[u] \in paid
      BY <1>1 DEF CreditInline, Goto, PaidFirst, UsageTypeOK
    <2>. QED
      BY <1>1, <2>1, PostGrants DEF CreditInline
  <1>2. ASSUME NEW p \in Intents, WebhookCredit(p) PROVE GrantedOnce'
    BY <1>2, PostGrants DEF WebhookCredit, PaidFirst
  <1>3. ASSUME NEW u \in Triggers, Debit(u) PROVE GrantedOnce'
    <2>1. debits' = debits + 1 /\ balance' = balance - 1 /\ UNCHANGED <<posted, paid>>
      BY <1>3 DEF Debit
    <2>2. Granted' = Granted /\ Topup * Cardinality(Granted) \in Int
      BY <2>1, UsageTopupAssumption, FS_Subset, FS_CardinalityType DEF Granted
    <2>3. balance = Threshold - debits + Topup * Cardinality(Granted) /\ debits \in Int /\ Threshold \in Int
      BY UsageTopupAssumption DEF GrantedOnce, Granted, UsageTypeOK
    <2>4. balance' = Threshold - debits' + Topup * Cardinality(Granted')
      BY <2>1, <2>2, <2>3
    <2>. QED
      BY <2>1, <2>4 DEF GrantedOnce, Granted
  <1>4. ASSUME UNCHANGED <<balance, posted, debits>>, paid \subseteq paid' PROVE GrantedOnce'
    BY <1>4 DEF GrantedOnce
  <1>5. ASSUME NEW u \in Triggers,
               \/ CheckSettings(u) \/ CheckBalance(u) \/ Acquire(u)
               \/ ChargeRefused(u) \/ CreateIntent(u) \/ HasReference(u) \/ CreditRefused(u)
               \/ ResetFailures(u) \/ IncrementFailures(u) \/ Recount(u) \/ DisableUsage(u)
               \/ Release(u) \/ IntentAnswerLost(u) \/ TopupThrows(u)
        PROVE  GrantedOnce'
    BY <1>4, <1>5
       DEF CheckSettings, CheckBalance, Acquire, ChargeRefused, CreateIntent, HasReference,
           CreditRefused, ResetFailures, IncrementFailures, Recount, DisableUsage, Release,
           IntentAnswerLost, TopupThrows
  <1>6. ASSUME NEW p \in Intents, WebhookCheck(p) \/ WebhookThrows(p) PROVE GrantedOnce'
    BY <1>4, <1>6 DEF WebhookCheck, WebhookThrows
  <1>7. CASE UserEnables \/ TopupCrash \/ UNCHANGED usageVars
    BY <1>4, <1>7 DEF UserEnables, TopupCrash, usageVars
  <1>. QED
    BY <1>1, <1>2, <1>3, <1>5, <1>6, <1>7 DEF UsageNext, TopupStep, Charge, Webhook

-----------------------------------------------------------------------------
(* The failing ones end                                                     *)

\* The calls are finitely many, and one that is no longer counted is one less.
LEMMA MayCountFinite ==
    /\ IsFiniteSet(MayCount) /\ Cardinality(MayCount) \in Nat
    /\ Cardinality(Triggers) \in Nat /\ Cardinality(MayCount) <= Cardinality(Triggers)
  BY UsageTopupAssumption, FS_Subset, FS_CardinalityType DEF MayCount

\* The budget, with one throw or one re-enabling more.
LEMMA BudgetGrows ==
    ASSUME UsageTypeOK
    PROVE  /\ Budget \in Nat
           /\ Budget - Cardinality(Triggers) >= MaxConsecutiveFailures
           /\ faults' = faults + 1 /\ enables' = enables => Budget' = Budget + Cardinality(Triggers)
           /\ enables' = enables + 1 /\ faults' = faults => Budget' = Budget + Cardinality(Triggers)
           /\ UNCHANGED <<faults, enables>> => Budget' = Budget
  <1>. DEFINE c == Cardinality(Triggers)
  <1>1. c \in Nat /\ MaxConsecutiveFailures \in Nat
    BY UsageTopupAssumption, MayCountFinite
  <1>2. faults \in Nat /\ enables \in Nat
    BY UsageTopupAssumption DEF UsageTypeOK
  <1>. HIDE DEF c
  <1>3. ASSUME NEW k \in Nat PROVE c * k \in Nat /\ c * (1 + k) = c + c * k
    BY <1>1, <1>3
  <1>4. faults + enables \in Nat /\ 1 + faults + enables \in Nat /\ 1 + faults + enables = 1 + (faults + enables)
    BY <1>2
  <1>5. Budget = MaxConsecutiveFailures + (c + c * (faults + enables))
    BY <1>3, <1>4 DEF Budget, c
  <1>6. c * (faults + enables) \in Nat
    BY <1>3, <1>4
  <1>7. c * (1 + (1 + faults + enables)) = c + c * (1 + faults + enables)
    BY <1>3, <1>4
  <1>8. ASSUME \/ faults' = faults + 1 /\ enables' = enables
               \/ enables' = enables + 1 /\ faults' = faults
        PROVE  Budget' = Budget + c
    <2>1. 1 + faults' + enables' = 1 + (1 + faults + enables)
      BY <1>2, <1>8
    <2>2. Budget' = MaxConsecutiveFailures + c * (1 + (1 + faults + enables))
      BY <2>1 DEF Budget, c
    <2>3. c * (1 + faults + enables) \in Nat
      BY <1>3, <1>4
    <2>. QED
      BY <1>1, <1>7, <2>2, <2>3 DEF Budget, c
  <1>9. Budget \in Nat /\ Budget - c >= MaxConsecutiveFailures
    BY <1>1, <1>5, <1>6
  <1>10. UNCHANGED <<faults, enables>> => Budget' = Budget
    BY DEF Budget
  <1>. QED
    BY <1>8, <1>9, <1>10 DEF c

\* How a step changes who may still count: not at all, by u leaving, or by u
\* coming back from a judgement that threw.
LEMMA MayCountSteps ==
    ASSUME UsageTypeOK
    PROVE  /\ MayCount' \subseteq MayCount => Cardinality(MayCount') <= Cardinality(MayCount)
           /\ \A u \in MayCount : MayCount' \subseteq MayCount \ {u}
                 => Cardinality(MayCount') < Cardinality(MayCount)
           /\ \A u \in Triggers : MayCount' \subseteq MayCount \cup {u}
                 => Cardinality(MayCount') <= Cardinality(MayCount) + 1
           /\ \A u \in Triggers : MayCount' \subseteq Triggers \ {u}
                 => Cardinality(MayCount') < Cardinality(Triggers)
  <1>1. /\ IsFiniteSet(MayCount) /\ Cardinality(MayCount) \in Nat
        /\ IsFiniteSet(Triggers) /\ Cardinality(Triggers) \in Nat
    BY MayCountFinite, UsageTopupAssumption
  <1>2. MayCount' \subseteq MayCount => Cardinality(MayCount') <= Cardinality(MayCount)
    BY <1>1, FS_Subset
  <1>3. ASSUME NEW u \in MayCount, MayCount' \subseteq MayCount \ {u}
        PROVE  Cardinality(MayCount') < Cardinality(MayCount)
    <2>1. IsFiniteSet(MayCount \ {u}) /\ Cardinality(MayCount \ {u}) = Cardinality(MayCount) - 1
      BY <1>1, FS_RemoveElement
    <2>2. Cardinality(MayCount') <= Cardinality(MayCount \ {u}) /\ Cardinality(MayCount') \in Nat
      BY <1>3, <2>1, FS_Subset, FS_CardinalityType
    <2>. QED
      BY <1>1, <2>1, <2>2
  <1>4. ASSUME NEW u \in Triggers, MayCount' \subseteq MayCount \cup {u}
        PROVE  Cardinality(MayCount') <= Cardinality(MayCount) + 1
    <2>1. IsFiniteSet(MayCount \cup {u}) /\ Cardinality(MayCount \cup {u}) <= Cardinality(MayCount) + 1
      BY <1>1, FS_AddElement
    <2>2. Cardinality(MayCount \cup {u}) \in Nat
      BY <2>1, FS_CardinalityType
    <2>3. Cardinality(MayCount') <= Cardinality(MayCount \cup {u}) /\ Cardinality(MayCount') \in Nat
      BY <1>4, <2>1, FS_Subset, FS_CardinalityType
    <2>. QED
      BY <1>1, <2>1, <2>2, <2>3
  <1>5. ASSUME NEW u \in Triggers, MayCount' \subseteq Triggers \ {u}
        PROVE  Cardinality(MayCount') < Cardinality(Triggers)
    <2>1. IsFiniteSet(Triggers \ {u}) /\ Cardinality(Triggers \ {u}) = Cardinality(Triggers) - 1
      BY <1>1, FS_RemoveElement
    <2>2. Cardinality(MayCount') <= Cardinality(Triggers \ {u}) /\ Cardinality(MayCount') \in Nat
      BY <1>5, <2>1, FS_Subset, FS_CardinalityType
    <2>. QED
      BY <1>1, <2>1, <2>2
  <1>. QED
    BY <1>2, <1>3, <1>4, <1>5

\* A step that counts no failure, switches nothing on or off and judges
\* nothing, and by which nobody new comes past the settings.
LEMMA PaceKept ==
    ASSUME UsageTypeOK, UsageTypeOK', StreakPaced,
           UNCHANGED <<enabled, faults, enables>>, streak' <= streak, deaths' >= deaths,
           ~enabled => MayCount' \subseteq MayCount,
           \A u \in Triggers : step[u] \in Judging =>
              step'[u] \in Judging \/ streak' < MaxConsecutiveFailures
    PROVE  StreakPaced'
  <1>. DEFINE c == Cardinality(Triggers)
  <1>1. /\ streak \in Nat /\ streak' \in Nat /\ deaths \in Nat /\ deaths' \in Nat /\ enabled \in BOOLEAN
        /\ c \in Nat /\ Cardinality(MayCount) \in Nat /\ Cardinality(MayCount)' \in Nat
        /\ MaxConsecutiveFailures \in Nat
    <2>1. Cardinality(MayCount)' \in Nat
      <3>1. IsFiniteSet(MayCount')
        BY UsageTopupAssumption, FS_Subset DEF MayCount
      <3>. QED
        BY <3>1, FS_CardinalityType
    <2>. QED
      BY <2>1, MayCountFinite, UsageTopupAssumption DEF UsageTypeOK
  <1>2. Budget \in Nat /\ Budget' = Budget /\ Budget - c >= MaxConsecutiveFailures
    BY BudgetGrows
  <1>3. ~enabled => Cardinality(MayCount)' <= Cardinality(MayCount)
    BY MayCountSteps
  <1>. SUFFICES ASSUME deaths' = 0 PROVE StreakPaced'
    BY DEF StreakPaced
  <1>4. deaths = 0
    BY <1>1
  <1>5. CASE enabled
    <2>1. streak <= Budget - c /\ ((\A u \in Triggers : step[u] \notin Judging) => streak < Budget - c)
      BY <1>4, <1>5 DEF StreakPaced
    <2>2. streak' <= Budget' - c
      BY <1>1, <1>2, <2>1
    <2>3. ASSUME \A u \in Triggers : step'[u] \notin Judging PROVE streak' < Budget' - c
      <3>1. CASE \A u \in Triggers : step[u] \notin Judging
        BY <1>1, <1>2, <2>1, <3>1
      <3>2. CASE \E u \in Triggers : step[u] \in Judging
        BY <1>1, <1>2, <2>3, <3>2
      <3>. QED
        BY <3>1, <3>2
    <2>. QED
      BY <1>5, <2>2, <2>3 DEF StreakPaced
  <1>6. CASE ~enabled
    <2>1. streak + Cardinality(MayCount) < Budget
      BY <1>4, <1>6 DEF StreakPaced
    <2>2. streak' + Cardinality(MayCount)' < Budget'
      BY <1>1, <1>2, <1>3, <1>6, <2>1
    <2>. QED
      BY <1>6, <2>2 DEF StreakPaced
  <1>. QED
    BY <1>1, <1>5, <1>6

\* A throw pays for what it lets happen.
LEMMA PaceThrows ==
    ASSUME UsageTypeOK, UsageTypeOK', StreakPaced, NEW u \in Triggers,
           UNCHANGED <<enabled, streak, deaths, enables>>, faults' = faults + 1,
           MayCount' \subseteq MayCount \cup {u}
    PROVE  StreakPaced'
  <1>. DEFINE c == Cardinality(Triggers)
  <1>1. /\ streak \in Nat /\ enabled \in BOOLEAN
        /\ c \in Nat /\ Cardinality(MayCount) \in Nat /\ Cardinality(MayCount)' \in Nat
    <2>1. IsFiniteSet(MayCount')
      BY UsageTopupAssumption, FS_Subset DEF MayCount
    <2>. QED
      BY <2>1, FS_CardinalityType, MayCountFinite DEF UsageTypeOK
  <1>2. Budget \in Nat /\ Budget' = Budget + c
    BY BudgetGrows
  <1>3. c > 0
    <2>1. IsFiniteSet(Triggers \ {u}) /\ Cardinality(Triggers \ {u}) = c - 1
      BY UsageTopupAssumption, FS_RemoveElement
    <2>2. Cardinality(Triggers \ {u}) \in Nat
      BY <2>1, FS_CardinalityType
    <2>. QED
      BY <1>1, <2>1, <2>2
  <1>4. Cardinality(MayCount)' <= Cardinality(MayCount) + 1
    BY MayCountSteps
  <1>. HIDE DEF c
  <1>5. CASE enabled
    <2>1. deaths = 0 => streak <= Budget - c
      BY <1>5 DEF StreakPaced, c
    <2>2. deaths = 0 => streak' < Budget' - c
      BY <1>1, <1>2, <1>3, <2>1
    <2>3. Budget' - c \in Int
      BY <1>1, <1>2
    <2>. QED
      BY <1>1, <1>5, <2>2, <2>3 DEF StreakPaced, c
  <1>6. CASE ~enabled
    <2>1. deaths = 0 => streak + Cardinality(MayCount) < Budget
      BY <1>6 DEF StreakPaced
    <2>2. deaths = 0 => streak' + Cardinality(MayCount)' < Budget'
      BY <1>1, <1>2, <1>3, <1>4, <2>1
    <2>. QED
      BY <1>6, <2>2 DEF StreakPaced
  <1>. QED
    BY <1>1, <1>5, <1>6

\* No step lets the failures run away.
LEMMA PaceNext ==
    ASSUME UsageTypeOK, UsageTypeOK', OneCharger, StreakPaced, [UsageNext]_usageVars
    PROVE  StreakPaced'
  <1>. USE DEF row, topupBounds
  <1>. DEFINE c == Cardinality(Triggers)
  <1>0. /\ streak \in Nat /\ enabled \in BOOLEAN /\ deaths \in Nat
        /\ c \in Nat /\ Cardinality(MayCount) \in Nat /\ Cardinality(MayCount)' \in Nat
        /\ MaxConsecutiveFailures \in Nat \ {0} /\ Budget \in Nat
    <2>1. IsFiniteSet(MayCount')
      BY UsageTopupAssumption, FS_Subset DEF MayCount
    <2>2. streak \in Nat /\ enabled \in BOOLEAN /\ deaths \in Nat
      BY UsageTopupAssumption DEF UsageTypeOK
    <2>3. Cardinality(MayCount)' \in Nat
      BY <2>1, FS_CardinalityType
    <2>4. Budget \in Nat
      BY BudgetGrows
    <2>. QED
      BY <2>2, <2>3, <2>4, MayCountFinite, UsageTopupAssumption
  <1>1. ASSUME NEW u \in Triggers, IncrementFailures(u) PROVE StreakPaced'
    <2>1. /\ step[u] \in {"failed", "caught"} /\ step'[u] \in Judging
          /\ \A v \in Triggers \ {u} : step'[v] = step[v]
          /\ streak' = streak + 1 /\ UNCHANGED <<enabled, faults, enables, deaths>>
      BY <1>1 DEF IncrementFailures, Goto, UsageTypeOK, Judging
    <2>2. \A v \in Triggers : step[v] \notin Judging
      BY <2>1 DEF OneCharger, Charging, Judging
    <2>3. u \in MayCount /\ MayCount' \subseteq MayCount \ {u}
      BY <2>1 DEF MayCount, Judging
    <2>4. Cardinality(MayCount)' < Cardinality(MayCount)
      BY <2>3, MayCountSteps
    <2>5. Budget' = Budget
      BY <2>1 DEF Budget
    <2>6. CASE enabled
      <3>1. deaths = 0 => streak' <= Budget' - c
        BY <1>0, <2>1, <2>2, <2>5, <2>6 DEF StreakPaced
      <3>. QED
        BY <2>1, <2>6, <3>1 DEF StreakPaced
    <2>7. CASE ~enabled
      <3>1. deaths = 0 => streak' + Cardinality(MayCount)' < Budget'
        BY <1>0, <2>1, <2>4, <2>5, <2>7 DEF StreakPaced
      <3>. QED
        BY <2>1, <2>7, <3>1 DEF StreakPaced
    <2>. QED
      BY <1>0, <2>6, <2>7
  <1>2. ASSUME NEW u \in Triggers, DisableUsage(u) PROVE StreakPaced'
    <2>1. /\ step[u] \in Judging /\ step'[u] = "release"
          /\ \A v \in Triggers \ {u} : step'[v] = step[v]
          /\ ~enabled' /\ UNCHANGED <<streak, faults, enables, deaths>>
      BY <1>2 DEF DisableUsage, Goto, UsageTypeOK, Judging
    <2>2. MayCount' \subseteq MayCount /\ MayCount' \subseteq Triggers \ {u}
      BY <2>1 DEF MayCount
    <2>3. Cardinality(MayCount)' <= Cardinality(MayCount) /\ Cardinality(MayCount)' < c
      BY <2>2, MayCountSteps
    <2>4. Budget' = Budget
      BY <2>1 DEF Budget
    <2>5. deaths = 0 => streak' + Cardinality(MayCount)' < Budget'
      BY <1>0, <2>1, <2>3, <2>4 DEF StreakPaced
    <2>. QED
      BY <2>1, <2>5 DEF StreakPaced
  <1>3. CASE UserEnables
    <2>1. ~enabled /\ enabled' /\ enables' = enables + 1 /\ UNCHANGED <<streak, faults, deaths>>
      BY <1>3 DEF UserEnables
    <2>2. Budget' = Budget + c
      BY <2>1, BudgetGrows
    <2>3. deaths = 0 => streak' < Budget' - c
      BY <1>0, <2>1, <2>2 DEF StreakPaced
    <2>4. Budget' - c \in Int
      BY <1>0, <2>2
    <2>. QED
      BY <1>0, <2>1, <2>3, <2>4 DEF StreakPaced
  <1>4. ASSUME NEW u \in Triggers, IntentAnswerLost(u) PROVE StreakPaced'
    <2>1. /\ step[u] = "charge" /\ \A v \in Triggers \ {u} : step'[v] = step[v]
          /\ faults' = faults + 1 /\ UNCHANGED <<enabled, streak, deaths, enables>>
      BY <1>4 DEF IntentAnswerLost, Goto, UsageTypeOK
    <2>2. MayCount' \subseteq MayCount \cup {u}
      BY <2>1 DEF MayCount
    <2>. QED
      BY <2>1, <2>2, PaceThrows
  <1>5. ASSUME NEW u \in Triggers, TopupThrows(u) PROVE StreakPaced'
    <2>1. /\ \A v \in Triggers \ {u} : step'[v] = step[v]
          /\ faults' = faults + 1 /\ UNCHANGED <<enabled, streak, deaths, enables>>
      BY <1>5 DEF TopupThrows, UsageTypeOK
    <2>2. MayCount' \subseteq MayCount \cup {u}
      BY <2>1 DEF MayCount
    <2>. QED
      BY <2>1, <2>2, PaceThrows
  <1>6. ASSUME NEW u \in Triggers,
               \/ Debit(u) \/ CheckSettings(u) \/ CheckBalance(u) \/ Acquire(u)
               \/ ChargeRefused(u) \/ CreateIntent(u) \/ HasReference(u)
               \/ CreditInline(u) \/ CreditRefused(u) \/ ResetFailures(u) \/ Release(u)
        PROVE  StreakPaced'
    <2>1. /\ UNCHANGED <<enabled, faults, enables, deaths>> /\ streak' \in {streak, 0}
          /\ \A v \in Triggers \ {u} : step'[v] = step[v]
          /\ step[u] \notin Judging
      BY <1>6 DEF Debit, CheckSettings, CheckBalance, Acquire, ChargeRefused, CreateIntent,
                  HasReference, CreditInline, CreditRefused, ResetFailures, Release, Goto,
                  UsageTypeOK, Judging
    <2>2. \/ step[u] = "settings" /\ step'[u] = "balance" /\ enabled
          \/ step'[u] \in {"settings", "idle", "release"}
          \/ step[u] \in {"balance", "acquire", "charge", "has", "credit"}
      BY <1>6 DEF Debit, CheckSettings, CheckBalance, Acquire, ChargeRefused, CreateIntent,
                  HasReference, CreditInline, CreditRefused, ResetFailures, Release, Goto,
                  UsageTypeOK
    <2>3. ~enabled => MayCount' \subseteq MayCount
      BY <2>1, <2>2 DEF MayCount
    <2>4. streak' <= streak /\ deaths' >= deaths
      BY <1>0, <2>1
    <2>5. \A v \in Triggers : step[v] \in Judging => step'[v] \in Judging
      BY <2>1
    <2>. QED
      BY <2>1, <2>3, <2>4, <2>5, PaceKept
  <1>7. ASSUME NEW u \in Triggers, Recount(u) PROVE StreakPaced'
    <2>1. /\ step[u] \in {"recount", "recountCaught"} /\ step'[u] \in Judging \cup {"release"}
          /\ step'[u] = "release" => ~AtLimit
          /\ UNCHANGED <<streak, enabled, faults, enables, deaths>>
          /\ \A v \in Triggers \ {u} : step'[v] = step[v]
      BY <1>7 DEF Recount, Goto, UsageTypeOK, Judging
    <2>2. MayCount' \subseteq MayCount
      BY <2>1 DEF MayCount, Judging
    <2>3. \A v \in Triggers : step[v] \in Judging =>
             step'[v] \in Judging \/ streak' < MaxConsecutiveFailures
      BY <1>0, <2>1 DEF AtLimit
    <2>4. streak' <= streak /\ deaths' >= deaths
      BY <1>0, <2>1
    <2>. QED
      BY <2>1, <2>2, <2>3, <2>4, PaceKept
  <1>8. CASE (\E p \in Intents : Webhook(p)) \/ UNCHANGED usageVars
    <2>1. UNCHANGED <<step, streak, enabled, faults, enables, deaths>>
      BY <1>8 DEF Webhook, WebhookCheck, WebhookCredit, WebhookThrows, usageVars
    <2>2. MayCount' = MayCount
      BY <2>1 DEF MayCount
    <2>3. streak' <= streak /\ deaths' >= deaths
      BY <1>0, <2>1
    <2>. QED
      BY <2>1, <2>2, <2>3, PaceKept
  <1>9. CASE TopupCrash
    <2>1. deaths' = deaths + 1
      BY <1>9 DEF TopupCrash
    <2>2. deaths' # 0
      BY <1>0, <2>1
    <2>. QED
      BY <2>2 DEF StreakPaced
  <1>. QED
    BY <1>1, <1>2, <1>3, <1>4, <1>5, <1>6, <1>7, <1>8, <1>9 DEF UsageNext, TopupStep, Charge

-----------------------------------------------------------------------------

\* Every step keeps the invariant.
LEMMA UsageInvNext == UsageInv /\ [UsageNext]_usageVars => UsageInv'
  <1>. SUFFICES ASSUME UsageInv, [UsageNext]_usageVars PROVE UsageInv'
    OBVIOUS
  <1>1. UsageTypeOK /\ OneCharger /\ FlagIsHeld /\ PaidFirst /\ GrantedOnce /\ StreakPaced
    BY DEF UsageInv
  <1>2. UsageTypeOK' /\ OneCharger' /\ FlagIsHeld' /\ PaidFirst'
    BY <1>1, CallKeepsFlag, OthersKeepFlag DEF UsageNext
  <1>. QED
    BY <1>1, <1>2, GrantedNext, PaceNext DEF UsageInv

\* The pace bounds the failures.
LEMMA PacedIsBounded == UsageTypeOK /\ StreakPaced => StreakBounded
  <1>. SUFFICES ASSUME UsageTypeOK, StreakPaced, deaths = 0 PROVE streak < Budget
    BY DEF StreakBounded, Budget
  <1>. DEFINE c == Cardinality(Triggers)
  <1>1. c \in Nat /\ Cardinality(MayCount) \in Nat /\ streak \in Nat /\ Budget \in Nat
    BY MayCountFinite, BudgetGrows DEF UsageTypeOK
  <1>2. CASE enabled /\ \A u \in Triggers : step[u] \notin Judging
    BY <1>1, <1>2 DEF StreakPaced
  <1>3. CASE enabled /\ \E u \in Triggers : step[u] \in Judging
    <2>1. PICK u \in Triggers : TRUE
      BY <1>3
    <2>2. IsFiniteSet(Triggers \ {u}) /\ Cardinality(Triggers \ {u}) = c - 1
      BY UsageTopupAssumption, FS_RemoveElement
    <2>3. Cardinality(Triggers \ {u}) \in Nat
      BY <2>2, FS_CardinalityType
    <2>. QED
      BY <1>1, <1>3, <2>2, <2>3 DEF StreakPaced
  <1>4. CASE ~enabled
    BY <1>1, <1>4 DEF StreakPaced
  <1>. QED
    BY <1>2, <1>3, <1>4

\* One charge at a time, held by the in-flight flag; each PaymentIntent granted
\* once, and only when it was paid, whatever the grant after the charge, the
\* webhook and the deaths of the process race for; and the failing charges end:
\* for every number of concurrent calls, not only two, however the debits that
\* start them are interleaved.
THEOREM TopupIsSafe == UsageSpec => []TopupSafe
  <1>1. UsageInv => TopupSafe
    BY PacedIsBounded DEF UsageInv, TopupSafe
  <1>. QED
    BY <1>1, UsageInvInit, UsageInvNext, PTL DEF UsageSpec
=============================================================================
