---------------------------- MODULE TrafficProofs ---------------------------
(***************************************************************************)
(* What holds of the tenants' traffic in every behaviour: the requests the *)
(* gateway admits (Admission) and bills (Gateway), for every number of     *)
(* requests in flight and every cap, limit and buffer, the providers that  *)
(* answer them (Routing), and the backups of the bots they talk to         *)
(* (Backups).                                                              *)
(***************************************************************************)
EXTENDS Gateway, Admission, Routing, Backups, FiniteSetTheorems, TLAPS

-----------------------------------------------------------------------------
(* Admission                                                                *)

Points == {"idle", "hydrate", "cap", "limit", "breaker", "reset", "window", "count", "first", "trip",
           "budget", "call"}
Times == 0..MaxTime \cup {Never}
AdmissionCalls == [at : Points, capped : BOOLEAN, now : 0..MaxTime, paused : BOOLEAN, late : BOOLEAN]
Figures == [value : Nat, at : Times]

AdmissionTypes ==
    /\ clock \in 0..MaxTime /\ spent \in Nat
    /\ limit \in [count : Nat, start : Times] /\ passed \in Nat
    /\ breaker \in [count : Nat, start : Times, tripped : Times]
    /\ capCache \in Figures /\ budgetCache \in Figures
    /\ call \in [Callers -> AdmissionCalls]
    /\ reachedAt \in Times /\ heldUntil \in 0..MaxTime + Pause
    /\ behind \subseteq Callers /\ cleared \in BOOLEAN

\* A figure below the cap was read no later than the cap was reached.
Dated(cache) ==
    cache.at # Never =>
        /\ cache.at <= clock
        /\ cache.value < HardCap /\ reachedAt # Never => cache.at <= reachedAt

FiguresDated ==
    /\ reachedAt # Never <=> spent >= HardCap
    /\ reachedAt # Never => reachedAt <= clock
    /\ Dated(capCache) /\ Dated(budgetCache)

\* A trip that nothing has overwritten stands until its pause is over, and the
\* requests that could still overwrite it are behind it.
TripStands ==
    heldUntil > clock /\ ~cleared =>
        /\ breaker.tripped = heldUntil - Pause
        /\ \A c \in Callers : call[c].at \in {"reset", "window", "first"} => c \in behind

NonePaused == \A c \in Callers : ~call[c].paused

\* The window has let through what it has counted, at most.
PassedCounted == passed <= limit.count /\ passed <= RateMax

AdmissionInv ==
    AdmissionTypes /\ FiguresDated /\ CapStopsSpend /\ TripStands /\ NonePaused /\ PassedCounted

\* The bounds are numbers.
LEMMA AdmissionBounds ==
    /\ MaxTime \in Nat /\ MaxArrivals \in Nat /\ MaxGateFaults \in Nat
    /\ RateMax \in Nat \ {0} /\ RateWindow \in Nat \ {0}
    /\ BreakerMax \in Nat \ {0} /\ BreakerWindow \in Nat \ {0} /\ Pause \in Nat \ {0}
    /\ CacheTtl \in Nat \ {0} /\ HardCap \in Nat \ {0} /\ MaxPenalty \in Nat \ {0}
    /\ Never \in Nat /\ Never > MaxTime + Pause
  <1>1. {MaxTime, MaxArrivals, MaxGateFaults} \subseteq Nat
    BY AdmissionAssumption
  <1>2. {RateMax, RateWindow, BreakerMax, BreakerWindow, Pause, CacheTtl, HardCap, MaxPenalty} \subseteq Nat \ {0}
    BY AdmissionAssumption
  <1>. QED
    BY <1>1, <1>2 DEF Never

\* Initially nothing is spent, cached, counted or tripped.
LEMMA AdmissionInvInit == AdmissionInit => AdmissionInv
  <1>. SUFFICES ASSUME AdmissionInit PROVE AdmissionInv
    OBVIOUS
  <1>1. AdmissionTypes
    <2>1. 0 \in 0..MaxTime /\ 0 \in 0..MaxTime + Pause /\ Never \in Times
      BY AdmissionBounds DEF Times
    <2>2. NoFigure \in Figures /\ NoRow \in [count : Nat, start : Times]
          /\ Closed \in [count : Nat, start : Times, tripped : Times]
      BY <2>1 DEF NoFigure, Figures, NoRow, Closed
    <2>3. Free \in AdmissionCalls
      BY <2>1 DEF Free, AdmissionCalls, Points
    <2>. QED
      BY <2>1, <2>2, <2>3 DEF AdmissionInit, AdmissionTypes
  <1>2. FiguresDated /\ PassedCounted
    BY AdmissionBounds DEF AdmissionInit, FiguresDated, Dated, NoFigure, PassedCounted, NoRow
  <1>3. CapStopsSpend /\ TripStands /\ NonePaused
    BY AdmissionBounds DEF AdmissionInit, CapStopsSpend, TripStands, NonePaused, Free
  <1>. QED
    BY <1>1, <1>2, <1>3 DEF AdmissionInv

-----------------------------------------------------------------------------
(* Admission: types                                                         *)

\* A request that moves on, or leaves, stays a request.
LEMMA Moved ==
    ASSUME AdmissionTypes, NEW c \in Callers
    PROVE  /\ call[c] \in AdmissionCalls /\ Free \in AdmissionCalls
           /\ \A to \in Points : To(c, to) => call' \in [Callers -> AdmissionCalls]
           /\ Refuse(c) => call' \in [Callers -> AdmissionCalls]
  <1>1. Free \in AdmissionCalls
    BY AdmissionBounds DEF Free, AdmissionCalls, Points
  <1>. QED
    BY <1>1 DEF AdmissionTypes, AdmissionCalls, To, Refuse

\* A request that a check lets through, and what it notes of the cap.
LEMMA AdmittedOn ==
    ASSUME AdmissionTypes, NEW c \in Callers, NEW to \in Points, Admit(c, to)
    PROVE  /\ call' \in [Callers -> AdmissionCalls]
           /\ call'[c].late = (reachedAt # Never /\ clock >= reachedAt + CacheTtl)
           /\ call'[c].at = to /\ call'[c].paused = call[c].paused
           /\ \A d \in Callers \ {c} : call'[d] = call[d]
  <1>. DEFINE late == (reachedAt # Never /\ clock >= reachedAt + CacheTtl)
              h == [call[c] EXCEPT !.at = to, !.late = late]
  <1>1. late \in BOOLEAN
    OBVIOUS
  <1>2. h \in AdmissionCalls /\ h.late = late /\ h.at = to /\ h.paused = call[c].paused
    <2>. HIDE DEF late
    <2>. QED
      BY <1>1, Moved DEF AdmissionCalls
  <1>3. call' = [call EXCEPT ![c] = h]
    BY DEF Admit, AdmissionTypes
  <1>. QED
    BY <1>2, <1>3 DEF AdmissionTypes

\* The figure a check uses is a figure.
LEMMA FigureKnown ==
    ASSUME AdmissionTypes, NEW cache \in Figures
    PROVE  querySpend(cache) \in Figures
  BY DEF AdmissionTypes, querySpend, Figures, Times

\* The limiter's row stays a row, and what it lets through is counted.
LEMMA LimitKept ==
    ASSUME AdmissionTypes, PassedCounted, NEW c \in Callers, NEW to \in Points, rateLimit(c, to)
    PROVE  /\ limit' \in [count : Nat, start : Times] /\ passed' \in Nat
           /\ call' \in [Callers -> AdmissionCalls]
           /\ PassedCounted'
  <1>1. limit' = increment
    BY DEF rateLimit
  <1>2. CASE Within(limit.start, RateWindow)
    <2>1. limit' = [limit EXCEPT !.count = @ + 1]
      BY <1>1, <1>2 DEF increment
    <2>2. limit' \in [count : Nat, start : Times] /\ limit'.count = limit.count + 1
      BY <2>1 DEF AdmissionTypes
    <2>3. \/ limit'.count > RateMax /\ Refuse(c) /\ passed' = passed
          \/ ~(limit'.count > RateMax) /\ To(c, to) /\ passed' = passed + 1
      BY <1>2 DEF rateLimit, OverLimit
    <2>. QED
      BY <2>2, <2>3, Moved, AdmissionBounds DEF AdmissionTypes, PassedCounted
  <1>3. CASE ~Within(limit.start, RateWindow)
    <2>1. limit' = [count |-> 1, start |-> clock]
      BY <1>1, <1>3 DEF increment
    <2>2. limit' \in [count : Nat, start : Times] /\ limit'.count = 1
      BY <2>1 DEF AdmissionTypes, Times
    <2>3. \/ limit'.count > RateMax /\ Refuse(c) /\ passed' = 0
          \/ ~(limit'.count > RateMax) /\ To(c, to) /\ passed' = 1
      BY <1>3 DEF rateLimit, OverLimit
    <2>. QED
      BY <2>2, <2>3, Moved, AdmissionBounds DEF AdmissionTypes, PassedCounted
  <1>. QED
    BY <1>2, <1>3
\* A step of a request keeps the types.
LEMMA StepTypes ==
    ASSUME AdmissionInv, NEW c \in Callers, AdmissionStep(c)
    PROVE  AdmissionTypes'
  <1>0. AdmissionTypes /\ PassedCounted
    BY DEF AdmissionInv
  <1>1. CASE serviceKeyAuth(c)
    <2>1. call' \in [Callers -> AdmissionCalls]
      BY <1>0, <1>1, Moved DEF serviceKeyAuth, AdmissionTypes, AdmissionCalls, Points
    <2>. QED
      BY <1>0, <1>1, <2>1 DEF serviceKeyAuth, AdmissionTypes, rows, caches, gateGhosts, Never
  <1>2. CASE hydrateSpendingCaps(c)
    <2>1. call' \in [Callers -> AdmissionCalls]
      BY <1>0, <1>2, Moved DEF hydrateSpendingCaps, AdmissionTypes, AdmissionCalls, Points, To
    <2>. QED
      BY <1>0, <1>2, <2>1 DEF hydrateSpendingCaps, AdmissionTypes, rows, caches, gateGhosts
  <1>3. CASE spendingCapCheck(c)
    <2>1. Admit(c, "limit") => call' \in [Callers -> AdmissionCalls]
      BY <1>0, AdmittedOn DEF Points
    <2>2. call' \in [Callers -> AdmissionCalls]
      BY <1>0, <1>3, <2>1, Moved DEF spendingCapCheck, Points
    <2>3. capCache' \in Figures
      BY <1>0, <1>3, FigureKnown DEF spendingCapCheck, AdmissionTypes
    <2>. QED
      BY <1>0, <1>3, <2>2, <2>3 DEF spendingCapCheck, AdmissionTypes, rows, gateGhosts
  <1>4. CASE capabilityRateLimit(c)
    <2>1. call' \in [Callers -> AdmissionCalls] /\ limit' \in [count : Nat, start : Times] /\ passed' \in Nat
      <3>1. CASE rateLimit(c, "breaker")
        BY <1>0, <3>1, LimitKept DEF Points
      <3>2. CASE To(c, "breaker") /\ UNCHANGED <<limit, passed>>
        BY <1>0, <3>2, Moved DEF Points, AdmissionTypes
      <3>. QED
        BY <1>4, <3>1, <3>2 DEF capabilityRateLimit
    <2>. QED
      BY <1>0, <1>4, <2>1 DEF capabilityRateLimit, AdmissionTypes, caches
  <1>5. CASE rateLimitByRoute(c)
    <2>1. call' \in [Callers -> AdmissionCalls] /\ limit' \in [count : Nat, start : Times] /\ passed' \in Nat
      BY <1>0, <1>5, LimitKept DEF rateLimitByRoute, Points
    <2>. QED
      BY <1>0, <1>5, <2>1 DEF rateLimitByRoute, AdmissionTypes, caches
  <1>6. CASE getState(c)
    <2>1. call' \in [Callers -> AdmissionCalls]
      <3>. DEFINE h == [call[c] EXCEPT !.at = IF Tripped THEN "reset" ELSE "window",
                                       !.paused = (clock < heldUntil /\ ~cleared)]
      <3>1. h \in AdmissionCalls
        <4>1. (clock < heldUntil /\ ~cleared) \in BOOLEAN
          OBVIOUS
        <4>2. (IF Tripped THEN "reset" ELSE "window") \in Points
          BY DEF Points
        <4>. QED
          BY <1>0, <4>1, <4>2, Moved DEF AdmissionCalls
      <3>2. Refuse(c) \/ call' = [call EXCEPT ![c] = h]
        BY <1>0, <1>6 DEF getState, AdmissionTypes
      <3>. QED
        BY <1>0, <3>1, <3>2, Moved DEF AdmissionTypes
    <2>. QED
      BY <1>0, <1>6, <2>1 DEF getState, AdmissionTypes, rows, caches, gateGhosts
  <1>7. CASE reset(c)
    <2>1. call' \in [Callers -> AdmissionCalls]
      BY <1>0, <1>7, Moved DEF reset, Points
    <2>2. breaker' \in [count : Nat, start : Times, tripped : Times]
      BY <1>0, <1>7, AdmissionBounds DEF reset, AdmissionTypes, Times
    <2>3. behind' \subseteq Callers /\ cleared' \in BOOLEAN
      BY <1>0, <1>7 DEF reset, Overwrites, AdmissionTypes
    <2>. QED
      BY <1>0, <1>7, <2>1, <2>2, <2>3 DEF reset, AdmissionTypes, caches
  <1>8. CASE incrementOrReset(c)
    <2>1. call' \in [Callers -> AdmissionCalls]
      <3>. DEFINE h == [call[c] EXCEPT !.at = IF Within(breaker.start, BreakerWindow) THEN "count" ELSE "first",
                                       !.now = clock]
      <3>1. h \in AdmissionCalls
        <4>1. (IF Within(breaker.start, BreakerWindow) THEN "count" ELSE "first") \in Points
          BY DEF Points
        <4>. QED
          BY <1>0, <4>1, Moved DEF AdmissionCalls, AdmissionTypes
      <3>2. call' = [call EXCEPT ![c] = h]
        BY <1>0, <1>8 DEF incrementOrReset, AdmissionTypes
      <3>. QED
        BY <1>0, <3>1, <3>2 DEF AdmissionTypes
    <2>. QED
      BY <1>0, <1>8, <2>1 DEF incrementOrReset, AdmissionTypes, rows, caches, gateGhosts
  <1>9. CASE countRequest(c)
    <2>1. breaker' \in [count : Nat, start : Times, tripped : Times]
      BY <1>0, <1>9 DEF countRequest, AdmissionTypes
    <2>2. call' \in [Callers -> AdmissionCalls]
      BY <1>0, <1>9, Moved DEF countRequest, Points
    <2>. QED
      BY <1>0, <1>9, <2>1, <2>2 DEF countRequest, AdmissionTypes, caches
  <1>10. CASE firstOfWindow(c)
    <2>1. call' \in [Callers -> AdmissionCalls]
      BY <1>0, <1>10, Moved DEF firstOfWindow, Points
    <2>2. breaker' \in [count : Nat, start : Times, tripped : Times]
      BY <1>0, <1>10, Moved, AdmissionBounds DEF firstOfWindow, AdmissionCalls, Times
    <2>3. behind' \subseteq Callers /\ cleared' \in BOOLEAN
      BY <1>0, <1>10 DEF firstOfWindow, Overwrites, AdmissionTypes
    <2>. QED
      BY <1>0, <1>10, <2>1, <2>2, <2>3 DEF firstOfWindow, AdmissionTypes, caches
  <1>11. CASE trip(c)
    <2>1. call' \in [Callers -> AdmissionCalls]
      BY <1>0, <1>11, Moved DEF trip
    <2>2. breaker' \in [count : Nat, start : Times, tripped : Times]
      BY <1>0, <1>11 DEF trip, AdmissionTypes, Times
    <2>3. heldUntil' \in 0..MaxTime + Pause
      BY <1>0, <1>11, AdmissionBounds DEF trip, AdmissionTypes
    <2>4. behind' \subseteq Callers /\ cleared' \in BOOLEAN
      BY <1>11 DEF trip
    <2>. QED
      BY <1>0, <1>11, <2>1, <2>2, <2>3, <2>4 DEF trip, AdmissionTypes, caches
  <1>12. CASE check(c)
    <2>1. Admit(c, "call") => call' \in [Callers -> AdmissionCalls]
      BY <1>0, AdmittedOn DEF Points
    <2>2. call' \in [Callers -> AdmissionCalls]
      BY <1>0, <1>12, <2>1, Moved DEF check
    <2>3. budgetCache' \in Figures
      BY <1>0, <1>12, FigureKnown DEF check, AdmissionTypes
    <2>. QED
      BY <1>0, <1>12, <2>2, <2>3 DEF check, AdmissionTypes, rows, gateGhosts
  <1>13. CASE Spend(c)
    <2>1. call' \in [Callers -> AdmissionCalls]
      BY <1>0, <1>13, Moved DEF Spend
    <2>2. reachedAt' \in Times /\ spent' \in Nat
      BY <1>0, <1>13 DEF Spend, AdmissionTypes, Times
    <2>. QED
      BY <1>0, <1>13, <2>1, <2>2 DEF Spend, AdmissionTypes, caches
  <1>. QED
    BY <1>1, <1>2, <1>3, <1>4, <1>5, <1>6, <1>7, <1>8, <1>9, <1>10, <1>11, <1>12, <1>13 DEF AdmissionStep
\* The steps that are no request's keep the types.
LEMMA OutsideTypes ==
    ASSUME AdmissionTypes, revokeByInstance \/ purgeStale \/ createTwilioWebhookAuth \/ Tick
    PROVE  AdmissionTypes'
  <1>1. CASE revokeByInstance
    BY <1>1 DEF revokeByInstance, AdmissionTypes, caches, gateGhosts
  <1>2. CASE purgeStale
    <2>1. breaker' \in [count : Nat, start : Times, tripped : Times]
      BY <1>2, AdmissionBounds DEF purgeStale, Closed, Times
    <2>. QED
      BY <1>2, <2>1 DEF purgeStale, AdmissionTypes, caches, gateGhosts
  <1>3. CASE createTwilioWebhookAuth
    BY <1>3 DEF createTwilioWebhookAuth, AdmissionTypes, caches, gateGhosts
  <1>4. CASE Tick
    <2>1. clock' \in 0..MaxTime
      BY <1>4, AdmissionBounds DEF Tick, AdmissionTypes
    <2>. QED
      BY <1>4, <2>1 DEF Tick, AdmissionTypes, rows, caches, gateGhosts
  <1>. QED
    BY <1>1, <1>2, <1>3, <1>4

-----------------------------------------------------------------------------
(* Admission: the spending caps                                             *)

\* A request that leaves or moves on without a check is not late.
LEMMA OnTime ==
    ASSUME AdmissionTypes, CapStopsSpend, NEW c \in Callers,
           Refuse(c) \/ \E to \in Points : To(c, to)
    PROVE  CapStopsSpend'
  BY DEF AdmissionTypes, AdmissionCalls, CapStopsSpend, Refuse, To, Free

\* A check lets no request through on a figure that is too old, and the figure
\* it leaves is dated.
LEMMA Checked ==
    ASSUME AdmissionTypes, FiguresDated, NEW cache \in Figures, Dated(cache)
    PROVE  /\ Dated(querySpend(cache))
           /\ querySpend(cache).value < HardCap => ~(reachedAt # Never /\ clock >= reachedAt + CacheTtl)
  <1>1. CASE Fresh(cache)
    <2>1. querySpend(cache) = cache /\ cache.at \in 0..MaxTime /\ clock - cache.at < CacheTtl
      BY <1>1 DEF querySpend, Fresh, Figures, Times
    <2>2. cache.value < HardCap /\ reachedAt # Never => clock < reachedAt + CacheTtl
      BY <2>1, AdmissionBounds DEF AdmissionTypes, Dated, Times
    <2>. QED
      BY <2>1, <2>2, AdmissionBounds DEF AdmissionTypes, Times
  <1>2. CASE ~Fresh(cache)
    <2>1. querySpend(cache) = [value |-> spent, at |-> clock]
      BY <1>2 DEF querySpend
    <2>2. querySpend(cache).value = spent /\ querySpend(cache).at = clock
      BY <2>1
    <2>3. querySpend(cache).value < HardCap => reachedAt = Never
      BY <2>2, AdmissionBounds DEF AdmissionTypes, FiguresDated
    <2>. QED
      BY <2>2, <2>3 DEF Dated, AdmissionTypes
  <1>. QED
    BY <1>1, <1>2

\* A step keeps the figures dated, and every request on time.
LEMMA SpendNext ==
    ASSUME AdmissionInv, AdmissionNext
    PROVE  FiguresDated' /\ CapStopsSpend'
  <1>0. AdmissionTypes /\ FiguresDated /\ CapStopsSpend /\ Dated(capCache) /\ Dated(budgetCache)
        /\ capCache \in Figures /\ budgetCache \in Figures
    BY DEF AdmissionInv, FiguresDated, AdmissionTypes
  <1>1. ASSUME UNCHANGED <<clock, spent, reachedAt, capCache, budgetCache>> PROVE FiguresDated'
    BY <1>0, <1>1 DEF FiguresDated, Dated, Never
  <1>2. ASSUME NEW c \in Callers, spendingCapCheck(c) PROVE FiguresDated' /\ CapStopsSpend'
    <2>1. UNCHANGED <<clock, spent, reachedAt, budgetCache>>
      BY <1>2 DEF spendingCapCheck, rows, gateGhosts
    <2>2. CASE ~call[c].capped
      <3>1. To(c, "limit") /\ UNCHANGED capCache
        BY <1>2, <2>2 DEF spendingCapCheck
      <3>. QED
        BY <1>0, <1>1, <2>1, <3>1, OnTime DEF Points
    <2>3. CASE call[c].capped
      <3>. DEFINE figure == querySpend(capCache)
      <3>1. capCache' = figure /\ (IF figure.value >= HardCap THEN Refuse(c) ELSE Admit(c, "limit"))
        BY <1>2, <2>3 DEF spendingCapCheck
      <3>2. Dated(figure) /\ figure \in Figures
        BY <1>0, Checked, FigureKnown
      <3>3. FiguresDated'
        BY <1>0, <2>1, <3>1, <3>2 DEF FiguresDated, Dated, Never
      <3>4. CapStopsSpend'
        <4>1. CASE figure.value >= HardCap
          BY <1>0, <3>1, <4>1, OnTime
        <4>2. CASE ~(figure.value >= HardCap)
          <5>1. figure.value < HardCap
            BY <3>2, <4>2, AdmissionBounds DEF Figures
          <5>2. ~(reachedAt # Never /\ clock >= reachedAt + CacheTtl)
            BY <1>0, <5>1, Checked
          <5>3. Admit(c, "limit")
            BY <3>1, <4>2
          <5>. QED
            BY <1>0, <5>2, <5>3, AdmittedOn DEF CapStopsSpend, Points
        <4>. QED
          BY <4>1, <4>2
      <3>. QED
        BY <3>3, <3>4
    <2>. QED
      BY <2>2, <2>3
  <1>3. ASSUME NEW c \in Callers, check(c) PROVE FiguresDated' /\ CapStopsSpend'
    <2>1. UNCHANGED <<clock, spent, reachedAt, capCache>>
      BY <1>3 DEF check, rows, gateGhosts
    <2>2. CASE Refuse(c) /\ UNCHANGED budgetCache
      BY <1>0, <1>1, <2>1, <2>2, OnTime
    <2>3. CASE ~(Refuse(c) /\ UNCHANGED budgetCache)
      <3>. DEFINE figure == querySpend(budgetCache)
      <3>1. budgetCache' = figure /\ (IF figure.value >= HardCap THEN Refuse(c) ELSE Admit(c, "call"))
        BY <1>3, <2>3 DEF check
      <3>2. Dated(figure) /\ figure \in Figures
        BY <1>0, Checked, FigureKnown
      <3>3. FiguresDated'
        BY <1>0, <2>1, <3>1, <3>2 DEF FiguresDated, Dated, Never
      <3>4. CapStopsSpend'
        <4>1. CASE figure.value >= HardCap
          BY <1>0, <3>1, <4>1, OnTime
        <4>2. CASE ~(figure.value >= HardCap)
          <5>1. figure.value < HardCap
            BY <3>2, <4>2, AdmissionBounds DEF Figures
          <5>2. ~(reachedAt # Never /\ clock >= reachedAt + CacheTtl)
            BY <1>0, <5>1, Checked
          <5>3. Admit(c, "call")
            BY <3>1, <4>2
          <5>. QED
            BY <1>0, <5>2, <5>3, AdmittedOn DEF CapStopsSpend, Points
        <4>. QED
          BY <4>1, <4>2
      <3>. QED
        BY <3>3, <3>4
    <2>. QED
      BY <2>2, <2>3
  <1>4. ASSUME NEW c \in Callers, Spend(c) PROVE FiguresDated' /\ CapStopsSpend'
    <2>1. FiguresDated'
      <3>1. clock \in 0..MaxTime /\ spent \in Nat /\ reachedAt \in Times
        BY <1>0 DEF AdmissionTypes
      <3>2. /\ spent' = spent + 1 /\ UNCHANGED <<clock, capCache, budgetCache>>
            /\ reachedAt' = IF spent' >= HardCap /\ reachedAt = Never THEN clock ELSE reachedAt
        BY <1>4 DEF Spend, caches
      <3>3. clock # Never
        BY <3>1, AdmissionBounds
      <3>4. reachedAt' # Never <=> spent' >= HardCap
        BY <1>0, <3>1, <3>2, <3>3, AdmissionBounds DEF FiguresDated
      <3>5. reachedAt' # Never => reachedAt' <= clock'
        BY <1>0, <3>1, <3>2, <3>3 DEF FiguresDated
      <3>6. ASSUME NEW cache \in Figures, Dated(cache), cache.at # Never, cache.value < HardCap, reachedAt' # Never
            PROVE  cache.at <= reachedAt'
        BY <3>1, <3>2, <3>6 DEF Dated
      <3>7. ASSUME NEW cache \in Figures, Dated(cache), cache.at # Never
            PROVE  cache.at <= clock'
        BY <3>2, <3>7 DEF Dated
      <3>. QED
        BY <1>0, <3>2, <3>4, <3>5, <3>6, <3>7 DEF FiguresDated, Dated, Never
    <2>. QED
      BY <1>0, <1>4, <2>1, OnTime DEF Spend
  <1>5. ASSUME NEW c \in Callers,
               \/ serviceKeyAuth(c) \/ hydrateSpendingCaps(c) \/ capabilityRateLimit(c) \/ rateLimitByRoute(c)
               \/ getState(c) \/ reset(c) \/ incrementOrReset(c) \/ countRequest(c) \/ firstOfWindow(c) \/ trip(c)
        PROVE  FiguresDated' /\ CapStopsSpend'
    <2>1. UNCHANGED <<clock, spent, reachedAt, capCache, budgetCache>>
      BY <1>5 DEF serviceKeyAuth, hydrateSpendingCaps, capabilityRateLimit, rateLimitByRoute, getState, reset,
                  incrementOrReset, countRequest, firstOfWindow, trip, rows, caches, gateGhosts
    <2>2. CapStopsSpend'
      <3>1. CASE serviceKeyAuth(c) \/ hydrateSpendingCaps(c) \/ getState(c) \/ incrementOrReset(c)
        BY <1>0, <3>1 DEF serviceKeyAuth, hydrateSpendingCaps, getState, incrementOrReset, To, Refuse, Free,
                          CapStopsSpend, AdmissionTypes, AdmissionCalls
      <3>2. CASE \/ capabilityRateLimit(c) \/ rateLimitByRoute(c)
                 \/ reset(c) \/ countRequest(c) \/ firstOfWindow(c) \/ trip(c)
        <4>1. Refuse(c) \/ \E to \in Points : To(c, to)
          BY <3>2 DEF capabilityRateLimit, rateLimitByRoute, rateLimit, reset, countRequest, firstOfWindow, trip,
                      Points
        <4>. QED
          BY <1>0, <4>1, OnTime
      <3>. QED
        BY <1>5, <3>1, <3>2
    <2>. QED
      BY <1>1, <2>1, <2>2
  <1>6. ASSUME revokeByInstance \/ purgeStale \/ createTwilioWebhookAuth PROVE FiguresDated' /\ CapStopsSpend'
    BY <1>0, <1>1, <1>6 DEF revokeByInstance, purgeStale, createTwilioWebhookAuth, caches, gateGhosts, CapStopsSpend
  <1>7. ASSUME Tick PROVE FiguresDated' /\ CapStopsSpend'
    <2>1. /\ clock' = clock + 1 /\ clock \in Nat
          /\ UNCHANGED <<spent, reachedAt, capCache, budgetCache, call>>
      BY <1>0, <1>7 DEF Tick, rows, caches, gateGhosts, AdmissionTypes
    <2>2. /\ capCache.at \in Nat /\ budgetCache.at \in Nat /\ reachedAt \in Nat
      BY <1>0, AdmissionBounds DEF AdmissionTypes, Figures, Times
    <2>. QED
      BY <1>0, <2>1, <2>2 DEF FiguresDated, Dated, Never, CapStopsSpend
  <1>. QED
    BY <1>2, <1>3, <1>4, <1>5, <1>6, <1>7 DEF AdmissionNext, AdmissionStep
-----------------------------------------------------------------------------
(* Admission: the circuit breaker                                           *)

Writing == {"reset", "window", "first"}

\* What the requests' moves may do to a trip that stands.
StaysBehind ==
    \A c \in Callers : call'[c].at \in Writing => call[c].at \in Writing /\ (c \in behind => c \in behind')

\* A trip that stands still does, when the breaker and the clock do not move.
LEMMA TripKept ==
    ASSUME TripStands, UNCHANGED <<clock, heldUntil, cleared>>, breaker'.tripped = breaker.tripped, StaysBehind
    PROVE  TripStands'
  BY DEF TripStands, StaysBehind, Writing

\* A request that leaves, or goes on past the breaker, is not behind a trip.
LEMMA Passes ==
    ASSUME AdmissionTypes, NonePaused, NEW c \in Callers, NEW to \in Points \ Writing,
           Refuse(c) \/ To(c, to), behind' \in {behind, behind \ {c}}
    PROVE  NonePaused' /\ StaysBehind
  <1>1. call'[c].at \in Points \ Writing /\ ~call'[c].paused
    BY DEF AdmissionTypes, AdmissionCalls, NonePaused, Refuse, To, Free, Points, Writing
  <1>2. \A d \in Callers \ {c} : call'[d] = call[d]
    BY DEF AdmissionTypes, Refuse, To
  <1>. QED
    BY <1>1, <1>2 DEF NonePaused, StaysBehind

\* The write of a request behind the trip clears it; no other write meets one.
LEMMA WriteClears ==
    ASSUME AdmissionTypes, TripStands, NEW c \in Callers, call[c].at \in Writing, Overwrites(c),
           UNCHANGED <<clock, heldUntil>>
    PROVE  TripStands'
  <1>. SUFFICES ASSUME heldUntil > clock, ~cleared' PROVE FALSE
    BY DEF TripStands
  <1>1. ~cleared /\ ~(Tripped /\ c \in behind)
    BY DEF Overwrites, AdmissionTypes
  <1>2. breaker.tripped = heldUntil - Pause /\ c \in behind
    BY <1>1 DEF TripStands, Writing
  <1>3. Tripped
    BY <1>2, AdmissionBounds DEF Tripped, AdmissionTypes
  <1>. QED
    BY <1>1, <1>2, <1>3

\* A step keeps the trip that stands, and lets no request past it.
LEMMA BreakerNext ==
    ASSUME AdmissionInv, AdmissionNext
    PROVE  TripStands' /\ NonePaused'
  <1>0. AdmissionTypes /\ TripStands /\ NonePaused /\ call \in [Callers -> AdmissionCalls]
    BY DEF AdmissionInv, AdmissionTypes
  <1>1. ASSUME NEW c \in Callers, serviceKeyAuth(c) \/ hydrateSpendingCaps(c) PROVE TripStands' /\ NonePaused'
    <2>1. NonePaused' /\ StaysBehind
      BY <1>0, <1>1 DEF serviceKeyAuth, hydrateSpendingCaps, NonePaused, StaysBehind, Writing, Free, To, AdmissionCalls,
                        gateGhosts
    <2>. QED
      BY <1>0, <1>1, <2>1, TripKept DEF serviceKeyAuth, hydrateSpendingCaps, rows, gateGhosts
  <1>2. ASSUME NEW c \in Callers, spendingCapCheck(c) \/ check(c) PROVE TripStands' /\ NonePaused'
    <2>1. UNCHANGED <<clock, breaker, heldUntil, cleared, behind>>
      BY <1>2 DEF spendingCapCheck, check, rows, gateGhosts
    <2>2. \E to \in {"limit", "call"} : Refuse(c) \/ To(c, to) \/ Admit(c, to)
      BY <1>2 DEF spendingCapCheck, check
    <2>3. PICK to \in {"limit", "call"} : Refuse(c) \/ To(c, to) \/ Admit(c, to)
      BY <2>2
    <2>4. to \in Points \ Writing
      BY DEF Points, Writing
    <2>5. CASE Refuse(c) \/ To(c, to)
      BY <1>0, <2>1, <2>4, <2>5, Passes, TripKept
    <2>6. CASE Admit(c, to)
      <3>1. NonePaused' /\ StaysBehind
        BY <1>0, <2>1, <2>4, <2>6, AdmittedOn DEF NonePaused, StaysBehind
      <3>. QED
        BY <1>0, <2>1, <3>1, TripKept
    <2>. QED
      BY <2>3, <2>5, <2>6
  <1>3. ASSUME NEW c \in Callers, \/ capabilityRateLimit(c) \/ rateLimitByRoute(c) \/ countRequest(c) \/ Spend(c)
        PROVE  TripStands' /\ NonePaused'
    <2>1. UNCHANGED <<clock, heldUntil, cleared>> /\ behind' \in {behind, behind \ {c}}
      BY <1>3 DEF capabilityRateLimit, rateLimitByRoute, countRequest, Spend
    <2>2. breaker'.tripped = breaker.tripped
      BY <1>0, <1>3 DEF capabilityRateLimit, rateLimitByRoute, countRequest, Spend, AdmissionTypes
    <2>3. \E to \in {"breaker", "idle", "trip", "budget"} : Refuse(c) \/ To(c, to)
      BY <1>3 DEF capabilityRateLimit, rateLimitByRoute, rateLimit, countRequest, Spend
    <2>4. {"breaker", "idle", "trip", "budget"} \subseteq Points \ Writing
      BY DEF Points, Writing
    <2>5. NonePaused' /\ StaysBehind
      BY <1>0, <2>1, <2>3, <2>4, Passes
    <2>. QED
      BY <1>0, <2>1, <2>2, <2>5, TripKept
  <1>4. ASSUME NEW c \in Callers, getState(c) PROVE TripStands' /\ NonePaused'
    <2>1. UNCHANGED <<clock, breaker, heldUntil, cleared, behind>>
      BY <1>4 DEF getState, rows, gateGhosts
    <2>2. CASE Tripped /\ ~PauseOver
      <3>1. Refuse(c)
        BY <1>4, <2>2 DEF getState
      <3>. QED
        BY <1>0, <2>1, <3>1, Passes, TripKept DEF Points, Writing
    <2>3. CASE ~(Tripped /\ ~PauseOver)
      <3>1. ~(clock < heldUntil /\ ~cleared)
        <4>. SUFFICES ASSUME clock < heldUntil, ~cleared PROVE FALSE
          OBVIOUS
        <4>1. breaker.tripped = heldUntil - Pause
          BY <1>0 DEF TripStands, AdmissionTypes
        <4>2. Tripped
          BY <1>0, <4>1, AdmissionBounds DEF Tripped, AdmissionTypes
        <4>3. ~PauseOver
          BY <1>0, <4>1, AdmissionBounds DEF PauseOver, AdmissionTypes
        <4>. QED
          BY <2>3, <4>2, <4>3
      <3>2. call' = [call EXCEPT ![c].at = IF Tripped THEN "reset" ELSE "window",
                                 ![c].paused = (clock < heldUntil /\ ~cleared)]
        BY <1>4, <2>3 DEF getState
      <3>3. call'[c].paused = FALSE /\ \A d \in Callers \ {c} : call'[d] = call[d]
        BY <1>0, <3>1, <3>2 DEF AdmissionCalls
      <3>4. NonePaused'
        BY <1>0, <3>3 DEF NonePaused
      <3>5. TripStands'
        BY <1>0, <2>1, <3>1 DEF TripStands, AdmissionTypes
      <3>. QED
        BY <3>4, <3>5
    <2>. QED
      BY <2>2, <2>3
  <1>5. ASSUME NEW c \in Callers, reset(c) \/ firstOfWindow(c) PROVE TripStands' /\ NonePaused'
    <2>1. call[c].at \in Writing /\ Overwrites(c) /\ UNCHANGED <<clock, heldUntil>>
      BY <1>5 DEF reset, firstOfWindow, At, Writing
    <2>2. TripStands'
      BY <1>0, <2>1, WriteClears
    <2>3. NonePaused'
      BY <1>0, <1>5 DEF reset, firstOfWindow, To, NonePaused, AdmissionCalls
    <2>. QED
      BY <2>2, <2>3
  <1>6. ASSUME NEW c \in Callers, incrementOrReset(c) PROVE TripStands' /\ NonePaused'
    <2>1. UNCHANGED <<clock, breaker, heldUntil, cleared, behind>> /\ call[c].at \in Writing
      BY <1>6 DEF incrementOrReset, rows, gateGhosts, At, Writing
    <2>2. NonePaused' /\ StaysBehind
      BY <1>0, <1>6, <2>1 DEF incrementOrReset, NonePaused, StaysBehind, AdmissionCalls
    <2>. QED
      BY <1>0, <2>1, <2>2, TripKept
  <1>7. ASSUME NEW c \in Callers, trip(c) PROVE TripStands' /\ NonePaused'
    <2>1. Refuse(c) /\ clock' = clock /\ heldUntil' = clock + Pause
          /\ behind' = {d \in Callers \ {c} : call[d].at \in {"reset", "window", "count", "first", "trip"}}
      BY <1>7 DEF trip
    <2>2. breaker'.tripped = clock
      BY <1>0, <1>7 DEF trip, AdmissionTypes
    <2>3. call'[c] = Free /\ \A d \in Callers \ {c} : call'[d] = call[d]
      BY <1>0, <2>1 DEF Refuse
    <2>4. NonePaused'
      BY <1>0, <2>3 DEF NonePaused, Free
    <2>5. \A d \in Callers : call'[d].at \in {"reset", "window", "first"} => d \in behind'
      BY <2>1, <2>3 DEF Free
    <2>6. breaker'.tripped = heldUntil' - Pause
      BY <1>0, <2>1, <2>2, AdmissionBounds DEF AdmissionTypes
    <2>. QED
      BY <2>4, <2>5, <2>6 DEF TripStands
  <1>8. ASSUME revokeByInstance \/ createTwilioWebhookAuth PROVE TripStands' /\ NonePaused'
    BY <1>0, <1>8 DEF revokeByInstance, createTwilioWebhookAuth, gateGhosts, TripStands, NonePaused
  <1>9. ASSUME purgeStale PROVE TripStands' /\ NonePaused'
    <2>1. UNCHANGED <<clock, heldUntil, cleared, call>> /\ breaker.tripped = Never
      BY <1>9 DEF purgeStale, Tripped, gateGhosts
    <2>2. ~(heldUntil > clock /\ ~cleared)
      BY <1>0, <2>1, AdmissionBounds DEF TripStands, AdmissionTypes
    <2>. QED
      BY <1>0, <2>1, <2>2 DEF TripStands, NonePaused
  <1>10. ASSUME Tick PROVE TripStands' /\ NonePaused'
    <2>1. clock' = clock + 1 /\ clock \in Nat /\ UNCHANGED <<breaker, heldUntil, cleared, behind, call>>
      BY <1>0, <1>10 DEF Tick, rows, gateGhosts, AdmissionTypes
    <2>. QED
      BY <1>0, <2>1 DEF TripStands, NonePaused, AdmissionTypes
  <1>. QED
    BY <1>1, <1>2, <1>3, <1>4, <1>5, <1>6, <1>7, <1>8, <1>9, <1>10 DEF AdmissionNext, AdmissionStep

-----------------------------------------------------------------------------
(* Admission: the capability limit, and the theorems                        *)

\* A step lets no more requests through than its window has counted.
LEMMA WindowNext ==
    ASSUME AdmissionInv, AdmissionNext
    PROVE  PassedCounted'
  <1>0. AdmissionTypes /\ PassedCounted
    BY DEF AdmissionInv
  <1>1. ASSUME NEW c \in Callers, NEW to \in Points, rateLimit(c, to) PROVE PassedCounted'
    BY <1>0, <1>1, LimitKept
  <1>2. ASSUME UNCHANGED <<limit, passed>> PROVE PassedCounted'
    BY <1>0, <1>2 DEF PassedCounted
  <1>3. ASSUME NEW c \in Callers, capabilityRateLimit(c) \/ rateLimitByRoute(c) PROVE PassedCounted'
    BY <1>1, <1>2, <1>3 DEF capabilityRateLimit, rateLimitByRoute, Points
  <1>4. ASSUME NEW c \in Callers, AdmissionStep(c), ~(capabilityRateLimit(c) \/ rateLimitByRoute(c))
        PROVE  UNCHANGED <<limit, passed>>
    BY <1>4 DEF AdmissionStep, serviceKeyAuth, hydrateSpendingCaps, spendingCapCheck, getState, reset,
                incrementOrReset, countRequest, firstOfWindow, trip, check, Spend, rows, gateGhosts
  <1>5. ASSUME revokeByInstance \/ purgeStale \/ createTwilioWebhookAuth \/ Tick PROVE UNCHANGED <<limit, passed>>
    BY <1>5 DEF revokeByInstance, purgeStale, createTwilioWebhookAuth, Tick, rows, gateGhosts
  <1>. QED
    BY <1>2, <1>3, <1>4, <1>5 DEF AdmissionNext

\* Nothing changes in a step of the rest of the system.
LEMMA AdmissionStutter == AdmissionInv /\ UNCHANGED admissionVars => AdmissionInv'
  <1>. SUFFICES ASSUME AdmissionInv, UNCHANGED admissionVars PROVE AdmissionInv'
    OBVIOUS
  <1>1. UNCHANGED <<clock, limit, breaker, spent, capCache, budgetCache, call, passed, reachedAt, heldUntil,
                    behind, cleared>>
    BY DEF admissionVars, rows, caches, gateGhosts
  <1>2. AdmissionTypes'
    BY <1>1 DEF AdmissionInv, AdmissionTypes
  <1>3. FiguresDated' /\ CapStopsSpend'
    BY <1>1 DEF AdmissionInv, FiguresDated, Dated, Never, CapStopsSpend
  <1>4. TripStands' /\ NonePaused' /\ PassedCounted'
    BY <1>1 DEF AdmissionInv, TripStands, NonePaused, PassedCounted
  <1>. QED
    BY <1>2, <1>3, <1>4 DEF AdmissionInv

\* Every step keeps the admission in order.
LEMMA AdmissionInvNext == AdmissionInv /\ [AdmissionNext]_admissionVars => AdmissionInv'
  <1>. SUFFICES ASSUME AdmissionInv, [AdmissionNext]_admissionVars PROVE AdmissionInv'
    OBVIOUS
  <1>1. CASE AdmissionNext
    <2>1. AdmissionTypes'
      <3>1. AdmissionTypes
        BY DEF AdmissionInv
      <3>. QED
        BY <1>1, <3>1, StepTypes, OutsideTypes DEF AdmissionNext
    <2>. QED
      BY <1>1, <2>1, SpendNext, BreakerNext, WindowNext DEF AdmissionInv
  <1>2. CASE UNCHANGED admissionVars
    BY <1>2, AdmissionStutter
  <1>. QED
    BY <1>1, <1>2

\* The admission is in order in every state.
LEMMA AdmissionInvHolds == AdmissionSpec => []AdmissionInv
  BY AdmissionInvInit, AdmissionInvNext, PTL DEF AdmissionSpec

\* Once a tenant's spend has reached its cap, no request passes a check of the
\* cap on a figure older than the figures are cached: for every number of
\* concurrent requests, cap and cache time.
THEOREM SpendStops == AdmissionSpec => []CapStopsSpend
  <1>1. AdmissionInv => CapStopsSpend
    BY DEF AdmissionInv
  <1>. QED
    BY <1>1, AdmissionInvHolds, PTL

\* A trip of the circuit breaker holds until a request that was past its read
\* overwrites it, and a window of the capability limit lets no more than its
\* bound through.
THEOREM LimitsAreKept == AdmissionSpec => []LimitsHold
  <1>1. AdmissionInv => LimitsHold
    BY DEF AdmissionInv, NonePaused, PassedCounted, LimitsHold, BreakerHolds, WindowLimited
  <1>. QED
    BY <1>1, AdmissionInvHolds, PTL

-----------------------------------------------------------------------------
(* The gateway: shapes of a step                                            *)

\* A handler goes on to its next wait and touches nothing else.
Advance(r) ==
    /\ \/ Goto(r, "budget", "credit") \/ Goto(r, "call", "direct")
       \/ Goto(r, "direct", "stream") \/ Goto(r, "call", "purchase")
    /\ UNCHANGED <<books, phone, hook, bounds>>

\* A handler returns an error answer.
Leave(r) == req[r].at \in {"budget", "call", "direct", "stream"} /\ Return(r)

\* A handler that was answered is billed.
Answered(r) == req[r].at \in {"call", "direct", "stream"} /\ Bill(r, Charges)

\* What one request does in a step.
Shape(r) ==
    \/ Arrive(r) \/ Advance(r) \/ Leave(r) \/ Answered(r)
    \/ creditBalanceCheck(r) \/ purchaseNumber(r)
    \/ Debit(r) \/ Reread(r) \/ Webhook(r, Charges)
    \/ phoneNumberRelease(r) \/ releaseNumber(r) \/ AnswerLost(r)

\* Every step has one of these shapes; all the handlers share three of them.
LEMMA Shapes ==
    ASSUME Next
    PROVE  \/ \E r \in Requests : Shape(r)
           \/ \E n \in Numbers : trackPhoneNumber(n) \/ removePhoneNumber(n) \/ PromiseFails(n)
           \/ Credit \/ Crash
  <1>0. PositiveCharges \subseteq Charges
    BY GatewayAssumption DEF PositiveCharges, Charges
  <1>1. ASSUME NEW r \in Requests, NEW cs \in SUBSET Charges,
               NEW w \in {"call", "direct", "stream"}, Proxied(r, w, cs)
        PROVE  Leave(r) \/ Answered(r)
    <2>1. CASE Bill(r, cs)
      BY <1>1, <2>1 DEF Proxied, Answered, Bill
    <2>2. CASE Return(r)
      BY <1>1, <2>2 DEF Proxied, Leave
    <2>. QED BY <1>1, <2>1, <2>2 DEF Proxied
  <1>2. ASSUME NEW r \in Requests, NEW cs \in SUBSET Charges, Webhook(r, cs)
        PROVE  Webhook(r, Charges)
    BY <1>2 DEF Webhook
  <1>3. ASSUME NEW r \in Requests, Handler(r)
        PROVE  Shape(r)
    <2>1. CASE chatArbitrage(r)
      BY <1>1, <2>1 DEF chatArbitrage, Advance, Shape
    <2>2. CASE chatCompletions(r)
      BY <1>1, <2>2 DEF chatCompletions, Advance, Shape
    <2>3. CASE proxySSEStream(r)
      BY <1>1, <2>3 DEF proxySSEStream, Shape
    <2>4. CASE phoneNumberProvision(r)
      BY <2>4 DEF phoneNumberProvision, Advance, Leave, Shape
    <2>5. CASE purchaseNumber(r)
      BY <2>5 DEF Shape
    <2>6. CASE phoneOutbound(r) \/ smsOutbound(r)
      BY <1>0, <1>1, <2>6 DEF phoneOutbound, smsOutbound, Shape
    <2>7. CASE \/ textCompletions(r) \/ embeddings(r) \/ audioTranscriptions(r)
               \/ audioSpeechArbitrage(r) \/ audioSpeech(r)
               \/ imageGenerations(r) \/ videoGenerations(r)
               \/ chatCompletionsHandler(r) \/ embeddingsHandler(r) \/ messagesHandler(r)
      BY <1>1, <2>7 DEF textCompletions, embeddings, audioTranscriptions, audioSpeechArbitrage,
           audioSpeech, imageGenerations, videoGenerations, chatCompletionsHandler,
           embeddingsHandler, messagesHandler, Shape
    <2>. QED BY <1>3, <2>1, <2>2, <2>3, <2>4, <2>5, <2>6, <2>7 DEF Handler
  <1>4. ASSUME NEW r \in Requests, budgetCheck(r)
        PROVE  Shape(r)
    BY <1>4 DEF budgetCheck, Advance, Leave, Shape
  <1>5. ASSUME NEW r \in Requests,
               phoneInbound(r) \/ phoneOutboundStatus(r) \/ smsInbound(r)
        PROVE  Shape(r)
    BY <1>0, <1>2, <1>5 DEF phoneInbound, phoneOutboundStatus, smsInbound, Shape
  <1>. QED
    BY <1>3, <1>4, <1>5 DEF Next, Shape

-----------------------------------------------------------------------------
(* The gateway: type correctness                                            *)

\* The states a request is put into are well typed.
LEMMA RequestTypes ==
    /\ Idle \in RequestState
    /\ \A e \in {0, Cent} : [Idle EXCEPT !.at = "budget", !.estimate = e] \in RequestState
    /\ [Idle EXCEPT !.at = "call"] \in RequestState
    /\ [Idle EXCEPT !.at = "call", !.gated = TRUE] \in RequestState
    /\ \A g \in BOOLEAN, c \in Charges :
          [Idle EXCEPT !.at = "debit", !.gated = g, !.charge = c] \in RequestState
    /\ \A c \in Charges : [Idle EXCEPT !.at = "reread", !.charge = c] \in RequestState
    /\ \A n \in Numbers : [Idle EXCEPT !.at = "release", !.number = n] \in RequestState
    /\ \A s \in RequestState, w \in Waits : [s EXCEPT !.at = w] \in RequestState
  <1>. USE DEF Idle, RequestState, Waits
  <1>0. 0 \in Charges
    BY GatewayAssumption DEF Charges
  <1>1. Idle \in RequestState
    BY <1>0, Zenon
  <1>2. \A e \in {0, Cent} : [Idle EXCEPT !.at = "budget", !.estimate = e] \in RequestState
    BY <1>0, Zenon
  <1>3. /\ [Idle EXCEPT !.at = "call"] \in RequestState
        /\ [Idle EXCEPT !.at = "call", !.gated = TRUE] \in RequestState
    BY <1>0, Zenon
  <1>4. \A g \in BOOLEAN, c \in Charges :
          [Idle EXCEPT !.at = "debit", !.gated = g, !.charge = c] \in RequestState
    BY <1>0, Zenon
  <1>5. \A c \in Charges : [Idle EXCEPT !.at = "reread", !.charge = c] \in RequestState
    BY <1>0, Zenon
  <1>6. \A n \in Numbers : [Idle EXCEPT !.at = "release", !.number = n] \in RequestState
    BY <1>0, Zenon
  <1>7. \A s \in RequestState, w \in Waits : [s EXCEPT !.at = w] \in RequestState
    BY Zenon
  <1>. QED BY <1>1, <1>2, <1>3, <1>4, <1>5, <1>6, <1>7

\* Metering and debiting keep the types.
LEMMA BillType ==
    ASSUME TypeOK, NEW r \in Requests, NEW c \in Charges,
           emitMeterEvent(r, c), debitCredits(r, c)
    PROVE  /\ req' \in [Requests -> RequestState]
           /\ unsettled' \in [Requests -> Int]
           /\ faults' \in 0..MaxFaults
  <1>1. req[r].gated \in BOOLEAN
    BY DEF TypeOK, RequestState
  <1>2. req' \in [Requests -> RequestState]
    BY <1>1, RequestTypes DEF TypeOK, debitCredits
  <1>3. unsettled' \in [Requests -> Int] /\ faults' \in 0..MaxFaults
    BY GatewayAssumption DEF TypeOK, emitMeterEvent, Fault, Charges
  <1>. QED BY <1>2, <1>3

\* The initial state is well typed.
LEMMA InitType == Init => TypeOK
  <1>1. Idle \in RequestState
    BY RequestTypes
  <1>2. ASSUME Init PROVE req \in [Requests -> RequestState]
    BY <1>1, <1>2 DEF Init
  <1>3. ASSUME Init PROVE announced \in BOOLEAN /\ raced \in BOOLEAN
    BY <1>3, Zenon DEF Init
  <1>4. ASSUME Init
        PROVE  /\ balance \in Int /\ ungated \in Nat /\ unsettled \in [Requests -> Int]
               /\ passes \in 0..MaxPasses /\ faults \in 0..MaxFaults /\ crashes \in 0..MaxCrashes
               /\ owned \subseteq sold /\ sold \subseteq Numbers /\ tracked \subseteq sold
               /\ tracking \subseteq sold /\ removing \subseteq sold
    BY <1>4, GatewayAssumption DEF Init
  <1>. QED BY <1>2, <1>3, <1>4 DEF TypeOK

\* Every step keeps the types.
LEMMA NextType == TypeOK /\ [Next]_vars => TypeOK'
  <1>. SUFFICES ASSUME TypeOK, [Next]_vars PROVE TypeOK'
    OBVIOUS
  <1>. USE DEF books, phone, hook, bounds
  <1>1. ASSUME NEW r \in Requests, Arrive(r) PROVE TypeOK'
    BY <1>1, RequestTypes DEF TypeOK, Arrive
  <1>2. ASSUME NEW r \in Requests, Advance(r) PROVE TypeOK'
    <2>1. PICK w \in Waits : req' = [req EXCEPT ![r] = [req[r] EXCEPT !.at = w]]
      BY <1>2 DEF Advance, Goto, Waits
    <2>2. req[r] \in RequestState
      BY DEF TypeOK
    <2>3. [req[r] EXCEPT !.at = w] \in RequestState
      BY <2>2, RequestTypes
    <2>4. req' \in [Requests -> RequestState]
      BY <2>1, <2>3 DEF TypeOK
    <2>. QED BY <1>2, <2>4 DEF TypeOK, Advance
  <1>3. ASSUME NEW r \in Requests, Return(r) PROVE TypeOK'
    BY <1>3, RequestTypes DEF TypeOK, Return
  <1>4. ASSUME NEW r \in Requests, Answered(r) PROVE TypeOK'
    <2>1. PICK c \in Charges :
            /\ emitMeterEvent(r, c) /\ debitCredits(r, c)
            /\ UNCHANGED <<balance, ungated, phone, hook, passes, crashes>>
      BY <1>4 DEF Answered, Bill
    <2>. QED BY <2>1, BillType DEF TypeOK
  <1>5. ASSUME NEW r \in Requests, creditBalanceCheck(r) PROVE TypeOK'
    <2>1. CASE Return(r)
      BY <1>3, <2>1
    <2>2. CASE ~Return(r)
      <3>1. PICK s \in RequestState : req' = [req EXCEPT ![r] = s]
        BY <1>5, <2>2, RequestTypes, Zenon DEF creditBalanceCheck
      <3>2. passes' \in 0..MaxPasses
        BY <1>5, <2>2, GatewayAssumption DEF TypeOK, creditBalanceCheck, Pass
      <3>3. UNCHANGED <<books, phone, hook, faults, crashes>>
        BY <1>5, <2>2 DEF creditBalanceCheck
      <3>. QED BY <3>1, <3>2, <3>3 DEF TypeOK
    <2>. QED BY <2>1, <2>2
  <1>6. ASSUME NEW r \in Requests, purchaseNumber(r) PROVE TypeOK'
    <2>1. CASE Return(r)
      BY <1>3, <2>1
    <2>2. CASE ~Return(r)
      <3>1. PICK n \in Numbers \ sold, c \in PositiveCharges :
              /\ owned' = owned \cup {n} /\ sold' = sold \cup {n}
              /\ emitMeterEvent(r, c) /\ debitCredits(r, c)
              /\ tracking' = tracking \cup {n}
              /\ UNCHANGED <<balance, ungated, tracked, removing, hook, passes, crashes>>
        BY <1>6, <2>2 DEF purchaseNumber
      <3>2. c \in Charges
        BY GatewayAssumption DEF PositiveCharges, Charges
      <3>. QED BY <3>1, <3>2, BillType DEF TypeOK
    <2>. QED BY <2>1, <2>2
  <1>7. ASSUME NEW r \in Requests, Debit(r) PROVE TypeOK'
    <2>1. req[r].charge \in Charges /\ req[r].gated \in BOOLEAN
      BY DEF TypeOK, RequestState
    <2>2. req' \in [Requests -> RequestState]
      BY <1>7, <2>1, RequestTypes DEF TypeOK, Debit
    <2>3. balance' \in Int /\ ungated' \in Nat /\ unsettled' \in [Requests -> Int]
      BY <1>7, <2>1, GatewayAssumption DEF TypeOK, Debit, Charges
    <2>4. raced' \in BOOLEAN
      BY <1>7, Zenon DEF TypeOK, Debit, Disturb
    <2>5. faults' \in 0..MaxFaults
      BY <1>7, GatewayAssumption DEF TypeOK, Debit, Fault
    <2>. QED BY <1>7, <2>2, <2>3, <2>4, <2>5 DEF TypeOK, Debit
  <1>8. ASSUME NEW r \in Requests, Reread(r) PROVE TypeOK'
    <2>1. announced' \in BOOLEAN
      BY <1>8, Zenon DEF TypeOK, Reread
    <2>2. faults' \in 0..MaxFaults
      BY <1>8, GatewayAssumption DEF TypeOK, Reread, Fault
    <2>. QED BY <1>8, <2>1, <2>2, RequestTypes DEF TypeOK, Reread
  <1>9. ASSUME NEW r \in Requests, Webhook(r, Charges) PROVE TypeOK'
    <2>1. PICK c \in Charges : emitMeterEvent(r, c) /\ debitCredits(r, c)
      BY <1>9 DEF Webhook
    <2>. QED BY <1>9, <2>1, BillType, GatewayAssumption DEF TypeOK, Webhook, Pass
  <1>10. ASSUME NEW r \in Requests, phoneNumberRelease(r) PROVE TypeOK'
    <2>1. PICK s \in RequestState : req' = [req EXCEPT ![r] = s]
      BY <1>10, RequestTypes, Zenon DEF TypeOK, phoneNumberRelease
    <2>. QED BY <1>10, <2>1 DEF TypeOK, phoneNumberRelease
  <1>11. ASSUME NEW r \in Requests, releaseNumber(r) PROVE TypeOK'
    BY <1>3, <1>11, RequestTypes DEF TypeOK, releaseNumber
  <1>12. ASSUME NEW r \in Requests, AnswerLost(r) PROVE TypeOK'
    <2>1. req' \in [Requests -> RequestState]
      BY <1>12, RequestTypes DEF TypeOK, AnswerLost
    <2>. QED BY <1>12, <2>1, GatewayAssumption DEF TypeOK, AnswerLost, Fault
  <1>13. ASSUME NEW n \in Numbers, trackPhoneNumber(n) \/ removePhoneNumber(n) PROVE TypeOK'
    BY <1>13 DEF TypeOK, trackPhoneNumber, removePhoneNumber
  <1>14. ASSUME NEW n \in Numbers, PromiseFails(n) PROVE TypeOK'
    BY <1>14, GatewayAssumption DEF TypeOK, PromiseFails, Fault
  <1>15. CASE Credit
    BY <1>15, GatewayAssumption DEF TypeOK, Credit
  <1>16. CASE Crash
    <2>1. Idle \in RequestState
      BY RequestTypes
    <2>2. req' \in [Requests -> RequestState]
      BY <1>16, <2>1 DEF Crash
    <2>. QED BY <1>16, <2>2, GatewayAssumption DEF TypeOK, Crash
  <1>17. CASE UNCHANGED vars
    BY <1>17 DEF TypeOK, vars
  <1>. QED
    BY <1>1, <1>2, <1>3, <1>4, <1>5, <1>6, <1>7, <1>8, <1>9, <1>10, <1>11, <1>12, <1>13,
       <1>14, <1>15, <1>16, <1>17, Shapes DEF Shape, Leave

-----------------------------------------------------------------------------
(* The gateway: what a step does to the request it is about                 *)

\* A free slot is not admitted.
FreeSlots == \A r \in Requests : req[r].at = "idle" => ~req[r].gated

\* Request r goes on to state q and the ledger is not touched.
Quiet(r, q) ==
    /\ req' = [req EXCEPT ![r] = q]
    /\ req[r].at \notin {"debit", "reread"} /\ q.at # "reread"
    /\ q.at = "idle" => ~q.gated
    /\ UNCHANGED <<balance, ungated, announced, raced, crashes>>
    /\ Pending(q) => Pending(req[r]) \/ balance > -Grace
    /\ \/ faults' = faults + 1
       \/ /\ faults' = faults
          /\ unsettled' = [unsettled EXCEPT ![r] = @ + IF q.at = "debit" THEN q.charge ELSE 0]

\* A handler's turn is quiet when nothing is metered and it goes on to a wait
\* before the debit.
LEMMA QuietTurn ==
    ASSUME TypeOK, NEW r \in Requests, NEW q \in RequestState,
           req' = [req EXCEPT ![r] = q],
           req[r].at \notin {"debit", "reread"}, q.at \notin {"debit", "reread"},
           q.at = "idle" => ~q.gated,
           UNCHANGED <<books, hook, faults, crashes>>,
           Pending(q) => Pending(req[r]) \/ balance > -Grace
    PROVE  Quiet(r, q)
  <1>1. unsettled' = [unsettled EXCEPT ![r] = @ + 0]
    BY DEF books, TypeOK
  <1>. QED BY <1>1 DEF Quiet, books, hook

\* Metering and debiting a handler that was answered is quiet: the ledger is
\* debited by the promise, later.
LEMMA QuietBill ==
    ASSUME TypeOK, NEW r \in Requests, NEW c \in Charges,
           emitMeterEvent(r, c), debitCredits(r, c),
           req[r].gated => Pending(req[r]),
           req[r].at \notin {"debit", "reread"},
           UNCHANGED <<balance, ungated, hook, crashes>>
    PROVE  \E q \in RequestState : Quiet(r, q)
  <1>. DEFINE q == IF c = 0 THEN Idle
                   ELSE [Idle EXCEPT !.at = "debit", !.gated = req[r].gated, !.charge = c]
  <1>1. req[r].gated \in BOOLEAN
    BY DEF TypeOK, RequestState
  <1>2. q \in RequestState
    BY <1>1, RequestTypes
  <1>3. q.at = (IF c = 0 THEN "idle" ELSE "debit") /\ q.charge = c
    BY DEF Idle
  <1>4. Pending(q) => Pending(req[r])
    BY DEF Pending, Idle
  <1>5. q.at = "idle" => ~q.gated
    BY DEF Idle
  <1>6. \/ faults' = faults + 1
        \/ faults' = faults /\ unsettled' = [unsettled EXCEPT ![r] = @ + c]
    BY DEF emitMeterEvent, Fault
  <1>7. (IF q.at = "debit" THEN q.charge ELSE 0) = c
    BY <1>3
  <1>8. req' = [req EXCEPT ![r] = q]
    BY DEF debitCredits
  <1>9. Quiet(r, q)
    BY <1>3, <1>4, <1>5, <1>6, <1>7, <1>8 DEF Quiet, hook
  <1>. QED BY <1>2, <1>9

\* Every turn of a request is quiet but the two of its debit.
LEMMA QuietShapes ==
    ASSUME TypeOK, FreeSlots, NEW r \in Requests, Shape(r), ~Debit(r), ~Reread(r)
    PROVE  \E q \in RequestState : Quiet(r, q)
  <1>. USE DEF bounds
  <1>0. Idle \in RequestState /\ Idle.at = "idle" /\ ~Idle.gated /\ ~Pending(Idle)
    BY RequestTypes DEF Idle, Pending
  <1>1. ASSUME Return(r), req[r].at \notin {"debit", "reread"}
        PROVE  Quiet(r, Idle)
    BY <1>0, <1>1, QuietTurn DEF Return
  <1>2. CASE Arrive(r)
    <2>1. PICK e \in {0, Cent} :
            req' = [req EXCEPT ![r] = [Idle EXCEPT !.at = "budget", !.estimate = e]]
      BY <1>2 DEF Arrive
    <2>. DEFINE q == [Idle EXCEPT !.at = "budget", !.estimate = e]
    <2>2. q \in RequestState /\ q.at = "budget" /\ ~Pending(q)
      BY RequestTypes DEF Idle, Pending
    <2>. QED BY <1>2, <2>1, <2>2, QuietTurn DEF Arrive
  <1>3. CASE Advance(r)
    <2>1. PICK w \in {"credit", "direct", "stream", "purchase"} :
            /\ req' = [req EXCEPT ![r] = [req[r] EXCEPT !.at = w]]
            /\ req[r].at \in {"budget", "call", "direct"}
            /\ req[r].at = "budget" => w = "credit"
      BY <1>3 DEF Advance, Goto
    <2>. DEFINE q == [req[r] EXCEPT !.at = w]
    <2>2. q \in RequestState
      BY RequestTypes DEF TypeOK, Waits
    <2>3. q.at = w /\ q.gated = req[r].gated
      BY DEF TypeOK, RequestState
    <2>4. Pending(q) => Pending(req[r])
      BY <2>1, <2>3 DEF Pending
    <2>. QED BY <1>3, <2>1, <2>2, <2>3, <2>4, QuietTurn DEF Advance
  <1>4. CASE Leave(r)
    BY <1>0, <1>1, <1>4 DEF Leave
  <1>5. CASE Answered(r)
    <2>1. PICK c \in Charges :
            /\ emitMeterEvent(r, c) /\ debitCredits(r, c)
            /\ UNCHANGED <<balance, ungated, phone, hook, passes, crashes>>
      BY <1>5 DEF Answered, Bill
    <2>2. (req[r].gated => Pending(req[r])) /\ req[r].at \notin {"debit", "reread"}
      BY <1>5 DEF Answered, Pending
    <2>. QED BY <2>1, <2>2, QuietBill
  <1>6. CASE creditBalanceCheck(r)
    <2>1. CASE Return(r)
      BY <1>0, <1>1, <1>6, <2>1 DEF creditBalanceCheck
    <2>2. CASE Pass /\ req' = [req EXCEPT ![r] = [Idle EXCEPT !.at = "call"]]
                    /\ UNCHANGED <<books, phone, hook, faults, crashes>>
      <3>. DEFINE q == [Idle EXCEPT !.at = "call"]
      <3>1. q \in RequestState /\ q.at = "call" /\ ~Pending(q)
        BY RequestTypes DEF Idle, Pending
      <3>. QED BY <1>6, <2>2, <3>1, QuietTurn DEF creditBalanceCheck
    <2>3. CASE /\ ~Refuses(balance, req[r].estimate)
               /\ req' = [req EXCEPT ![r] = [Idle EXCEPT !.at = "call", !.gated = TRUE]]
               /\ UNCHANGED <<books, phone, hook, bounds>>
      <3>. DEFINE q == [Idle EXCEPT !.at = "call", !.gated = TRUE]
      <3>1. q \in RequestState /\ q.at = "call"
        BY RequestTypes DEF Idle
      <3>2. balance > -Grace
        BY <2>3, GatewayAssumption DEF TypeOK, Refuses
      <3>. QED BY <1>6, <2>3, <3>1, <3>2, QuietTurn DEF creditBalanceCheck
    <2>. QED BY <1>6, <2>1, <2>2, <2>3 DEF creditBalanceCheck
  <1>7. CASE purchaseNumber(r)
    <2>1. CASE Return(r)
      BY <1>0, <1>1, <1>7, <2>1 DEF purchaseNumber
    <2>2. CASE ~Return(r)
      <3>1. PICK c \in PositiveCharges :
              /\ emitMeterEvent(r, c) /\ debitCredits(r, c)
              /\ UNCHANGED <<balance, ungated, hook, crashes>>
        BY <1>7, <2>2 DEF purchaseNumber
      <3>2. c \in Charges
        BY GatewayAssumption DEF PositiveCharges, Charges
      <3>3. (req[r].gated => Pending(req[r])) /\ req[r].at \notin {"debit", "reread"}
        BY <1>7 DEF purchaseNumber, Pending
      <3>. QED BY <3>1, <3>2, <3>3, QuietBill
    <2>. QED BY <2>1, <2>2
  <1>8. CASE Webhook(r, Charges)
    <2>1. PICK c \in Charges :
            /\ emitMeterEvent(r, c) /\ debitCredits(r, c)
            /\ UNCHANGED <<balance, ungated, phone, hook, crashes>>
      BY <1>8 DEF Webhook
    <2>2. ~req[r].gated /\ req[r].at \notin {"debit", "reread"}
      BY <1>8 DEF Webhook, FreeSlots
    <2>. QED BY <2>1, <2>2, QuietBill
  <1>9. CASE phoneNumberRelease(r)
    <2>1. PICK n \in owned :
            req' = [req EXCEPT ![r] = [Idle EXCEPT !.at = "release", !.number = n]]
      BY <1>9 DEF phoneNumberRelease
    <2>. DEFINE q == [Idle EXCEPT !.at = "release", !.number = n]
    <2>2. q \in RequestState
      BY RequestTypes DEF TypeOK
    <2>3. q.at = "release" /\ ~Pending(q)
      BY DEF Idle, Pending
    <2>. QED BY <1>9, <2>1, <2>2, <2>3, QuietTurn DEF phoneNumberRelease
  <1>10. CASE releaseNumber(r)
    <2>1. CASE Return(r)
      BY <1>0, <1>1, <1>10, <2>1 DEF releaseNumber
    <2>2. CASE ~Return(r)
      BY <1>0, <1>10, <2>2, QuietTurn DEF releaseNumber
    <2>. QED BY <2>1, <2>2
  <1>11. CASE AnswerLost(r)
    <2>1. Quiet(r, Idle)
      BY <1>0, <1>11 DEF Quiet, AnswerLost, Fault, books, hook
    <2>. QED BY <1>0, <2>1
  <1>. QED
    BY <1>2, <1>3, <1>4, <1>5, <1>6, <1>7, <1>8, <1>9, <1>10, <1>11 DEF Shape

-----------------------------------------------------------------------------
(* The gateway: the inductive invariant                                     *)

\* A number whose tracking is being removed is no longer owned.
RemovedIsReleased == removing \cap owned = {}

\* With the balance used up, the crossing was announced, or was raced, or is
\* about to be seen by the debit that made it.
CrossingSeen ==
    balance <= 0 /\ faults = 0 /\ crashes = 0
        => \/ announced \/ raced
           \/ \E r \in Requests : req[r].at = "reread" /\ Crossed(balance, req[r].charge)

\* What every step keeps.
IInv ==
    /\ TypeOK /\ FreeSlots /\ OverdraftCovered /\ MeterMatchesLedger
    /\ RemovedIsReleased /\ OwnedIsTracked /\ CrossingSeen

\* Multiplying by a natural number is monotone.
LEMMA TimesMonotone == \A m, a, b \in Nat : a <= b => m * a <= m * b
  OBVIOUS

\* A sum that does not fall stays above a bound that does not rise.
LEMMA BoundKept ==
    \A b, c, k, f, g \in Int : b >= k - f /\ c >= b /\ f <= g => c >= k - g
  OBVIOUS

\* A sum that falls by at most d stays above a bound that falls by d.
LEMMA BoundFalls ==
    \A b, c, d, k, f \in Int : b >= k - f /\ c >= b - d => c >= k - (f + d)
  OBVIOUS

\* The requests are finitely many, and so are the admitted ones.
LEMMA FreeFinite ==
    /\ IsFiniteSet(Requests \ Admitted)
    /\ Cardinality(Requests \ Admitted) \in Nat
    /\ Cardinality(Requests \ Admitted) <= Cardinality(Requests)
    /\ Cardinality(Requests) \in Nat
  <1>1. Requests \ Admitted \subseteq Requests
    OBVIOUS
  <1>. QED BY <1>1, GatewayAssumption, FS_Subset, FS_CardinalityType

\* The overdraft stays covered while the balance does not fall and no request
\* is admitted.
LEMMA CoveredKept ==
    ASSUME TypeOK, TypeOK', OverdraftCovered,
           balance' + ungated' >= balance + ungated, Admitted' \subseteq Admitted
    PROVE  OverdraftCovered'
  <1>. DEFINE F == Requests \ Admitted
              G == Requests \ Admitted'
  <1>1. IsFiniteSet(F) /\ Cardinality(F) \in Nat
    BY FreeFinite
  <1>2. IsFiniteSet(G)
    <2>1. G \subseteq Requests
      OBVIOUS
    <2>. QED BY <2>1, GatewayAssumption, FS_Subset
  <1>3. Cardinality(G) \in Nat /\ Cardinality(F) <= Cardinality(G)
    BY <1>2, FS_Subset, FS_CardinalityType
  <1>4. MaxCharge \in Nat /\ Grace \in Nat
    BY GatewayAssumption
  <1>. HIDE DEF F, G
  <1>5. MaxCharge * Cardinality(F) <= MaxCharge * Cardinality(G)
    BY <1>1, <1>3, <1>4, TimesMonotone
  <1>6. MaxCharge * Cardinality(F) \in Nat /\ MaxCharge * Cardinality(G) \in Nat
    BY <1>1, <1>3, <1>4
  <1>7. balance + ungated >= 1 - Grace - MaxCharge * Cardinality(F)
    BY DEF OverdraftCovered, F
  <1>8. balance' + ungated' >= 1 - Grace - MaxCharge * Cardinality(G)
    <2>1. balance + ungated \in Int /\ balance' + ungated' \in Int /\ 1 - Grace \in Int
      BY <1>4 DEF TypeOK
    <2>2. MaxCharge * Cardinality(F) \in Int /\ MaxCharge * Cardinality(G) \in Int
      BY <1>6
    <2>. QED BY <1>5, <1>7, <2>1, <2>2, BoundKept, Zenon
  <1>. QED BY <1>8 DEF OverdraftCovered, G

\* A balance above the hard stop covers any number of requests.
LEMMA CoveredAboveStop ==
    ASSUME TypeOK, TypeOK', balance' > -Grace
    PROVE  OverdraftCovered'
  <1>. DEFINE G == Requests \ Admitted'
  <1>1. IsFiniteSet(G)
    <2>1. G \subseteq Requests
      OBVIOUS
    <2>. QED BY <2>1, GatewayAssumption, FS_Subset
  <1>2. Cardinality(G) \in Nat /\ MaxCharge \in Nat /\ Grace \in Nat
    BY <1>1, GatewayAssumption, FS_CardinalityType
  <1>. HIDE DEF G
  <1>3. MaxCharge * Cardinality(G) \in Nat
    BY <1>2
  <1>4. balance' + ungated' >= 1 - Grace - MaxCharge * Cardinality(G)
    BY <1>2, <1>3 DEF TypeOK
  <1>. QED BY <1>4 DEF OverdraftCovered, G

\* A debit of an admitted request leaves one more request not admitted, which
\* covers its charge.
LEMMA CoveredDebit ==
    ASSUME TypeOK, TypeOK', OverdraftCovered, NEW r \in Admitted,
           Admitted' = Admitted \ {r},
           NEW b \in Int, NEW c \in Int, b = balance + ungated, c = balance' + ungated',
           c >= b - MaxCharge
    PROVE  OverdraftCovered'
  <1>. DEFINE F == Requests \ Admitted
              G == Requests \ Admitted'
  <1>1. IsFiniteSet(F) /\ Cardinality(F) \in Nat
    BY FreeFinite
  <1>2. r \notin F /\ G = F \cup {r}
    BY DEF Admitted
  <1>3. Cardinality(G) = Cardinality(F) + 1
    BY <1>1, <1>2, FS_AddElement
  <1>4. MaxCharge \in Nat /\ Grace \in Nat
    BY GatewayAssumption
  <1>5. balance + ungated >= 1 - Grace - MaxCharge * Cardinality(F)
    BY DEF OverdraftCovered
  <1>. HIDE DEF F, G
  <1>6. MaxCharge * Cardinality(G) = MaxCharge * Cardinality(F) + MaxCharge
    BY <1>1, <1>3, <1>4
  <1>7. c >= 1 - Grace - (MaxCharge * Cardinality(F) + MaxCharge)
    <2>1. b >= 1 - Grace - MaxCharge * Cardinality(F)
      BY <1>5
    <2>2. 1 - Grace \in Int /\ MaxCharge * Cardinality(F) \in Int /\ MaxCharge \in Int
      BY <1>1, <1>4
    <2>. QED BY <2>1, <2>2, BoundFalls
  <1>8. balance' + ungated' >= 1 - Grace - MaxCharge * Cardinality(G)
    BY <1>6, <1>7
  <1>. QED BY <1>8 DEF OverdraftCovered, G

\* A quiet turn keeps the invariants about requests.
LEMMA QuietKeeps ==
    ASSUME TypeOK, TypeOK', FreeSlots, OverdraftCovered, MeterMatchesLedger, CrossingSeen,
           NEW r \in Requests, NEW q \in RequestState, Quiet(r, q)
    PROVE  FreeSlots' /\ OverdraftCovered' /\ MeterMatchesLedger' /\ CrossingSeen'
  <1>1. /\ req'[r] = q
        /\ \A p \in Requests \ {r} : req'[p] = req[p]
    BY DEF Quiet, TypeOK
  <1>2. FreeSlots'
    BY <1>1 DEF Quiet, FreeSlots
  <1>3. OverdraftCovered'
    <2>1. CASE balance > -Grace
      BY <2>1, CoveredAboveStop DEF Quiet
    <2>2. CASE ~(balance > -Grace)
      <3>1. Admitted' \subseteq Admitted
        BY <1>1, <2>2, Zenon DEF Quiet, Admitted
      <3>2. balance' + ungated' >= balance + ungated
        BY DEF Quiet, TypeOK
      <3>. QED BY <3>1, <3>2, CoveredKept
    <2>. QED BY <2>1, <2>2
  <1>4. MeterMatchesLedger'
    <2>. SUFFICES ASSUME faults' = 0, NEW p \in Requests
                  PROVE  unsettled'[p] = IF req'[p].at = "debit" THEN req'[p].charge ELSE 0
      BY DEF MeterMatchesLedger
    <2>1. faults = 0
      BY DEF Quiet, TypeOK
    <2>2. unsettled' = [unsettled EXCEPT ![r] = @ + IF q.at = "debit" THEN q.charge ELSE 0]
      BY <2>1 DEF Quiet
    <2>3. unsettled[r] = 0
      BY <2>1 DEF Quiet, MeterMatchesLedger
    <2>4. CASE p = r
      <3>1. q.charge \in Int
        BY DEF RequestState, Charges
      <3>. QED BY <1>1, <2>2, <2>3, <2>4, <3>1 DEF TypeOK
    <2>5. CASE p # r
      BY <1>1, <2>1, <2>2, <2>5 DEF TypeOK, MeterMatchesLedger
    <2>. QED BY <2>4, <2>5
  <1>5. CrossingSeen'
    <2>. SUFFICES ASSUME balance' <= 0, faults' = 0, crashes' = 0
                  PROVE  \/ announced' \/ raced'
                         \/ \E p \in Requests : req'[p].at = "reread" /\ Crossed(balance', req'[p].charge)
      BY DEF CrossingSeen
    <2>1. balance <= 0 /\ faults = 0 /\ crashes = 0
      BY DEF Quiet, TypeOK
    <2>2. CASE announced \/ raced
      BY <2>2, Zenon DEF Quiet
    <2>3. CASE \E p \in Requests : req[p].at = "reread" /\ Crossed(balance, req[p].charge)
      BY <1>1, <2>3 DEF Quiet
    <2>. QED BY <2>1, <2>2, <2>3 DEF CrossingSeen
  <1>. QED BY <1>2, <1>3, <1>4, <1>5

\* A debit keeps the invariants about requests: its charge is covered by its
\* own slot, and it settles what was metered.
LEMMA DebitKeeps ==
    ASSUME TypeOK, TypeOK', FreeSlots, OverdraftCovered, MeterMatchesLedger, CrossingSeen,
           NEW r \in Requests, Debit(r)
    PROVE  FreeSlots' /\ OverdraftCovered' /\ MeterMatchesLedger' /\ CrossingSeen'
  <1>. DEFINE c == req[r].charge
              t == [Idle EXCEPT !.at = "reread", !.charge = c]
  <1>1. /\ c \in Charges /\ c \in Int /\ req[r].at = "debit"
        /\ balance \in Int /\ ungated \in Nat /\ MaxCharge \in Nat /\ faults \in Nat
        /\ 0 <= c /\ c <= MaxCharge
    BY GatewayAssumption DEF TypeOK, RequestState, Charges, Debit
  <1>2. t.at = "reread" /\ t.charge = c /\ ~t.gated /\ ~Pending(t)
    BY DEF Idle, Pending
  <1>3. Idle.at = "idle" /\ ~Idle.gated /\ ~Pending(Idle)
    BY DEF Idle, Pending
  <1>4. CASE \* committed
             /\ balance' = balance - c
             /\ unsettled' = [unsettled EXCEPT ![r] = @ - c]
             /\ ungated' = IF req[r].gated THEN ungated ELSE ungated + c
             /\ Disturb(Requests \ {r})
             /\ req' = [req EXCEPT ![r] = t]
             /\ UNCHANGED <<faults, announced, crashes>>
    <2>1. /\ req'[r] = t
          /\ \A p \in Requests \ {r} : req'[p] = req[p]
      BY <1>4 DEF TypeOK
    <2>2. FreeSlots'
      BY <1>2, <2>1 DEF FreeSlots
    <2>3. OverdraftCovered'
      <3>1. CASE req[r].gated
        <4>1. r \in Admitted
          BY <1>1, <3>1 DEF Admitted, Pending
        <4>2. Admitted' = Admitted \ {r}
          BY <1>2, <2>1, Zenon DEF Admitted
        <4>3. balance' + ungated' = balance - c + ungated
          BY <1>4, <3>1
        <4>4. balance + ungated \in Int /\ balance - c + ungated \in Int
          BY <1>1
        <4>5. ASSUME NEW b \in Int, NEW d \in Int,
                     b = balance + ungated, d = balance - c + ungated
              PROVE  OverdraftCovered'
          <5>1. d = balance' + ungated'
            BY <4>3, <4>5
          <5>2. d >= b - MaxCharge
            BY <1>1, <4>5
          <5>. QED BY <4>1, <4>2, <4>5, <5>1, <5>2, CoveredDebit
        <4>. QED BY <4>4, <4>5
      <3>2. CASE ~req[r].gated
        <4>1. Admitted' \subseteq Admitted
          BY <1>2, <2>1, Zenon DEF Admitted
        <4>2. balance' + ungated' = balance - c + (ungated + c)
          BY <1>4, <3>2
        <4>3. balance - c + (ungated + c) >= balance + ungated
          BY <1>1
        <4>4. balance' + ungated' >= balance + ungated
          BY <4>2, <4>3
        <4>. QED BY <4>1, <4>4, CoveredKept
      <3>. QED BY <3>1, <3>2
    <2>4. MeterMatchesLedger'
      <3>. SUFFICES ASSUME faults' = 0, NEW p \in Requests
                    PROVE  unsettled'[p] = IF req'[p].at = "debit" THEN req'[p].charge ELSE 0
        BY DEF MeterMatchesLedger
      <3>1. faults = 0
        BY <1>4
      <3>2. unsettled[r] = c
        BY <1>1, <3>1 DEF MeterMatchesLedger
      <3>3. CASE p = r
        BY <1>1, <1>2, <1>4, <2>1, <3>2, <3>3 DEF TypeOK
      <3>4. CASE p # r
        BY <1>4, <2>1, <3>1, <3>4 DEF TypeOK, MeterMatchesLedger
      <3>. QED BY <3>3, <3>4
    <2>5. CrossingSeen'
      <3>. SUFFICES ASSUME balance' <= 0, faults' = 0, crashes' = 0
                    PROVE  \/ announced' \/ raced'
                           \/ \E p \in Requests : req'[p].at = "reread" /\ Crossed(balance', req'[p].charge)
        BY DEF CrossingSeen
      <3>1. faults = 0 /\ crashes = 0
        BY <1>4
      <3>2. CASE balance > 0
        <4>1. Crossed(balance', c)
          BY <1>1, <1>4, <3>2 DEF Crossed
        <4>. QED BY <1>2, <2>1, <4>1
      <3>3. CASE announced \/ raced
        BY <1>4, <3>3, Zenon DEF Disturb
      <3>4. CASE \E p \in Requests : req[p].at = "reread" /\ Crossed(balance, req[p].charge)
        <4>1. PICK p \in Requests : req[p].at = "reread"
          BY <3>4
        <4>2. p \in Requests \ {r}
          BY <1>1, <4>1
        <4>3. raced'
          BY <1>4, <4>1, <4>2, Zenon DEF Disturb
        <4>. QED BY <4>3
      <3>5. balance > 0 \/ balance <= 0
        BY <1>1
      <3>. QED BY <3>1, <3>2, <3>3, <3>4, <3>5 DEF CrossingSeen
    <2>. QED BY <2>2, <2>3, <2>4, <2>5
  <1>5. CASE \* failed
             /\ faults' = faults + 1
             /\ req' = [req EXCEPT ![r] = Idle]
             /\ UNCHANGED <<books, raced>>
    <2>1. /\ req'[r] = Idle
          /\ \A p \in Requests \ {r} : req'[p] = req[p]
      BY <1>5 DEF TypeOK
    <2>2. FreeSlots'
      BY <1>3, <2>1 DEF FreeSlots
    <2>3. Admitted' \subseteq Admitted
      BY <1>3, <2>1, Zenon DEF Admitted
    <2>4. balance' + ungated' >= balance + ungated
      BY <1>1, <1>5 DEF books
    <2>5. faults' # 0
      BY <1>1, <1>5
    <2>. QED BY <2>2, <2>3, <2>4, <2>5, CoveredKept DEF MeterMatchesLedger, CrossingSeen
  <1>. QED BY <1>4, <1>5 DEF Debit, Fault

\* The second read of the balance keeps the invariants about requests: it is
\* the one that announces the crossing.
LEMMA RereadKeeps ==
    ASSUME TypeOK, TypeOK', FreeSlots, OverdraftCovered, MeterMatchesLedger, CrossingSeen,
           NEW r \in Requests, Reread(r)
    PROVE  FreeSlots' /\ OverdraftCovered' /\ MeterMatchesLedger' /\ CrossingSeen'
  <1>1. Idle.at = "idle" /\ ~Idle.gated /\ ~Pending(Idle)
    BY DEF Idle, Pending
  <1>2. /\ req'[r] = Idle /\ req[r].at = "reread"
        /\ \A p \in Requests \ {r} : req'[p] = req[p]
    BY DEF TypeOK, Reread
  <1>3. FreeSlots'
    BY <1>1, <1>2 DEF FreeSlots
  <1>4. OverdraftCovered'
    <2>1. Admitted' \subseteq Admitted
      BY <1>1, <1>2, Zenon DEF Admitted
    <2>2. balance' + ungated' >= balance + ungated
      BY DEF TypeOK, Reread, books
    <2>. QED BY <2>1, <2>2, CoveredKept
  <1>5. MeterMatchesLedger'
    <2>. SUFFICES ASSUME faults' = 0, NEW p \in Requests
                  PROVE  unsettled'[p] = IF req'[p].at = "debit" THEN req'[p].charge ELSE 0
      BY DEF MeterMatchesLedger
    <2>1. faults = 0 /\ unsettled' = unsettled
      BY DEF TypeOK, Reread, Fault, books
    <2>. QED BY <1>1, <1>2, <2>1 DEF MeterMatchesLedger
  <1>6. CrossingSeen'
    <2>. SUFFICES ASSUME balance' <= 0, faults' = 0, crashes' = 0
                  PROVE  \/ announced' \/ raced'
                         \/ \E p \in Requests : req'[p].at = "reread" /\ Crossed(balance', req'[p].charge)
      BY DEF CrossingSeen
    <2>1. /\ faults = 0 /\ crashes = 0 /\ balance' = balance /\ balance <= 0
      BY DEF TypeOK, Reread, Fault, books
    <2>2. announced' = (announced \/ Crossed(balance, req[r].charge))
      <3>1. ~Fault
        BY <2>1 DEF TypeOK, Fault
      <3>. QED BY <3>1, Zenon DEF Reread
    <2>3. CASE announced \/ raced
      BY <2>2, <2>3, Zenon DEF Reread
    <2>4. CASE \E p \in Requests : req[p].at = "reread" /\ Crossed(balance, req[p].charge)
      <3>1. PICK p \in Requests : req[p].at = "reread" /\ Crossed(balance, req[p].charge)
        BY <2>4
      <3>2. CASE p = r
        BY <2>2, <3>1, <3>2, Zenon
      <3>3. CASE p # r
        BY <1>2, <2>1, <3>1, <3>3
      <3>. QED BY <3>2, <3>3
    <2>. QED BY <2>1, <2>3, <2>4 DEF CrossingSeen
  <1>. QED BY <1>3, <1>4, <1>5, <1>6

\* What no request does keeps the invariants about requests.
LEMMA OthersKeep ==
    ASSUME TypeOK, TypeOK', FreeSlots, OverdraftCovered, MeterMatchesLedger, CrossingSeen,
           \/ \E n \in Numbers : trackPhoneNumber(n) \/ removePhoneNumber(n) \/ PromiseFails(n)
           \/ Credit \/ Crash \/ UNCHANGED vars
    PROVE  FreeSlots' /\ OverdraftCovered' /\ MeterMatchesLedger' /\ CrossingSeen'
  <1>1. CASE UNCHANGED <<req, books, hook, crashes>> /\ faults' \in {faults, faults + 1}
    <2>1. FreeSlots' /\ Admitted' = Admitted
      BY <1>1 DEF FreeSlots, Admitted
    <2>2. balance' + ungated' >= balance + ungated
      BY <1>1 DEF TypeOK, books
    <2>3. OverdraftCovered'
      BY <2>1, <2>2, CoveredKept
    <2>4. faults' = 0 => faults = 0
      BY <1>1 DEF TypeOK
    <2>5. MeterMatchesLedger'
      BY <1>1, <2>4 DEF MeterMatchesLedger, books
    <2>6. CrossingSeen'
      BY <1>1, <2>4, Zenon DEF CrossingSeen, books, hook
    <2>. QED BY <2>1, <2>3, <2>5, <2>6
  <1>2. CASE Credit
    <2>1. FreeSlots' /\ Admitted' = Admitted
      BY <1>2 DEF Credit, FreeSlots, Admitted
    <2>2. OverdraftCovered'
      <3>1. balance' + ungated' = balance + Topup + ungated
        BY <1>2 DEF Credit
      <3>2. balance + Topup + ungated >= balance + ungated
        BY GatewayAssumption DEF TypeOK
      <3>3. balance' + ungated' >= balance + ungated
        BY <3>1, <3>2
      <3>. QED BY <2>1, <3>3, CoveredKept
    <2>3. MeterMatchesLedger'
      BY <1>2 DEF Credit, bounds, MeterMatchesLedger
    <2>4. CrossingSeen'
      <3>. SUFFICES ASSUME balance' <= 0, faults' = 0, crashes' = 0
                    PROVE  announced' \/ raced'
        BY DEF CrossingSeen
      <3>1. faults = 0 /\ crashes = 0
        BY <1>2 DEF Credit, bounds
      <3>2. balance <= 0
        BY <1>2, GatewayAssumption DEF Credit, TypeOK
      <3>3. announced \/ raced \/ \E p \in Requests : req[p].at = "reread"
        BY <3>1, <3>2, Zenon DEF CrossingSeen
      <3>. QED BY <1>2, <3>3, Zenon DEF Credit
    <2>. QED BY <2>1, <2>2, <2>3, <2>4
  <1>3. CASE Crash
    <2>1. Idle.at = "idle" /\ ~Idle.gated /\ ~Pending(Idle)
      BY DEF Idle, Pending
    <2>2. \A p \in Requests : req'[p] = Idle /\ unsettled'[p] = 0
      BY <1>3 DEF Crash
    <2>3. FreeSlots' /\ Admitted' \subseteq Admitted
      BY <2>1, <2>2, Zenon DEF FreeSlots, Admitted
    <2>4. balance' + ungated' >= balance + ungated
      BY <1>3 DEF Crash, TypeOK
    <2>5. MeterMatchesLedger'
      BY <2>1, <2>2 DEF MeterMatchesLedger
    <2>6. crashes' # 0
      BY <1>3 DEF Crash, TypeOK
    <2>. QED BY <2>3, <2>4, <2>5, <2>6, CoveredKept DEF CrossingSeen
  <1>. QED
    BY <1>1, <1>2, <1>3 DEF trackPhoneNumber, removePhoneNumber, PromiseFails, Fault,
         vars, bounds

\* Every step keeps the invariants about phone numbers.
LEMMA NumbersKept ==
    ASSUME TypeOK, TypeOK', RemovedIsReleased, OwnedIsTracked, [Next]_vars
    PROVE  RemovedIsReleased' /\ OwnedIsTracked'
  <1>1. CASE UNCHANGED phone /\ faults' \in {faults, faults + 1} /\ crashes' = crashes
    <2>1. faults' = 0 => faults = 0
      BY <1>1 DEF TypeOK
    <2>. QED BY <1>1, <2>1 DEF phone, RemovedIsReleased, OwnedIsTracked
  <1>2. ASSUME NEW r \in Requests, purchaseNumber(r), ~Return(r)
        PROVE  RemovedIsReleased' /\ OwnedIsTracked'
    <2>1. PICK n \in Numbers \ sold, c \in PositiveCharges :
            /\ owned' = owned \cup {n} /\ emitMeterEvent(r, c)
            /\ tracking' = tracking \cup {n}
            /\ UNCHANGED <<tracked, removing, crashes>>
      BY <1>2 DEF purchaseNumber
    <2>2. n \notin removing
      BY DEF TypeOK
    <2>3. faults' = 0 => faults = 0
      BY <2>1 DEF emitMeterEvent, Fault, TypeOK
    <2>. QED BY <2>1, <2>2, <2>3 DEF RemovedIsReleased, OwnedIsTracked
  <1>3. ASSUME NEW r \in Requests, releaseNumber(r), ~Return(r)
        PROVE  RemovedIsReleased' /\ OwnedIsTracked'
    BY <1>3 DEF releaseNumber, bounds, RemovedIsReleased, OwnedIsTracked
  <1>4. ASSUME NEW n \in Numbers, trackPhoneNumber(n) \/ removePhoneNumber(n)
        PROVE  RemovedIsReleased' /\ OwnedIsTracked'
    BY <1>4 DEF trackPhoneNumber, removePhoneNumber, bounds, RemovedIsReleased, OwnedIsTracked
  <1>5. ASSUME NEW n \in Numbers, PromiseFails(n)
        PROVE  RemovedIsReleased' /\ OwnedIsTracked'
    <2>1. faults' # 0
      BY <1>5 DEF PromiseFails, Fault, TypeOK
    <2>. QED BY <1>5, <2>1 DEF PromiseFails, RemovedIsReleased, OwnedIsTracked
  <1>6. CASE Crash
    <2>1. crashes' # 0
      BY <1>6 DEF Crash, TypeOK
    <2>. QED BY <1>6, <2>1 DEF Crash, RemovedIsReleased, OwnedIsTracked
  <1>7. ASSUME NEW r \in Requests, Shape(r)
        PROVE  RemovedIsReleased' /\ OwnedIsTracked'
    <2>1. CASE Return(r)
      BY <1>1, <2>1 DEF Return, bounds
    <2>2. CASE purchaseNumber(r) \/ releaseNumber(r)
      BY <1>2, <1>3, <2>1, <2>2
    <2>3. CASE AnswerLost(r)
      <3>1. faults' # 0
        BY <2>3 DEF AnswerLost, Fault, TypeOK
      <3>2. removing' \cap owned' = {}
        BY <2>3 DEF AnswerLost, TypeOK, RemovedIsReleased
      <3>. QED BY <3>1, <3>2 DEF RemovedIsReleased, OwnedIsTracked
    <2>4. CASE ~Return(r) /\ ~purchaseNumber(r) /\ ~releaseNumber(r) /\ ~AnswerLost(r)
      BY <1>1, <1>7, <2>4 DEF Shape, Arrive, Advance, Leave, Answered, Bill, creditBalanceCheck,
           Debit, Reread, Webhook, phoneNumberRelease, emitMeterEvent, Fault, bounds
    <2>. QED BY <2>1, <2>2, <2>3, <2>4
  <1>8. CASE Credit
    BY <1>1, <1>8 DEF Credit, bounds
  <1>9. CASE UNCHANGED vars
    BY <1>1, <1>9 DEF vars, bounds
  <1>. QED
    BY <1>4, <1>5, <1>6, <1>7, <1>8, <1>9, Shapes

-----------------------------------------------------------------------------
(* The gateway: the theorems                                                *)

\* The invariant holds at the start.
LEMMA InitIInv == Init => IInv
  <1>. SUFFICES ASSUME Init PROVE IInv
    OBVIOUS
  <1>1. TypeOK
    BY InitType
  <1>2. Idle.at = "idle" /\ ~Idle.gated
    BY DEF Idle
  <1>3. \A r \in Requests : req[r] = Idle /\ unsettled[r] = 0
    BY DEF Init
  <1>4. FreeSlots /\ MeterMatchesLedger
    BY <1>2, <1>3 DEF FreeSlots, MeterMatchesLedger
  <1>5. OverdraftCovered
    <2>1. MaxCharge * Cardinality(Requests \ Admitted) \in Nat
      BY FreeFinite, GatewayAssumption
    <2>2. balance \in Nat \ {0} /\ ungated = 0 /\ Grace \in Nat
      BY GatewayAssumption DEF Init
    <2>. QED BY <2>1, <2>2 DEF OverdraftCovered
  <1>6. RemovedIsReleased /\ OwnedIsTracked
    BY DEF Init, RemovedIsReleased, OwnedIsTracked
  <1>7. CrossingSeen
    <2>1. ~(balance <= 0)
      BY GatewayAssumption DEF Init
    <2>. QED BY <2>1 DEF CrossingSeen
  <1>. QED BY <1>1, <1>4, <1>5, <1>6, <1>7 DEF IInv

\* Every step keeps the invariant.
LEMMA NextIInv == IInv /\ [Next]_vars => IInv'
  <1>. SUFFICES ASSUME IInv, [Next]_vars PROVE IInv'
    OBVIOUS
  <1>1. TypeOK /\ TypeOK'
    BY NextType DEF IInv
  <1>2. RemovedIsReleased' /\ OwnedIsTracked'
    BY <1>1, NumbersKept DEF IInv
  <1>3. FreeSlots' /\ OverdraftCovered' /\ MeterMatchesLedger' /\ CrossingSeen'
    <2>1. CASE \E r \in Requests : Shape(r)
      <3>1. PICK r \in Requests : Shape(r)
        BY <2>1
      <3>2. CASE Debit(r)
        BY <1>1, <3>2, DebitKeeps DEF IInv
      <3>3. CASE Reread(r)
        BY <1>1, <3>3, RereadKeeps DEF IInv
      <3>4. CASE ~Debit(r) /\ ~Reread(r)
        BY <1>1, <3>1, <3>4, QuietShapes, QuietKeeps DEF IInv
      <3>. QED BY <3>2, <3>3, <3>4
    <2>2. CASE \/ \E n \in Numbers : trackPhoneNumber(n) \/ removePhoneNumber(n) \/ PromiseFails(n)
               \/ Credit \/ Crash \/ UNCHANGED vars
      BY <1>1, <2>2, OthersKeep DEF IInv
    <2>. QED BY <2>1, <2>2, Shapes
  <1>. QED BY <1>1, <1>2, <1>3 DEF IInv

\* For any number of requests in flight, the overdraft of the checked requests
\* (credit-gate.ts, creditBalanceCheck and debitCredits) stays within the grace
\* buffer and one charge per request.
THEOREM OverdraftTheorem == Spec => []OverdraftBounded
  <1>1. IInv => OverdraftBounded
    <2>. SUFFICES ASSUME IInv PROVE OverdraftBounded
      OBVIOUS
    <2>1. /\ MaxCharge * Cardinality(Requests \ Admitted) <= MaxCharge * Cardinality(Requests)
          /\ MaxCharge * Cardinality(Requests \ Admitted) \in Int
          /\ MaxCharge * Cardinality(Requests) \in Int
      BY FreeFinite, TimesMonotone, GatewayAssumption
    <2>2. balance + ungated \in Int /\ 1 - Grace \in Int
      BY GatewayAssumption DEF IInv, TypeOK
    <2>. QED BY <2>1, <2>2, BoundKept DEF IInv, OverdraftCovered, OverdraftBounded
  <1>. QED BY <1>1, InitIInv, NextIInv, PTL DEF Spec

\* What the handlers of proxy.ts and gateway/protocol meter and what they debit
\* differ by the debits on their way, for any number of requests.
THEOREM MeterTheorem == Spec => [](TypeOK /\ MeterMatchesLedger)
  <1>1. IInv => TypeOK /\ MeterMatchesLedger
    BY DEF IInv
  <1>. QED BY <1>1, InitIInv, NextIInv, PTL DEF Spec

\* A crossing of zero that debitCredits does not announce was raced by another
\* write of the balance.
THEOREM CrossingTheorem == Spec => []MissedOnlyByRace
  <1>1. IInv => MissedOnlyByRace
    BY Zenon DEF IInv, CrossingSeen, MissedOnlyByRace
  <1>. QED BY <1>1, InitIInv, NextIInv, PTL DEF Spec

\* No order of purchases, releases and repository promises (proxy.ts,
\* phoneNumberProvision and phoneNumberRelease) leaves an owned number untracked.
THEOREM TrackedTheorem == Spec => []OwnedIsTracked
  <1>1. IInv => OwnedIsTracked
    BY DEF IInv
  <1>. QED BY <1>1, InitIInv, NextIInv, PTL DEF Spec

-----------------------------------------------------------------------------
(* Restores and the nightly archives                                        *)

Whole == {Live} \cup Snapshots

RestorePlaces == {"idle", "aside", "unpack", "tidy", "back"}
RestoreRows == [pc : RestorePlaces, s : Snapshots \cup {0}]

\* Where the content of the home directory is while one restore is under way.
HomeKept(r) ==
    /\ restorer[r].pc \in {"aside", "tidy"} => homeDir \in Whole
    /\ restorer[r].pc \in {"unpack", "back"} => aside[r] \in Whole

RestoreInv ==
    /\ restorer \in [Restorers -> RestoreRows]
    /\ aside \in [Restorers -> Whole \cup {Partial, Gone}]
    /\ homeDir \in Whole \cup {Partial, Gone}
    /\ \A r \in Restorers : Busy(r) => restorer[r].pc # "idle" /\ restorer[r].s \in Snapshots
    /\ muddled \in BOOLEAN
    /\ ~muddled =>
         /\ \A q, r \in Restorers : Busy(q) /\ Busy(r) => q = r
         /\ \A r \in Restorers : Busy(r) => HomeKept(r)
         /\ (\A r \in Restorers : ~Busy(r)) => homeDir \in Whole

NightsInv == night \in 0..LastDay /\ nightly \subseteq 0..LastDay

BackupInv == RestoreInv /\ NightsInv

LEMMA BackupInitInv == BackupInit => BackupInv
  <1>. SUFFICES ASSUME BackupInit PROVE BackupInv
    OBVIOUS
  <1>1. AtRest \in RestoreRows
    BY DEF AtRest, RestoreRows, RestorePlaces
  <1>2. \A r \in Restorers : ~Busy(r)
    BY DEF BackupInit, Busy
  <1>3. /\ restorer \in [Restorers -> RestoreRows] /\ aside \in [Restorers -> Whole \cup {Partial, Gone}]
        /\ homeDir \in Whole /\ muddled = FALSE
    BY <1>1 DEF BackupInit, Whole
  <1>4. RestoreInv
    BY <1>2, <1>3 DEF RestoreInv
  <1>5. NightsInv
    BY BackupsAssumption DEF BackupInit, NightsInv
  <1>. QED
    BY <1>4, <1>5 DEF BackupInv

\* A step of one restore: what it leaves to it or to nobody.
LEMMA RestoreSteps ==
    ASSUME RestoreInv, NEW r \in Restorers, NEW row \in RestoreRows,
           restorer' = [restorer EXCEPT ![r] = row], row # AtRest => row.pc # "idle" /\ row.s \in Snapshots,
           aside' \in [Restorers -> Whole \cup {Partial, Gone}],
           homeDir' \in Whole \cup {Partial, Gone},
           muddled' \in BOOLEAN, ~muddled' => ~muddled /\ \A q \in Restorers : q # r => ~Busy(q),
           ~muddled' => IF row.pc \in {"unpack", "back"} THEN aside'[r] \in Whole ELSE homeDir' \in Whole
    PROVE  RestoreInv'
  <1>1. restorer' \in [Restorers -> RestoreRows] /\ restorer'[r] = row
        /\ \A q \in Restorers : q # r => restorer'[q] = restorer[q]
    BY DEF RestoreInv
  <1>2. \A q \in Restorers : Busy(q)' = IF q = r THEN row # AtRest ELSE Busy(q)
    BY <1>1 DEF Busy
  <1>3. \A q \in Restorers : Busy(q)' => restorer'[q].pc # "idle" /\ restorer'[q].s \in Snapshots
    BY <1>1, <1>2 DEF RestoreInv
  <1>4. ASSUME ~muddled'
        PROVE  /\ \A p, q \in Restorers : Busy(p)' /\ Busy(q)' => p = q
               /\ \A q \in Restorers : Busy(q)' => HomeKept(q)'
               /\ (\A q \in Restorers : ~Busy(q)') => homeDir' \in Whole
    <2>1. \A q \in Restorers : Busy(q)' => q = r
      BY <1>2, <1>4
    <2>2. HomeKept(r)'
      BY <1>1, <1>4 DEF HomeKept
    <2>3. (\A q \in Restorers : ~Busy(q)') => homeDir' \in Whole
      <3>1. CASE row = AtRest
        BY <1>4, <3>1 DEF AtRest
      <3>2. CASE row # AtRest
        BY <1>2, <3>2
      <3>. QED
        BY <3>1, <3>2
    <2>. QED
      BY <2>1, <2>2, <2>3
  <1>. QED
    BY <1>1, <1>3, <1>4 DEF RestoreInv

LEMMA RestoringInv ==
    ASSUME RestoreInv, NEW r \in Restorers,
           \/ moveAside(r) \/ unpack(r) \/ tidy(r) \/ rollBack(r) \/ RestoreDies(r)
           \/ \E s \in Snapshots : restore(r, s)
    PROVE  RestoreInv'
  <1>0. /\ restorer[r] \in RestoreRows /\ restorer[r].pc \in RestorePlaces
        /\ restorer[r].pc # "idle" => Busy(r)
        /\ Busy(r) => restorer[r].s \in Snapshots
        /\ ~muddled /\ Busy(r) => HomeKept(r) /\ \A q \in Restorers : q # r => ~Busy(q)
        /\ AtRest \in RestoreRows /\ AtRest.pc = "idle"
        /\ Snapshots \subseteq Whole
    BY DEF RestoreInv, RestoreRows, RestorePlaces, AtRest, Busy, Whole
  <1>1. ASSUME NEW s \in Snapshots, restore(r, s) PROVE RestoreInv'
    <2>. DEFINE row == [pc |-> "aside", s |-> s]
    <2>1. row \in RestoreRows /\ row.pc = "aside" /\ row.s = s
      BY DEF RestoreRows, RestorePlaces
    <2>2. restorer' = [restorer EXCEPT ![r] = row] /\ UNCHANGED <<homeDir, aside>>
          /\ muddled' = (muddled \/ \E q \in Restorers : Busy(q))
      BY <1>1 DEF restore
    <2>3. ~muddled' => ~muddled /\ (\A q \in Restorers : ~Busy(q)) /\ homeDir' \in Whole
      BY <2>2 DEF RestoreInv
    <2>4. muddled' \in BOOLEAN
      BY <2>2 DEF RestoreInv
    <2>. HIDE DEF row
    <2>. QED
      BY <2>1, <2>2, <2>3, <2>4, RestoreSteps DEF RestoreInv
  <1>2. CASE moveAside(r)
    <2>. DEFINE row == [restorer[r] EXCEPT !.pc = "unpack"]
    <2>1. row \in RestoreRows /\ row.pc = "unpack" /\ row.s = restorer[r].s
      BY <1>0 DEF RestoreRows, RestorePlaces
    <2>2. restorer' = [restorer EXCEPT ![r] = row] /\ homeDir' = Partial /\ UNCHANGED muddled
          /\ aside' = [aside EXCEPT ![r] = homeDir] /\ restorer[r].pc = "aside"
      BY <1>2 DEF moveAside
    <2>3. ~muddled' => aside'[r] \in Whole
      BY <1>0, <2>2 DEF RestoreInv, HomeKept
    <2>4. aside' \in [Restorers -> Whole \cup {Partial, Gone}]
      BY <2>2 DEF RestoreInv
    <2>. HIDE DEF row
    <2>. QED
      BY <1>0, <2>1, <2>2, <2>3, <2>4, RestoreSteps DEF RestoreInv
  <1>3. CASE unpack(r)
    <2>1. PICK at \in {"tidy", "back"} :
             /\ restorer' = [restorer EXCEPT ![r].pc = at]
             /\ IF at = "tidy" THEN homeDir' = restorer[r].s ELSE homeDir' \in {Partial, Gone}
      BY <1>3 DEF unpack
    <2>. DEFINE row == [restorer[r] EXCEPT !.pc = at]
    <2>2. row \in RestoreRows /\ row.pc = at /\ row.s = restorer[r].s
      BY <1>0 DEF RestoreRows, RestorePlaces
    <2>3. restorer' = [restorer EXCEPT ![r] = row] /\ UNCHANGED <<muddled, aside>> /\ restorer[r].pc = "unpack"
      BY <1>3, <2>1 DEF unpack
    <2>4. ~muddled' => IF at = "back" THEN aside'[r] \in Whole ELSE homeDir' \in Whole
      BY <1>0, <2>1, <2>3 DEF HomeKept
    <2>5. homeDir' \in Whole \cup {Partial, Gone}
      BY <1>0, <2>1, <2>3
    <2>. HIDE DEF row
    <2>. QED
      BY <1>0, <2>2, <2>3, <2>4, <2>5, RestoreSteps DEF RestoreInv
  <1>4. CASE tidy(r) \/ rollBack(r)
    <2>1. /\ restorer' = [restorer EXCEPT ![r] = AtRest] /\ UNCHANGED muddled
          /\ aside' = [aside EXCEPT ![r] = Gone]
          /\ \/ restorer[r].pc = "tidy" /\ homeDir' = homeDir
             \/ restorer[r].pc = "back" /\ homeDir' = aside[r]
      BY <1>4 DEF tidy, rollBack, moveBack
    <2>2. ~muddled' => homeDir' \in Whole
      BY <1>0, <2>1 DEF HomeKept
    <2>3. homeDir' \in Whole \cup {Partial, Gone} /\ aside' \in [Restorers -> Whole \cup {Partial, Gone}]
      BY <2>1 DEF RestoreInv
    <2>. QED
      BY <1>0, <2>1, <2>2, <2>3, RestoreSteps DEF RestoreInv
  <1>5. CASE RestoreDies(r)
    BY <1>0, <1>5, RestoreSteps DEF RestoreDies, RestoreInv
  <1>. QED
    BY <1>1, <1>2, <1>3, <1>4, <1>5

LEMMA RetainedIsThere == selectRetained(nightly) \subseteq nightly
  BY DEF selectRetained, Newest

LEMMA BackupNextInv == BackupInv /\ [BackupNext]_backupVars => BackupInv'
  <1>. SUFFICES ASSUME BackupInv, [BackupNext]_backupVars PROVE BackupInv'
    OBVIOUS
  <1>1. UNCHANGED restoring => RestoreInv'
    BY DEF restoring, BackupInv, RestoreInv, Busy, HomeKept
  <1>2. UNCHANGED <<night, nightly>> => NightsInv'
    BY DEF BackupInv, NightsInv
  <1>3. ASSUME NEW r \in Restorers,
               \/ moveAside(r) \/ unpack(r) \/ tidy(r) \/ rollBack(r) \/ RestoreDies(r)
               \/ \E s \in Snapshots : restore(r, s)
        PROVE  BackupInv'
    <2>1. UNCHANGED <<night, nightly>>
      BY <1>3 DEF moveAside, unpack, tidy, rollBack, RestoreDies, restore, nights
    <2>. QED
      BY <1>2, <1>3, <2>1, RestoringInv DEF BackupInv
  <1>4. ASSUME \/ \E m \in Makers : create(m) \/ uploadCopy(m) \/ insertSnapshot(m)
               \/ \E s \in Snapshots : Time(s) \/ deleteSnapshot(s)
               \/ enforceRetention \/ runSnapshotExpiryCron
               \/ \E d \in {"tenant", "retention", "expiry"} : RemoveCopy(d) \/ RemoveRow(d)
               \/ verify \/ UNCHANGED backupVars
        PROVE  BackupInv'
    <2>1. UNCHANGED restoring /\ UNCHANGED <<night, nightly>>
      BY <1>4 DEF create, uploadCopy, insertSnapshot, Time, deleteSnapshot, Begin, enforceRetention,
         runSnapshotExpiryCron, RemoveCopy, RemoveRow, verify, backupVars, restoring, nights
    <2>. QED
      BY <1>1, <1>2, <2>1 DEF BackupInv
  <1>5. ASSUME backupContainer \/ enforceSpacesRetention \/ \E days \in {3, 7} : NightFalls(days)
        PROVE  BackupInv'
    <2>1. UNCHANGED restoring
      BY <1>5 DEF backupContainer, enforceSpacesRetention, NightFalls
    <2>2. ASSUME backupContainer PROVE NightsInv'
      <3>1. night' = night /\ (nightly' = nightly \cup {night} \/ nightly' = nightly)
        BY <2>2 DEF backupContainer
      <3>. QED
        BY <3>1 DEF BackupInv, NightsInv
    <2>3. ASSUME enforceSpacesRetention PROVE NightsInv'
      <3>1. night' = night /\ (nightly' = selectRetained(nightly) \/ nightly' = nightly)
        BY <2>3 DEF enforceSpacesRetention
      <3>. QED
        BY <3>1, RetainedIsThere DEF BackupInv, NightsInv
    <2>4. ASSUME NEW days \in {3, 7}, NightFalls(days) PROVE NightsInv'
      BY <2>4, BackupsAssumption DEF NightFalls, BackupInv, NightsInv
    <2>. QED
      BY <1>1, <1>5, <2>1, <2>2, <2>3, <2>4 DEF BackupInv
  <1>. QED
    BY <1>3, <1>4, <1>5 DEF BackupNext

-----------------------------------------------------------------------------

Monday(d) == d - (d % 7)
WeekKey(d) == isoYear(d) * 100 + weekNum(d)

\* The week key tells weeks apart as their Mondays do, and sorts like them, also
\* over the end of the year.
LEMMA WeeksSort ==
    ASSUME NEW d \in 0..LastDay, NEW e \in 0..LastDay
    PROVE  /\ WeekKey(d) \in Int /\ Monday(d) \in Int
           /\ WeekKey(d) > WeekKey(e) <=> Monday(d) > Monday(e)
           /\ getISOWeekKey(d) = getISOWeekKey(e) <=> Monday(d) = Monday(e)
           /\ WeekKey(d) = WeekKey(e) <=> Monday(d) = Monday(e)
  <1>1. \A x \in 0..LastDay :
          \E k \in Nat : /\ Monday(x) = 7 * k
                         /\ k = 0 => isoYear(x) = 2025 /\ weekNum(x) = 52
                         /\ k # 0 => isoYear(x) = 2026 /\ weekNum(x) = k
    <2>. TAKE x \in 0..LastDay
    <2>1. PICK k \in Nat, i \in 0..6 : x = 7 * k + i
      <3>1. x = 7 * (x \div 7) + (x % 7) /\ x \div 7 \in Nat /\ x % 7 \in 0..6
        BY BackupsAssumption
      <3>. QED
        BY <3>1
    <2>2. x % 7 = i
      BY <2>1
    <2>3. Monday(x) = 7 * k /\ Thursday(x) = 7 * k + 3
      BY <2>1, <2>2 DEF Monday, Thursday
    <2>4. Jan1[2026] = 10 /\ Jan1[2025] = -355
      BY DEF Jan1
    <2>5. CASE k = 0
      <3>1. isoYear(x) = 2025
        BY <2>3, <2>4, <2>5 DEF isoYear
      <3>2. weekNum(x) = (358 \div 7) + 1
        BY <2>3, <2>4, <2>5, <3>1 DEF weekNum
      <3>. QED
        BY <2>3, <2>5, <3>1, <3>2
    <2>6. CASE k # 0
      <3>1. isoYear(x) = 2026
        BY <2>3, <2>4, <2>6 DEF isoYear
      <3>2. weekNum(x) = ((7 * k - 7) \div 7) + 1
        BY <2>3, <2>4, <3>1 DEF weekNum
      <3>3. (7 * k - 7) \div 7 = k - 1
        BY <2>6
      <3>. QED
        BY <2>3, <2>6, <3>1, <3>2, <3>3
    <2>. QED
      BY <2>5, <2>6
  <1>2. PICK k \in Nat : /\ Monday(d) = 7 * k
                         /\ k = 0 => isoYear(d) = 2025 /\ weekNum(d) = 52
                         /\ k # 0 => isoYear(d) = 2026 /\ weekNum(d) = k
    BY <1>1
  <1>3. PICK m \in Nat : /\ Monday(e) = 7 * m
                         /\ m = 0 => isoYear(e) = 2025 /\ weekNum(e) = 52
                         /\ m # 0 => isoYear(e) = 2026 /\ weekNum(e) = m
    BY <1>1
  <1>4. WeekKey(d) = (IF k = 0 THEN 202552 ELSE 202600 + k) /\ WeekKey(e) = (IF m = 0 THEN 202552 ELSE 202600 + m)
    BY <1>2, <1>3 DEF WeekKey
  <1>5. getISOWeekKey(d) = getISOWeekKey(e) <=> k = m
    BY <1>2, <1>3 DEF getISOWeekKey
  <1>. QED
    BY <1>2, <1>3, <1>4, <1>5

\* Of a week's dates one is the newest.
LEMMA WeekHasNewest ==
    ASSUME NEW days \in SUBSET (0..LastDay), NEW d \in days
    PROVE  \E f \in days : Monday(f) = Monday(d) /\ \A e \in days : Monday(e) = Monday(d) => e <= f
  <1>. DEFINE m == Monday(d)
              S == {e \in days : Monday(e) = m}
  <1>1. m \in Int /\ \A e \in S : e \in Int /\ e - m \in 0..6
    <2>1. \A e \in 0..LastDay : e \in Int /\ e % 7 \in 0..6
      BY BackupsAssumption
    <2>. QED
      BY <2>1 DEF Monday
  <1>2. d \in S
    OBVIOUS
  <1>. HIDE DEF m, S
  <1>3. \E f \in S : \A e \in S : e <= f
    <2>1. \A e \in S : e \in {m, m + 1, m + 2, m + 3, m + 4, m + 5, m + 6}
      BY <1>1
    <2>2. CASE m + 6 \in S
      BY <1>1, <2>1, <2>2
    <2>3. CASE m + 5 \in S /\ m + 6 \notin S
      BY <1>1, <2>1, <2>3
    <2>4. CASE m + 4 \in S /\ m + 5 \notin S /\ m + 6 \notin S
      BY <1>1, <2>1, <2>4
    <2>5. CASE m + 3 \in S /\ m + 4 \notin S /\ m + 5 \notin S /\ m + 6 \notin S
      BY <1>1, <2>1, <2>5
    <2>6. CASE m + 3 \notin S /\ m + 4 \notin S /\ m + 5 \notin S /\ m + 6 \notin S
      <3>1. CASE m + 2 \in S
        BY <1>1, <2>1, <2>6, <3>1
      <3>2. CASE m + 1 \in S /\ m + 2 \notin S
        BY <1>1, <2>1, <2>6, <3>2
      <3>3. CASE m + 1 \notin S /\ m + 2 \notin S
        BY <1>1, <1>2, <2>1, <2>6, <3>3
      <3>. QED
        BY <3>1, <3>2, <3>3
    <2>. QED
      BY <2>2, <2>3, <2>4, <2>5, <2>6
  <1>. QED
    BY <1>3 DEF S, m

\* A week is among the newest by its key exactly when it is by its Monday.
LEMMA WeeksRank ==
    ASSUME NEW days \in SUBSET (0..LastDay), NEW d \in days
    PROVE  Cardinality({x \in {WeekKey(e) : e \in days} : x > WeekKey(d)})
             = Cardinality({x \in {Monday(e) : e \in days} : x > Monday(d)})
  <1>. DEFINE Ks == {x \in {WeekKey(e) : e \in days} : x > WeekKey(d)}
              Ms == {x \in {Monday(e) : e \in days} : x > Monday(d)}
              day(x) == CHOOSE e \in days : Monday(e) = x
              f == [x \in Ms |-> WeekKey(day(x))]
  <1>1. \A a, b \in days : /\ WeekKey(a) > WeekKey(b) <=> Monday(a) > Monday(b)
                           /\ WeekKey(a) = WeekKey(b) <=> Monday(a) = Monday(b)
    BY WeeksSort
  <1>2. \A x \in Ms : day(x) \in days /\ Monday(day(x)) = x
    OBVIOUS
  <1>3. IsFiniteSet(Ms)
    <2>. DEFINE g == [e \in days |-> Monday(e)]
                All == {Monday(e) : e \in days}
    <2>1. IsFiniteSet(days)
      <3>1. IsFiniteSet(0..LastDay)
        BY FS_Interval, BackupsAssumption
      <3>. QED
        BY <3>1, FS_Subset
    <2>2. g \in Surjection(days, All)
      BY DEF Surjection
    <2>3. IsFiniteSet(All)
      BY <2>1, <2>2, FS_Surjection
    <2>. QED
      BY <2>3, FS_Subset
  <1>4. f \in [Ms -> Ks]
    <2>. SUFFICES ASSUME NEW x \in Ms PROVE WeekKey(day(x)) \in Ks
      OBVIOUS
    <2>. QED
      BY <1>1, <1>2
  <1>5. \A x, y \in Ms : f[x] = f[y] => x = y
    BY <1>1, <1>2
  <1>6. \A k \in Ks : \E x \in Ms : f[x] = k
    <2>. TAKE k \in Ks
    <2>1. PICK e \in days : k = WeekKey(e) /\ k > WeekKey(d)
      OBVIOUS
    <2>2. Monday(e) \in Ms
      BY <1>1, <2>1
    <2>3. f[Monday(e)] = k
      BY <1>1, <1>2, <2>1, <2>2
    <2>. QED
      BY <2>2, <2>3
  <1>. HIDE DEF f, Ms, Ks
  <1>7. f \in Bijection(Ms, Ks)
    BY <1>4, <1>5, <1>6 DEF Bijection, Injection, Surjection, IsInjective
  <1>. QED
    <2>1. ExistsBijection(Ms, Ks)
      BY <1>7 DEF ExistsBijection
    <2>2. Cardinality(Ks) = Cardinality(Ms)
      BY <1>3, <2>1, FS_Bijection
    <2>. QED
      BY <2>2 DEF Ms, Ks

LEMMA NightsKept == NightsInv => RetentionKeeps
  <1>. SUFFICES ASSUME NightsInv PROVE RetentionKeeps
    OBVIOUS
  <1>. DEFINE daily == Newest(archive.daily, nightly)
              rest == nightly \ daily
              firsts == {d \in rest : \A e \in rest : getISOWeekKey(e) = getISOWeekKey(d) => e <= d}
              keys == {WeekKey(d) : d \in firsts}
              mondays == {Monday(d) : d \in rest}
              kept == selectRetained(nightly)
  <1>1. kept = daily \cup {d \in firsts : WeekKey(d) \in Newest(archive.weekly, keys)}
    BY DEF selectRetained, WeekKey
  <1>2. rest \in SUBSET (0..LastDay) /\ rest \subseteq nightly
    BY DEF NightsInv
  <1>. HIDE DEF daily, rest
  <1>3. \A d \in rest : d \in firsts <=> \A e \in rest : Monday(e) = Monday(d) => e <= d
    BY <1>2, WeeksSort
  <1>4. keys = {WeekKey(d) : d \in rest}
    <2>1. ASSUME NEW d \in rest PROVE WeekKey(d) \in keys
      <3>1. PICK f \in rest : Monday(f) = Monday(d) /\ \A e \in rest : Monday(e) = Monday(d) => e <= f
        BY <1>2, WeekHasNewest
      <3>2. f \in firsts /\ WeekKey(f) = WeekKey(d)
        BY <1>2, <1>3, <3>1, WeeksSort
      <3>. QED
        BY <3>2
    <2>. QED
      BY <2>1
  <1>5. \A d \in rest : WeekKey(d) \in Newest(archive.weekly, keys) <=> Monday(d) \in Newest(archive.weekly, mondays)
    <2>. TAKE d \in rest
    <2>1. WeekKey(d) \in keys /\ Monday(d) \in mondays
      BY <1>4
    <2>2. Cardinality({x \in keys : x > WeekKey(d)}) = Cardinality({x \in mondays : x > Monday(d)})
      BY <1>2, <1>4, WeeksRank
    <2>. HIDE DEF keys, mondays
    <2>. QED
      BY <2>1, <2>2 DEF Newest
  <1>6. daily \subseteq kept /\ \A d \in rest : d \notin daily
    BY <1>1 DEF rest
  <1>7. \A d \in rest : d \in kept <=>
          Monday(d) \in Newest(archive.weekly, mondays) /\ \A e \in rest : Monday(e) = Monday(d) => e <= d
    BY <1>1, <1>3, <1>5, <1>6
  <1>. QED
    BY <1>6, <1>7 DEF RetentionKeeps, Monday, daily, rest

\* Backups: unless two restores overlapped or one died, the home directory is whole
\* between restores, whatever failed; and what thinning the nightly archives keeps is
\* the newest days and the newest of the newest weeks, over the end of a year too.
THEOREM BackupsAreSafe == BackupSpec => []BackupsSafe
  <1>1. BackupInv => BackupsSafe
    BY NightsKept DEF BackupInv, RestoreInv, BackupsSafe, HomeIsWhole, Whole
  <1>. QED
    BY <1>1, BackupInitInv, BackupNextInv, PTL DEF BackupSpec

-----------------------------------------------------------------------------
(* Routing                                                                  *)

\* What a provider's adapter may return: an own charge covers the cost.
Outcomes ==
    {o \in [ok : BOOLEAN, status : Nat, cost : Nat, charge : Int] : o.charge >= 0 => o.charge >= o.cost}

Adapters == setup.rows \cup ToSet(Registered)

RoutingCalls ==
    [at : {"idle", "direct", "providers", "select", "try", "emit",
           "refused", "thrown", "none_available", "done", "unregistered", "unmetered"},
     byok : BOOLEAN, direct : BOOLEAN, read : SUBSET setup.rows, chain : Seq(Adapters),
     failed : SUBSET Adapters, answer : Outcomes, by : Adapters \cup {"none"}]

Metered == [provider : Adapters, cost : Nat, charge : Nat, tier : {"byok", "wopr", "branded"}]

RoutingTypes ==
    /\ setup \in Setups
    /\ listed \subseteq setup.rows /\ cached \subseteq setup.rows
    /\ run \in [Executions -> RoutingCalls] /\ events \in [Executions -> Seq(Metered)]

\* While a request fails over, a provider it read has failed or is still to be tried.
NobodyForgotten ==
    \A x \in Executions :
        run[x].at = "try" => \A a \in run[x].read : Known(a) => a \in run[x].failed \cup ToSet(run[x].chain)

\* A request that names its adapter holds it.
AdapterNamed == \A x \in Executions : run[x].at = "direct" => run[x].chain # <<>>

RoutingInv ==
    RoutingTypes /\ AnsweredIsMetered /\ NoneLeftMeansAllTried /\ NobodyForgotten /\ AdapterNamed

\* The parts of the invariant that speak of one request.
RequestRight(r, emitted) ==
    /\ IF r.at = "done"
         THEN /\ Len(emitted) = 1 /\ emitted[1].provider = r.by
              /\ emitted[1].cost = (IF r.byok THEN 0 ELSE r.answer.cost)
              /\ IF r.byok THEN emitted[1].charge = 0 ELSE emitted[1].charge >= emitted[1].cost
         ELSE emitted = <<>>
    /\ r.at = "none_available" => \A a \in r.read : Known(a) => a \in r.failed
    /\ r.at = "try" => \A a \in r.read : Known(a) => a \in r.failed \cup ToSet(r.chain)
    /\ r.at = "direct" => r.chain # <<>>

\* The invariant, request by request.
LEMMA RoutingInvSplit ==
    RoutingInv <=> RoutingTypes /\ \A x \in Executions : RequestRight(run[x], events[x])
  BY DEF RoutingInv, AnsweredIsMetered, NoneLeftMeansAllTried, NobodyForgotten, AdapterNamed, RequestRight

\* What is configured does not change while requests run.
LEMMA SetupStays ==
    ASSUME setup' = setup
    PROVE  /\ Adapters' = Adapters /\ Registered' = Registered
           /\ RoutingCalls' = RoutingCalls /\ Metered' = Metered
           /\ \A a : Known(a)' = Known(a)
  <1>1. Registered' = Registered
    BY DEF Registered
  <1>2. Adapters' = Adapters
    BY <1>1 DEF Adapters
  <1>3. \A a : Known(a)' = Known(a)
    BY <1>1 DEF Known, RouterKnows
  <1>. QED
    BY <1>1, <1>2, <1>3 DEF RoutingCalls, Metered

\* A step that changes one request and its events keeps the invariant if the
\* request is right after it.
LEMMA OneRequest ==
    ASSUME RoutingInv, NEW x \in Executions, NEW r \in RoutingCalls, NEW e \in Seq(Metered),
           run' = [run EXCEPT ![x] = r], events' = [events EXCEPT ![x] = e],
           UNCHANGED setup, listed' \subseteq setup.rows, cached' \subseteq setup.rows, RequestRight(r, e)
    PROVE  RoutingInv'
  <1>1. RoutingTypes'
    BY SetupStays DEF RoutingInv, RoutingTypes
  <1>2. ASSUME NEW y \in Executions PROVE RequestRight(run[y], events[y])'
    <2>1. RequestRight(run'[y], events'[y])
      BY RoutingInvSplit DEF RoutingInv, RoutingTypes
    <2>. QED
      BY <2>1, SetupStays DEF RequestRight
  <1>. QED
    BY <1>1, <1>2 DEF RoutingInv, AnsweredIsMetered, NoneLeftMeansAllTried, NobodyForgotten, AdapterNamed, RequestRight

\* The margins of the adapters charge at least the cost.
LEMMA MarginCovers ==
    ASSUME NEW cost \in Nat, NEW margin \in {120, 130, 150}
    PROVE  withMargin(cost, margin) \in Nat /\ withMargin(cost, margin) >= cost
  <1>1. withMargin(cost, margin) = (cost * margin * 2 + 100) \div 200
    BY DEF withMargin, multiply
  <1>2. CASE margin = 120
    BY <1>1, <1>2
  <1>3. CASE margin = 130
    BY <1>1, <1>3
  <1>4. CASE margin = 150
    BY <1>1, <1>4
  <1>. QED
    BY <1>2, <1>3, <1>4

\* What a reply costs at a provider is an amount.
LEMMA UnitsCost ==
    ASSUME NEW a \in Providers, NEW n \in Nat
    PROVE  n * Rate[a] \in Nat
  <1>. DEFINE rate == Rate[a]
  <1>1. rate \in Nat
    BY RoutingAssumption
  <1>. HIDE DEF rate
  <1>2. n * rate \in Nat
    BY <1>1
  <1>. QED
    BY <1>2 DEF rate

\* An answer charged with a margin, and an error, are outcomes.
LEMMA OutcomesAre ==
    /\ \A status \in Nat : Error(status) \in Outcomes
    /\ \A cost \in Nat, margin \in {120, 130, 150} : Answer(cost, withMargin(cost, margin)) \in Outcomes
    /\ \A cost \in Nat : Answer(cost, -1) \in Outcomes
  BY MarginCovers DEF Error, Answer, Outcomes

LEMMA GeneratedOutcome ==
    ASSUME NEW reply \in Replies, NEW cost \in Nat, NEW margin \in {120, 130, 150}
    PROVE  Generated(reply, cost, margin) \in Outcomes /\ Unmapped(reply, cost, margin) \in Outcomes
  BY OutcomesAre DEF Generated, Unmapped, Plain

\* Every adapter answers at a charge that covers its cost, or leaves the charge to
\* the socket, or fails.
LEMMA MethodOutcome ==
    ASSUME NEW a, NEW capability, NEW reply \in Replies
    PROVE  Method(a, capability, reply) \in Outcomes
  <1>1. reply.units \in Nat /\ reply.hits \in Nat /\ reply.hits <= reply.units /\ reply.code \in Nat
    BY RoutingAssumption DEF Replies
  <1>2. \A p \in Providers : reply.units * Rate[p] \in Nat
    BY <1>1, UnitsCost
  <1>3. Plain \in Outcomes
    BY OutcomesAre DEF Plain
  <1>4. deepseek(reply) \in Outcomes
    <2>1. (reply.units - reply.hits) * 10 + reply.hits \in Nat
      BY <1>1
    <2>2. "deepseek" \in Providers
      BY DEF Providers
    <2>3. ((reply.units - reply.hits) * 10 + reply.hits) * Rate["deepseek"] \in Nat
      BY <2>1, <2>2, UnitsCost
    <2>. QED
      BY <2>3, GeneratedOutcome DEF deepseek
  <1>5. /\ gemini(reply) \in Outcomes /\ kimi(reply) \in Outcomes /\ minimax(reply) \in Outcomes
        /\ openrouterText(reply) \in Outcomes /\ openrouterEmbed(reply) \in Outcomes
    <2>1. {"gemini", "kimi", "minimax", "openrouter"} \subseteq Providers
      BY DEF Providers
    <2>. QED
      BY <1>2, <1>3, <2>1, GeneratedOutcome DEF gemini, kimi, minimax, openrouterText, openrouterEmbed
  <1>6. /\ nanoBanana(reply) \in Outcomes /\ elevenlabs(reply) \in Outcomes /\ chatterbox(reply) \in Outcomes
        /\ deepgram(reply) \in Outcomes /\ ollama(reply) \in Outcomes
    <2>1. {"nano-banana", "elevenlabs", "chatterbox-tts", "deepgram", "ollama-embeddings"} \subseteq Providers
      BY DEF Providers
    <2>. QED
      BY <1>2, <1>3, <2>1, GeneratedOutcome DEF nanoBanana, elevenlabs, chatterbox, deepgram, ollama
  <1>7. /\ replicateTranscribe(reply) \in Outcomes /\ replicateImage(reply) \in Outcomes
        /\ replicateText(reply) \in Outcomes
    <2>1. waitForPrediction(reply) \in Replies
      BY DEF waitForPrediction, Replies
    <2>2. "replicate" \in Providers
      BY DEF Providers
    <2>. QED
      BY <1>2, <2>1, <2>2, GeneratedOutcome DEF replicateTranscribe, replicateImage, replicateText
  <1>8. custom(reply) \in Outcomes
    BY <1>1, OutcomesAre DEF custom
  <1>. QED
    BY <1>4, <1>5, <1>6, <1>7, <1>8 DEF Method

\* What the socket charges covers the cost, whether the adapter computed it or not.
LEMMA ChargeCovers ==
    ASSUME NEW o \in Outcomes
    PROVE  chargeOf(o) \in Nat /\ chargeOf(o) >= o.cost
  BY MarginCovers DEF chargeOf, Outcomes

\* A sort keeps what it sorts.
LEMMA SortedKeeps ==
    ASSUME NEW S, IsFiniteSet(S), NEW c \in Sorted(S)
    PROVE  c \in Seq(S) /\ ToSet(c) = S
  <1>. DEFINE n == Cardinality(S)
  <1>1. n \in Nat
    BY FS_CardinalityType
  <1>2. c \in [1..n -> S] /\ \A i, j \in 1..n : i # j => c[i] # c[j]
    BY DEF Sorted, SetToSeqs
  <1>3. c \in Injection(1..n, S)
    BY <1>2 DEF Injection, IsInjective
  <1>4. Cardinality(1..n) = n
    BY <1>1, FS_Interval
  <1>5. c \in Surjection(1..n, S)
    BY <1>3, <1>4, FS_Injection
  <1>. HIDE DEF n
  <1>6. c \in Seq(S)
    BY <1>1, <1>2
  <1>. QED
    BY <1>2, <1>5, <1>6 DEF ToSet, Surjection

\* The failover chain is made of all the candidates.
LEMMA ChainIsWhole ==
    ASSUME NEW S, IsFiniteSet(S), NEW first \in S, NEW chain \in buildFailoverChain(first, S)
    PROVE  chain \in Seq(S) /\ ToSet(chain) = S
  <1>. DEFINE Gpu == Tier(S \ {first}, "gpu")
              Hosted == Tier(S \ {first}, "hosted")
  <1>1. PICK gpu \in Sorted(Gpu), hosted \in Sorted(Hosted) : chain = <<first>> \o gpu \o hosted
    <2>1. PICK o \in Sorted(Gpu) \X Sorted(Hosted) : chain = <<first>> \o o[1] \o o[2]
      BY DEF buildFailoverChain
    <2>. QED
      BY <2>1
  <1>2. Gpu \cup Hosted = S \ {first}
    BY DEF Tier, tier
  <1>3. IsFiniteSet(Gpu) /\ IsFiniteSet(Hosted)
    BY <1>2, FS_Subset
  <1>4. gpu \in Seq(Gpu) /\ ToSet(gpu) = Gpu /\ hosted \in Seq(Hosted) /\ ToSet(hosted) = Hosted
    BY <1>1, <1>3, SortedKeeps
  <1>. HIDE DEF Gpu, Hosted
  <1>5. gpu \in Seq(S) /\ hosted \in Seq(S) /\ <<first>> \in Seq(S)
    BY <1>2, <1>4
  <1>6. \A s, t \in Seq(S) : s \o t \in Seq(S) /\ ToSet(s \o t) = ToSet(s) \cup ToSet(t)
    <2>. TAKE s, t \in Seq(S)
    <2>1. /\ s \o t \in Seq(S) /\ DOMAIN (s \o t) = 1..Len(s) + Len(t)
          /\ DOMAIN s = 1..Len(s) /\ DOMAIN t = 1..Len(t) /\ Len(s) \in Nat /\ Len(t) \in Nat
      OBVIOUS
    <2>2. \A i \in 1..Len(s) : (s \o t)[i] = s[i]
      OBVIOUS
    <2>3. \A i \in 1..Len(t) : (s \o t)[i + Len(s)] = t[i]
      OBVIOUS
    <2>4. \A i \in 1..Len(s) + Len(t) : i \in 1..Len(s) \/ (i - Len(s) \in 1..Len(t) /\ i = (i - Len(s)) + Len(s))
      BY <2>1
    <2>5. ToSet(s \o t) \subseteq ToSet(s) \cup ToSet(t)
      BY <2>1, <2>2, <2>3, <2>4 DEF ToSet
    <2>6. ToSet(s) \cup ToSet(t) \subseteq ToSet(s \o t)
      <3>1. \A i \in 1..Len(t) : i + Len(s) \in 1..Len(s) + Len(t)
        BY <2>1
      <3>2. \A i \in 1..Len(s) : i \in 1..Len(s) + Len(t)
        BY <2>1
      <3>. QED
        BY <2>1, <2>2, <2>3, <3>1, <3>2 DEF ToSet
    <2>. QED
      BY <2>1, <2>5, <2>6
  <1>7. ToSet(<<first>>) = {first}
    BY DEF ToSet
  <1>8. <<first>> \o gpu \in Seq(S) /\ ToSet(<<first>> \o gpu) = {first} \cup Gpu
    BY <1>4, <1>5, <1>6, <1>7
  <1>9. chain \in Seq(S) /\ ToSet(chain) = {first} \cup Gpu \cup Hosted
    BY <1>1, <1>4, <1>5, <1>6, <1>8
  <1>. QED
    BY <1>2, <1>9

-----------------------------------------------------------------------------
LEMMA RoutingInitInv == RoutingInit => RoutingInv
  <1>. SUFFICES ASSUME RoutingInit PROVE RoutingInv
    OBVIOUS
  <1>1. Waiting \in RoutingCalls
    BY OutcomesAre DEF Waiting, RoutingCalls, Plain
  <1>2. RoutingTypes
    BY <1>1 DEF RoutingInit, RoutingTypes
  <1>3. \A x \in Executions : run[x].at = "idle" /\ events[x] = <<>>
    BY DEF RoutingInit, Waiting
  <1>. QED
    BY <1>2, <1>3, RoutingInvSplit DEF RequestRight

\* A request that goes from one step to the next without an event, and is neither
\* answered, nor out of providers, nor among them.
LEMMA PlainMove ==
    ASSUME RoutingInv, NEW x \in Executions, NEW r \in RoutingCalls,
           run[x].at # "done", r.at \notin {"done", "none_available", "try"},
           r.at = "direct" => r.chain # <<>>,
           run' = [run EXCEPT ![x] = r], UNCHANGED <<setup, events>>,
           listed' \subseteq setup.rows, cached' \subseteq setup.rows
    PROVE  RoutingInv'
  <1>1. events[x] = <<>> /\ events[x] \in Seq(Metered)
    BY RoutingInvSplit DEF RoutingInv, RoutingTypes, RequestRight
  <1>2. events' = [events EXCEPT ![x] = events[x]]
    BY DEF RoutingInv, RoutingTypes
  <1>3. RequestRight(r, events[x])
    BY <1>1 DEF RequestRight
  <1>. QED
    BY <1>1, <1>2, <1>3, OneRequest

\* A step that leaves the requests and their events alone.
LEMMA NoMove ==
    ASSUME RoutingInv, UNCHANGED <<setup, run, events>>,
           listed' \subseteq setup.rows, cached' \subseteq setup.rows
    PROVE  RoutingInv'
  <1>1. RoutingTypes'
    BY SetupStays DEF RoutingInv, RoutingTypes
  <1>. QED
    BY <1>1, SetupStays DEF RoutingInv, AnsweredIsMetered, NoneLeftMeansAllTried, NobodyForgotten, AdapterNamed

LEMMA Ends ==
    ASSUME RoutingInv, NEW x \in Executions, run[x].at # "done",
           NEW result \in {"refused", "thrown", "unregistered", "unmetered"},
           Over(x, result), UNCHANGED <<setup, listed, cached, events>>
    PROVE  RoutingInv'
  <1>. DEFINE r == [run[x] EXCEPT !.at = result]
  <1>1. r \in RoutingCalls /\ r.at = result
    BY DEF RoutingInv, RoutingTypes, RoutingCalls
  <1>2. run' = [run EXCEPT ![x] = r]
    BY DEF Over
  <1>3. listed \subseteq setup.rows /\ cached \subseteq setup.rows
    BY DEF RoutingInv, RoutingTypes
  <1>. HIDE DEF r
  <1>. QED
    BY <1>1, <1>2, <1>3, PlainMove

LEMMA RoutingExecuteInv ==
    ASSUME RoutingInv, NEW x \in Executions, execute(x)
    PROVE  RoutingInv'
  <1>1. UNCHANGED <<setup, listed, cached, events>> /\ run[x].at = "idle"
    BY DEF execute, registry
  <1>2. listed \subseteq setup.rows /\ cached \subseteq setup.rows
    BY DEF RoutingInv, RoutingTypes
  <1>3. Waiting \in RoutingCalls
    BY OutcomesAre DEF Waiting, RoutingCalls, Plain
  <1>4. PICK byok \in BOOLEAN :
          \/ \E a \in ToSet(Registered) :
                run' = [run EXCEPT ![x] = [Waiting EXCEPT !.at = "direct", !.byok = byok, !.direct = TRUE, !.chain = <<a>>]]
          \/ run' = [run EXCEPT ![x] = [Waiting EXCEPT !.at = "providers", !.byok = byok]]
          \/ Over(x, "refused")
    BY DEF execute
  <1>5. ASSUME NEW a \in ToSet(Registered),
               run' = [run EXCEPT ![x] = [Waiting EXCEPT !.at = "direct", !.byok = byok, !.direct = TRUE, !.chain = <<a>>]]
        PROVE  RoutingInv'
    <2>. DEFINE r == [Waiting EXCEPT !.at = "direct", !.byok = byok, !.direct = TRUE, !.chain = <<a>>]
    <2>1. <<a>> \in Seq(Adapters)
      BY DEF Adapters
    <2>2. r \in RoutingCalls /\ r.at = "direct" /\ r.chain = <<a>> /\ <<a>> # <<>>
      BY <1>3, <2>1 DEF RoutingCalls, Waiting
    <2>. HIDE DEF r
    <2>3. run' = [run EXCEPT ![x] = r]
      BY <1>5 DEF r
    <2>. QED
      BY <1>1, <1>2, <2>2, <2>3, PlainMove
  <1>6. ASSUME run' = [run EXCEPT ![x] = [Waiting EXCEPT !.at = "providers", !.byok = byok]]
        PROVE  RoutingInv'
    <2>. DEFINE r == [Waiting EXCEPT !.at = "providers", !.byok = byok]
    <2>1. r \in RoutingCalls /\ r.at = "providers"
      BY <1>3 DEF RoutingCalls, Waiting
    <2>. HIDE DEF r
    <2>2. run' = [run EXCEPT ![x] = r]
      BY <1>6 DEF r
    <2>. QED
      BY <1>1, <1>2, <2>1, <2>2, PlainMove
  <1>7. ASSUME Over(x, "refused") PROVE RoutingInv'
    BY <1>1, <1>7, Ends
  <1>. QED
    BY <1>4, <1>5, <1>6, <1>7

\* An adapter's answer is kept for the meter.
LEMMA AnswerKept ==
    ASSUME RoutingInv, NEW x \in Executions, run[x].at # "done",
           NEW o \in Outcomes, NEW a \in Adapters,
           run' = [run EXCEPT ![x].at = "emit", ![x].answer = o, ![x].by = a],
           UNCHANGED <<setup, listed, cached, events>>
    PROVE  RoutingInv'
  <1>. DEFINE r == [run[x] EXCEPT !.at = "emit", !.answer = o, !.by = a]
  <1>1. r \in RoutingCalls /\ r.at = "emit"
    BY DEF RoutingInv, RoutingTypes, RoutingCalls
  <1>2. run' = [run EXCEPT ![x] = r]
    BY DEF RoutingInv, RoutingTypes
  <1>3. listed \subseteq setup.rows /\ cached \subseteq setup.rows
    BY DEF RoutingInv, RoutingTypes
  <1>. HIDE DEF r
  <1>4. QED
    BY <1>1, <1>2, <1>3, PlainMove

LEMMA RoutingDirectInv ==
    ASSUME RoutingInv, NEW x \in Executions, executeWithAdapter(x)
    PROVE  RoutingInv'
  <1>. DEFINE a == run[x].chain[1]
  <1>1. UNCHANGED <<setup, listed, cached, events>> /\ run[x].at = "direct"
    BY DEF executeWithAdapter, registry
  <1>2. \/ Over(x, "thrown")
        \/ \E reply \in Replies :
              /\ Method(a, setup.capability, reply).ok
              /\ run' = [run EXCEPT ![x].at = "emit", ![x].answer = Method(a, setup.capability, reply), ![x].by = a]
    BY DEF executeWithAdapter
  <1>3. ASSUME NEW reply \in Replies,
               run' = [run EXCEPT ![x].at = "emit", ![x].answer = Method(a, setup.capability, reply), ![x].by = a]
        PROVE  RoutingInv'
    <2>1. Method(a, setup.capability, reply) \in Outcomes
      BY MethodOutcome
    <2>2. a \in Adapters
      <3>1. run[x].chain # <<>> /\ run[x].chain \in Seq(Adapters)
        BY <1>1 DEF RoutingInv, RoutingTypes, RoutingCalls, AdapterNamed
      <3>. QED
        BY <3>1
    <2>. HIDE DEF a
    <2>. QED
      BY <1>1, <1>3, <2>1, <2>2, AnswerKept
  <1>. QED
    BY <1>1, <1>2, <1>3, Ends

\* One event is emitted, at the answer's cost and for no less.
LEMMA RoutingEmitInv ==
    ASSUME RoutingInv, NEW x \in Executions, emit(x)
    PROVE  RoutingInv'
  <1>. DEFINE free == run[x].byok
              o == run[x].answer
              event == [provider |-> run[x].by, cost |-> IF free THEN 0 ELSE o.cost,
                        charge |-> IF free THEN 0 ELSE chargeOf(o),
                        tier |-> CASE free -> "byok" [] ~free /\ selfHosted(run[x].by) -> "wopr" [] OTHER -> "branded"]
              r == [run[x] EXCEPT !.at = "done"]
  <1>1. UNCHANGED <<setup, listed, cached>> /\ run[x].at = "emit"
    BY DEF emit, registry
  <1>2. /\ run \in [Executions -> RoutingCalls] /\ events \in [Executions -> Seq(Metered)]
        /\ listed \subseteq setup.rows /\ cached \subseteq setup.rows
    BY DEF RoutingInv, RoutingTypes
  <1>3. run[x] \in RoutingCalls
    BY <1>2
  <1>4. free \in BOOLEAN /\ o \in Outcomes /\ o.cost \in Nat
    BY <1>3 DEF RoutingCalls, Outcomes
  <1>5. chargeOf(o) \in Nat /\ chargeOf(o) >= o.cost
    BY <1>4, ChargeCovers
  <1>6. events[x] = <<>>
    BY <1>1, RoutingInvSplit DEF RequestRight
  <1>7. CASE /\ run[x].by \in ToSet(Registered)
             /\ events' = [events EXCEPT ![x] = Append(@, event)] /\ Over(x, "done")
    <2>1. run[x].by \in Adapters
      BY <1>7 DEF Adapters
    <2>2. event \in Metered
      BY <1>4, <1>5, <2>1 DEF Metered
    <2>3. r \in RoutingCalls /\ run' = [run EXCEPT ![x] = r]
      BY <1>2, <1>3, <1>7 DEF Over, RoutingCalls
    <2>4. r.at = "done" /\ r.by = run[x].by /\ r.byok = free /\ r.answer = o
      BY <1>3 DEF RoutingCalls
    <2>5. /\ event.provider = run[x].by /\ event.cost = (IF free THEN 0 ELSE o.cost)
          /\ event.charge = IF free THEN 0 ELSE chargeOf(o)
      OBVIOUS
    <2>. HIDE DEF event, r
    <2>6. events' = [events EXCEPT ![x] = <<event>>] /\ <<event>> \in Seq(Metered)
      BY <1>2, <1>6, <1>7, <2>2
    <2>7. Len(<<event>>) = 1 /\ <<event>>[1] = event
      OBVIOUS
    <2>8. RequestRight(r, <<event>>)
      BY <1>4, <1>5, <2>4, <2>5, <2>7 DEF RequestRight
    <2>. QED
      BY <1>1, <1>2, <2>3, <2>6, <2>8, OneRequest
  <1>8. CASE (Over(x, "unregistered") \/ Over(x, "unmetered")) /\ UNCHANGED events
    BY <1>1, <1>8, Ends
  <1>. QED
    BY <1>7, <1>8 DEF emit

LEMMA RoutingProvidersInv ==
    ASSUME RoutingInv, NEW x \in Executions, refresh(x) \/ getProviders(x)
    PROVE  RoutingInv'
  <1>1. listed \subseteq setup.rows /\ cached \subseteq setup.rows /\ run \in [Executions -> RoutingCalls]
    BY DEF RoutingInv, RoutingTypes
  <1>2. CASE refresh(x)
    BY <1>1, <1>2, NoMove DEF refresh
  <1>3. CASE getProviders(x)
    <2>. DEFINE r == [run[x] EXCEPT !.at = "select", !.read = {a \in cached : health[a] # "unhealthy"}]
    <2>1. r \in RoutingCalls /\ r.at = "select"
      BY <1>1 DEF RoutingCalls
    <2>2. run' = [run EXCEPT ![x] = r]
      BY <1>1, <1>3 DEF getProviders
    <2>3. UNCHANGED <<setup, events, listed, cached>> /\ run[x].at = "providers"
      BY <1>3 DEF getProviders
    <2>. HIDE DEF r
    <2>. QED
      BY <1>1, <2>1, <2>2, <2>3, PlainMove
  <1>. QED
    BY <1>2, <1>3

LEMMA RoutingSelectInv ==
    ASSUME RoutingInv, NEW x \in Executions, selectProvider(x)
    PROVE  RoutingInv'
  <1>1. UNCHANGED <<setup, listed, cached, events>> /\ run[x].at = "select"
    BY DEF selectProvider, registry
  <1>2. /\ run \in [Executions -> RoutingCalls] /\ events \in [Executions -> Seq(Metered)]
        /\ listed \subseteq setup.rows /\ cached \subseteq setup.rows /\ setup \in Setups
    BY DEF RoutingInv, RoutingTypes
  <1>3. run[x] \in RoutingCalls /\ run[x].read \subseteq setup.rows
    BY <1>2 DEF RoutingCalls
  <1>4. events[x] = <<>> /\ events' = [events EXCEPT ![x] = events[x]]
    BY <1>1, <1>2, RoutingInvSplit DEF RequestRight
  <1>5. CASE run[x].read = {} /\ Over(x, "none_available")
    <2>. DEFINE r == [run[x] EXCEPT !.at = "none_available"]
    <2>1. r \in RoutingCalls /\ r.at = "none_available" /\ r.read = {}
      BY <1>3, <1>5 DEF RoutingCalls
    <2>2. run' = [run EXCEPT ![x] = r]
      BY <1>5 DEF Over
    <2>. HIDE DEF r
    <2>3. RequestRight(r, events[x])
      BY <1>4, <2>1 DEF RequestRight
    <2>. QED
      BY <1>1, <1>2, <1>4, <2>1, <2>2, <2>3, OneRequest
  <1>6. ASSUME NEW first \in preferred(run[x].read), NEW chain \in buildFailoverChain(first, run[x].read),
               run' = [run EXCEPT ![x].at = "try", ![x].chain = chain]
        PROVE  RoutingInv'
    <2>. DEFINE r == [run[x] EXCEPT !.at = "try", !.chain = chain]
    <2>1. first \in run[x].read
      BY DEF preferred, Tier
    <2>2. IsFiniteSet(run[x].read)
      BY <1>2, <1>3, FS_Subset, RoutingAssumption
    <2>3. chain \in Seq(run[x].read) /\ ToSet(chain) = run[x].read
      BY <2>1, <2>2, ChainIsWhole
    <2>4. chain \in Seq(Adapters)
      BY <1>3, <2>3 DEF Adapters
    <2>5. r \in RoutingCalls /\ r.at = "try" /\ r.read = run[x].read /\ r.chain = chain
      BY <1>3, <2>4 DEF RoutingCalls
    <2>6. run' = [run EXCEPT ![x] = r]
      BY <1>2, <1>6
    <2>. HIDE DEF r
    <2>7. RequestRight(r, events[x])
      BY <1>4, <2>3, <2>5 DEF RequestRight
    <2>. QED
      BY <1>1, <1>2, <1>4, <2>5, <2>6, <2>7, OneRequest
  <1>. QED
    BY <1>5, <1>6 DEF selectProvider

\* The first of a chain and the rest are all of it.
LEMMA HeadAndRest ==
    ASSUME NEW S, NEW c \in Seq(S), c # <<>>
    PROVE  Head(c) \in S /\ Tail(c) \in Seq(S) /\ ToSet(c) \subseteq {Head(c)} \cup ToSet(Tail(c))
  <1>1. /\ Head(c) = c[1] /\ Tail(c) \in Seq(S) /\ Len(c) \in Nat \ {0} /\ DOMAIN c = 1..Len(c)
        /\ Len(Tail(c)) = Len(c) - 1 /\ DOMAIN Tail(c) = 1..Len(Tail(c)) /\ c[1] \in S
    OBVIOUS
  <1>2. \A i \in 1..Len(c) - 1 : Tail(c)[i] = c[i + 1]
    OBVIOUS
  <1>3. \A i \in 1..Len(c) : i = 1 \/ (i - 1 \in 1..Len(c) - 1 /\ i = (i - 1) + 1)
    BY <1>1
  <1>4. ASSUME NEW e \in ToSet(c) PROVE e \in {Head(c)} \cup ToSet(Tail(c))
    <2>1. PICK i \in 1..Len(c) : e = c[i]
      BY <1>1 DEF ToSet
    <2>2. CASE i = 1
      BY <1>1, <2>1, <2>2
    <2>3. CASE i # 1
      <3>1. i - 1 \in DOMAIN Tail(c) /\ Tail(c)[i - 1] = e
        BY <1>1, <1>2, <1>3, <2>1, <2>3
      <3>. QED
        BY <3>1 DEF ToSet
    <2>. QED
      BY <2>2, <2>3
  <1>. QED
    BY <1>1, <1>4

\* Whoever is taken off the chain has failed, or the router has no adapter for it.
LEMMA RoutingRouteInv ==
    ASSUME RoutingInv, NEW x \in Executions, route(x)
    PROVE  RoutingInv'
  <1>. DEFINE a == Head(run[x].chain)
  <1>1. UNCHANGED <<setup, listed, cached, events>> /\ run[x].at = "try"
    BY Zenon DEF route
  <1>2. /\ run \in [Executions -> RoutingCalls] /\ events \in [Executions -> Seq(Metered)]
        /\ listed \subseteq setup.rows /\ cached \subseteq setup.rows
    BY DEF RoutingInv, RoutingTypes
  <1>3. /\ run[x] \in RoutingCalls /\ run[x].chain \in Seq(Adapters)
        /\ run[x].failed \subseteq Adapters
    BY <1>2 DEF RoutingCalls
  <1>4. events[x] = <<>> /\ events' = [events EXCEPT ![x] = events[x]]
    BY <1>1, <1>2, RoutingInvSplit DEF RequestRight
  <1>5. \A b \in run[x].read : Known(b) => b \in run[x].failed \cup ToSet(run[x].chain)
    BY <1>1 DEF RoutingInv, NobodyForgotten
  <1>6. CASE run[x].chain = <<>> /\ Over(x, "none_available")
    <2>. DEFINE r == [run[x] EXCEPT !.at = "none_available"]
    <2>1. r \in RoutingCalls /\ r.at = "none_available" /\ r.read = run[x].read /\ r.failed = run[x].failed
      BY <1>3 DEF RoutingCalls
    <2>2. run' = [run EXCEPT ![x] = r]
      BY <1>6 DEF Over
    <2>3. ToSet(run[x].chain) = {}
      BY <1>6 DEF ToSet
    <2>. HIDE DEF r
    <2>4. RequestRight(r, events[x])
      BY <1>4, <1>5, <2>1, <2>3 DEF RequestRight
    <2>. QED
      BY <1>1, <1>2, <1>4, <2>1, <2>2, <2>4, OneRequest
  <1>7. ASSUME run[x].chain # <<>>, NEW failed \in SUBSET Adapters, run[x].failed \subseteq failed,
               Known(a) => a \in failed,
               run' = [run EXCEPT ![x] = [run[x] EXCEPT !.chain = Tail(run[x].chain), !.failed = failed]]
        PROVE  RoutingInv'
    <2>. DEFINE r == [run[x] EXCEPT !.chain = Tail(run[x].chain), !.failed = failed]
    <2>1. /\ Tail(run[x].chain) \in Seq(Adapters)
          /\ ToSet(run[x].chain) \subseteq {a} \cup ToSet(Tail(run[x].chain))
      BY <1>3, <1>7, HeadAndRest
    <2>2. /\ r \in RoutingCalls /\ r.at = "try" /\ r.read = run[x].read /\ r.failed = failed
          /\ r.chain = Tail(run[x].chain)
      BY <1>1, <1>3, <2>1 DEF RoutingCalls
    <2>3. run' = [run EXCEPT ![x] = r]
      BY <1>7
    <2>. HIDE DEF r, a
    <2>4. \A b \in run[x].read : Known(b) => b \in failed \cup ToSet(Tail(run[x].chain))
      BY <1>5, <1>7, <2>1
    <2>5. RequestRight(r, events[x])
      BY <1>4, <2>2, <2>4 DEF RequestRight
    <2>. QED
      BY <1>1, <1>2, <1>4, <2>2, <2>3, <2>5, OneRequest
  <1>8. CASE /\ run[x].chain # <<>> /\ ~Known(a) /\ run' = [run EXCEPT ![x].chain = Tail(@)]
    <2>1. run' = [run EXCEPT ![x] = [run[x] EXCEPT !.chain = Tail(run[x].chain), !.failed = run[x].failed]]
      BY <1>2, <1>3, <1>8 DEF RoutingCalls
    <2>. QED
      BY <1>3, <1>7, <1>8, <2>1
  <1>9. ASSUME run[x].chain # <<>>, NEW reply \in Replies,
               run' = [run EXCEPT ![x].at = "emit", ![x].answer = Method(a, setup.capability, reply), ![x].by = a]
        PROVE  RoutingInv'
    <2>1. Method(a, setup.capability, reply) \in Outcomes
      BY MethodOutcome
    <2>2. a \in Adapters
      BY <1>3, <1>9, HeadAndRest
    <2>. HIDE DEF a
    <2>. QED
      BY <1>1, <1>9, <2>1, <2>2, AnswerKept
  <1>10. CASE run[x].chain # <<>> /\ run' = [run EXCEPT ![x].chain = Tail(@), ![x].failed = @ \cup {a}]
    <2>1. run[x].failed \cup {a} \in SUBSET Adapters
      BY <1>3, <1>10, HeadAndRest
    <2>2. run' = [run EXCEPT ![x] = [run[x] EXCEPT !.chain = Tail(run[x].chain), !.failed = run[x].failed \cup {a}]]
      BY <1>2, <1>3, <1>10 DEF RoutingCalls
    <2>. QED
      BY <1>7, <1>10, <2>1, <2>2
  <1>11. CASE Over(x, "thrown")
    BY <1>1, <1>11, Ends
  <1>. QED
    BY <1>6, <1>8, <1>9, <1>10, <1>11, Zenon DEF route

LEMMA RoutingStepInv ==
    ASSUME RoutingInv, RoutingNext
    PROVE  RoutingInv'
  <1>1. listed \subseteq setup.rows /\ cached \subseteq setup.rows
    BY DEF RoutingInv, RoutingTypes
  <1>2. ASSUME NEW x \in Executions,
               execute(x) \/ executeWithAdapter(x) \/ emit(x) \/ refresh(x) \/ getProviders(x)
                 \/ selectProvider(x) \/ route(x)
        PROVE  RoutingInv'
    BY <1>2, RoutingExecuteInv, RoutingDirectInv, RoutingEmitInv, RoutingProvidersInv, RoutingSelectInv, RoutingRouteInv
  <1>3. CASE (\E mark \in marks : Settle(mark)) \/ Expire \/ purgeExpired
    BY <1>1, <1>3, NoMove DEF Settle, Expire, purgeExpired
  <1>4. ASSUME NEW a \in setup.rows, Toggle(a) PROVE RoutingInv'
    BY <1>1, <1>4, NoMove DEF Toggle
  <1>. QED
    BY <1>2, <1>3, <1>4 DEF RoutingNext

LEMMA RoutingNextInv == RoutingInv /\ [RoutingNext]_routingVars => RoutingInv'
  <1>1. ASSUME RoutingInv, UNCHANGED routingVars PROVE RoutingInv'
    <2>1. UNCHANGED <<setup, run, events, listed, cached>> /\ listed \subseteq setup.rows /\ cached \subseteq setup.rows
      BY <1>1 DEF routingVars, registry, RoutingInv, RoutingTypes
    <2>. QED
      BY <1>1, <2>1, NoMove
  <1>. QED
    BY <1>1, RoutingStepInv

\* Routing: a capability request that returned an answer emitted one event, for the provider
\* that answered, at its cost and charged no less unless the tenant used its own key;
\* and "no provider available" means that every provider read as listed and healthy,
\* with an adapter at the router, was tried and failed with a 5xx, in whatever order equal prices
\* were sorted and whatever the health promises wrote meanwhile.
THEOREM RoutingIsSafe == RoutingSpec => []RoutingSafe
  <1>1. RoutingInv => RoutingSafe
    BY DEF RoutingInv, RoutingSafe
  <1>. QED
    BY <1>1, RoutingInitInv, RoutingNextInv, PTL DEF RoutingSpec

=============================================================================
