------------------------------ MODULE Admission -----------------------------
(***************************************************************************)
(* What a gateway request passes before its handler (src/src/gateway):     *)
(* the service key, the spending caps, the capability limit, the circuit   *)
(* breaker and the budget check, for one tenant with one bot instance.     *)
(* Every database call is a step.  A request that is let through costs one *)
(* unit.  Time is a counter; caches and windows compare it as the code     *)
(* compares Date.now().                                                    *)
(***************************************************************************)
EXTENDS Integers, FiniteSets

CONSTANTS
    Callers,        \* requests in flight together
    Mounts,         \* where createGatewayRoutes is mounted: "/" or "/v1"; "webhooks"
                    \* for its routes without a service key; "api" for the platform's
    MaxTime,        \* bound on the clock
    MaxArrivals,    \* bound on requests
    MaxGateFaults,  \* bound on failing reads of limits
    RateMax,        \* limit of a capability category
    RateWindow,
    BreakerMax,     \* maxRequestsPerWindow
    BreakerWindow,
    Pause,          \* pauseDurationMs
    CacheTtl,       \* the longest time a spend figure is cached
    HardCap,        \* the tenant's global hard cap; the hourly limit of its plan
    MaxPenalty      \* MAX_BACKOFF_MS

ASSUME AdmissionAssumption ==
    /\ {MaxTime, MaxArrivals, MaxGateFaults} \subseteq Nat
    /\ {RateMax, RateWindow, BreakerMax, BreakerWindow, Pause, CacheTtl, HardCap, MaxPenalty}
         \subseteq Nat \ {0}

VARIABLES
    clock,
    mount,
    keyRow,         \* gateway_service_keys of the instance: "live" or "revoked"
    limit,          \* rate_limit_entries of the tenant's category
    breaker,        \* circuit_breaker_states of the instance
    penalty,        \* webhook_sig_penalties of one address
    spent,          \* what meter events and summaries add up to
    capCache,       \* the spend figure of spendingCapCheck and when it was read
    budgetCache,    \* the spend figure of the budget checker
    call,           \* each request: where it waits and its locals
    arrivals, gateFaults,
    passed,         \* ghost: requests the limit let through in its window
    reachedAt,      \* ghost: when spent reached the cap
    heldUntil,      \* ghost: the end of the pause of the last trip
    behind,         \* ghost: requests past their breaker read when it tripped
    cleared         \* ghost: such a request overwrote the trip

rows == <<keyRow, limit, breaker, penalty, spent>>
caches == <<capCache, budgetCache>>
gateGhosts == <<passed, reachedAt, heldUntil, behind, cleared>>
gateBounds == <<arrivals, gateFaults>>
admissionVars == <<clock, mount, rows, caches, call, gateBounds, gateGhosts>>

Never == MaxTime + Pause + MaxPenalty + 1   \* a time that does not come
NoRow == [count |-> 0, start |-> Never]
Closed == [count |-> 0, start |-> Never, tripped |-> Never]
NoFigure == [value |-> 0, at |-> Never]
Free == [at |-> "idle", capped |-> FALSE, now |-> 0, paused |-> FALSE, late |-> FALSE]

AdmissionInit ==
    /\ clock = 0 /\ mount \in Mounts
    /\ keyRow = "live" /\ limit = NoRow /\ breaker = Closed /\ penalty = [failures |-> 0, until |-> 0]
    /\ spent = 0 /\ capCache = NoFigure /\ budgetCache = NoFigure
    /\ call = [c \in Callers |-> Free]
    /\ arrivals = 0 /\ gateFaults = 0
    /\ passed = 0 /\ reachedAt = Never /\ heldUntil = 0 /\ behind = {} /\ cleared = FALSE

At(c, step) == call[c].at = step
To(c, step) == call' = [call EXCEPT ![c].at = step]
Refuse(c) == call' = [call EXCEPT ![c] = Free]
Within(start, window) == start # Never /\ clock - start < window

-----------------------------------------------------------------------------
(* The key and the caps                                                     *)

\* DrizzleServiceKeyRepository.resolve: only a key that is not revoked.
resolve == keyRow = "live"

\* A request arrives; an unknown key is answered 401.
serviceKeyAuth(c) ==
    /\ At(c, "idle") /\ arrivals < MaxArrivals /\ mount \in {"/", "/v1"}
    /\ arrivals' = arrivals + 1
    /\ call' = [call EXCEPT ![c] = IF resolve THEN [Free EXCEPT !.at = "hydrate"] ELSE Free]
    /\ UNCHANGED <<clock, mount, rows, caches, gateFaults, gateGhosts>>

revokeByInstance ==
    /\ keyRow = "live" /\ mount \in {"/", "/v1"}
    /\ keyRow' = "revoked"
    /\ UNCHANGED <<clock, mount, limit, breaker, penalty, spent, caches, call, gateBounds, gateGhosts>>

\* The caps of the tenant; when they cannot be read the request goes on without.
hydrateSpendingCaps(c) ==
    /\ At(c, "hydrate")
    /\ \/ /\ call' = [call EXCEPT ![c].at = "cap", ![c].capped = TRUE]
          /\ UNCHANGED gateFaults
       \/ /\ gateFaults < MaxGateFaults
          /\ gateFaults' = gateFaults + 1
          /\ To(c, "cap")
    /\ UNCHANGED <<clock, mount, rows, caches, arrivals, gateGhosts>>

\* Mutation: a figure that is in the cache is used whatever its age.
AnyAge(cache) == cache.at # Never

\* A cached figure is used until it is CacheTtl old, and reading does not
\* renew it.
Fresh(cache) == cache.at # Never /\ clock - cache.at < CacheTtl

\* The figure a check uses, and what it leaves in its cache.
querySpend(cache) == IF Fresh(cache) THEN cache ELSE [value |-> spent, at |-> clock]

\* A request that passes a spend check now; late: the cap was reached longer
\* ago than any figure is kept.
Admit(c, step) ==
    call' = [call EXCEPT ![c].at = step,
                         ![c].late = (reachedAt # Never /\ clock >= reachedAt + CacheTtl)]

\* Without caps there is no check.
spendingCapCheck(c) ==
    /\ At(c, "cap")
    /\ IF call[c].capped
         THEN LET figure == querySpend(capCache)
              IN  /\ capCache' = figure
                  /\ IF figure.value >= HardCap THEN Refuse(c) ELSE Admit(c, "limit")
         ELSE To(c, "limit") /\ UNCHANGED capCache
    /\ UNCHANGED <<clock, mount, rows, budgetCache, gateBounds, gateGhosts>>

-----------------------------------------------------------------------------
(* The capability limit                                                     *)

\* The path the middleware sees is the whole path of the request: only routes
\* mounted at the root begin with a known prefix.
resolveCapabilityCategory == mount = "/"

\* One upsert: the next count of the window, or the first of a new one.
increment ==
    IF Within(limit.start, RateWindow) THEN [limit EXCEPT !.count = @ + 1]
                                       ELSE [count |-> 1, start |-> clock]

OverLimit(entry) == entry.count > RateMax

\* The rows of a limiter after a request, and where the request goes.
rateLimit(c, next) ==
    LET before == IF Within(limit.start, RateWindow) THEN passed ELSE 0
    IN  /\ limit' = increment
        /\ IF OverLimit(limit') THEN Refuse(c) /\ passed' = before
                                ELSE To(c, next) /\ passed' = before + 1

capabilityRateLimit(c) ==
    /\ At(c, "limit")
    /\ IF resolveCapabilityCategory THEN rateLimit(c, "breaker")
       ELSE To(c, "breaker") /\ UNCHANGED <<limit, passed>>
    /\ UNCHANGED <<clock, mount, keyRow, breaker, penalty, spent, caches, gateBounds,
                   reachedAt, heldUntil, behind, cleared>>

\* The platform's routes: the first rule that matches names the limiter; the
\* route itself is not modelled here.
rateLimitByRoute(c) ==
    /\ At(c, "idle") /\ arrivals < MaxArrivals /\ mount = "api"
    /\ arrivals' = arrivals + 1
    /\ rateLimit(c, "idle")
    /\ UNCHANGED <<clock, mount, keyRow, breaker, penalty, spent, caches, gateFaults,
                   reachedAt, heldUntil, behind, cleared>>

-----------------------------------------------------------------------------
(* The circuit breaker                                                      *)

Tripped == breaker.tripped # Never
PauseOver == clock - breaker.tripped >= Pause

\* The read: a pause that is not over refuses, one that is over is reset.
getState(c) ==
    /\ At(c, "breaker")
    /\ IF Tripped /\ ~PauseOver
         THEN Refuse(c)
         ELSE call' = [call EXCEPT ![c].at = IF Tripped THEN "reset" ELSE "window",
                                   ![c].paused = (clock < heldUntil /\ ~cleared)]
    /\ UNCHANGED <<clock, mount, rows, caches, gateBounds, gateGhosts>>

\* A write that drops the trip of a pause that is not over.
Overwrites(c) ==
    /\ cleared' = (cleared \/ (Tripped /\ c \in behind))
    /\ behind' = behind \ {c}

reset(c) ==
    /\ At(c, "reset")
    /\ breaker' = [count |-> 0, start |-> clock, tripped |-> Never]
    /\ Overwrites(c)
    /\ To(c, "window")
    /\ UNCHANGED <<clock, mount, keyRow, limit, penalty, spent, caches, gateBounds, passed, reachedAt, heldUntil>>

\* incrementOrReset, its read: count on in the window or begin a new one.
incrementOrReset(c) ==
    /\ At(c, "window")
    /\ call' = [call EXCEPT ![c].at = IF Within(breaker.start, BreakerWindow) THEN "count" ELSE "first",
                            ![c].now = clock]
    /\ UNCHANGED <<clock, mount, rows, caches, gateBounds, gateGhosts>>

\* The atomic count; the row may be gone.
countRequest(c) ==
    /\ At(c, "count")
    /\ LET next == IF breaker.start = Never THEN breaker ELSE [breaker EXCEPT !.count = @ + 1]
       IN  /\ breaker' = next
           /\ To(c, IF next.count > BreakerMax THEN "trip" ELSE "budget")
    /\ behind' = behind \ {c}
    /\ UNCHANGED <<clock, mount, keyRow, limit, penalty, spent, caches, gateBounds,
                   passed, reachedAt, heldUntil, cleared>>

\* The first request of a window writes the row, trip and all.
firstOfWindow(c) ==
    /\ At(c, "first")
    /\ breaker' = [count |-> 1, start |-> call[c].now, tripped |-> Never]
    /\ Overwrites(c)
    /\ To(c, "budget")
    /\ UNCHANGED <<clock, mount, keyRow, limit, penalty, spent, caches, gateBounds, passed, reachedAt, heldUntil>>

\* Mutation: the trip begins a new window instead.
TripForgotten(c) ==
    /\ At(c, "trip")
    /\ breaker' = [breaker EXCEPT !.count = 1, !.start = clock]
    /\ heldUntil' = clock + Pause
    /\ behind' = {d \in Callers \ {c} : call[d].at \in {"reset", "window", "count", "first", "trip"}}
    /\ cleared' = FALSE
    /\ Refuse(c)
    /\ UNCHANGED <<clock, mount, keyRow, limit, penalty, spent, caches, gateBounds, passed, reachedAt>>

trip(c) ==
    /\ At(c, "trip")
    /\ breaker' = IF breaker.start = Never THEN [count |-> 1, start |-> clock, tripped |-> clock]
                                           ELSE [breaker EXCEPT !.tripped = clock]
    /\ heldUntil' = clock + Pause
    /\ behind' = {d \in Callers \ {c} : call[d].at \in {"reset", "window", "count", "first", "trip"}}
    /\ cleared' = FALSE
    /\ Refuse(c)
    /\ UNCHANGED <<clock, mount, keyRow, limit, penalty, spent, caches, gateBounds, passed, reachedAt>>

purgeStale ==
    /\ breaker.start # Never /\ breaker.start < clock - BreakerWindow /\ ~Tripped
    /\ breaker' = Closed
    /\ UNCHANGED <<clock, mount, keyRow, limit, penalty, spent, caches, call, gateBounds, gateGhosts>>

-----------------------------------------------------------------------------
(* The budget, and the request itself                                       *)

\* The budget checker refuses when its query fails.
check(c) ==
    /\ At(c, "budget")
    /\ \/ /\ LET figure == querySpend(budgetCache)
             IN  /\ budgetCache' = figure
                 /\ IF figure.value >= HardCap THEN Refuse(c) ELSE Admit(c, "call")
          /\ UNCHANGED gateFaults
       \/ /\ gateFaults < MaxGateFaults /\ ~Fresh(budgetCache)
          /\ gateFaults' = gateFaults + 1
          /\ Refuse(c)
          /\ UNCHANGED budgetCache
    /\ UNCHANGED <<clock, mount, rows, capCache, arrivals, gateGhosts>>

Spend(c) ==
    /\ At(c, "call")
    /\ spent' = spent + 1
    /\ reachedAt' = IF spent' >= HardCap /\ reachedAt = Never THEN clock ELSE reachedAt
    /\ Refuse(c)
    /\ UNCHANGED <<clock, mount, keyRow, limit, breaker, penalty, caches, gateBounds,
                   passed, heldUntil, behind, cleared>>

-----------------------------------------------------------------------------
(* Webhook signatures                                                       *)

Least(a, b) == IF a < b THEN a ELSE b

\* The block doubles with every failure, up to the bound.
recordFailure == [failures |-> penalty.failures + 1,
                  until |-> clock + Least(2 ^ (penalty.failures + 1), MaxPenalty)]

\* A webhook: refused while its address is blocked; a bad signature extends the
\* block, a good one ends it.
createTwilioWebhookAuth ==
    /\ arrivals < MaxArrivals /\ clock >= penalty.until /\ mount = "webhooks"
    /\ arrivals' = arrivals + 1
    /\ \/ penalty' = recordFailure
       \/ penalty.failures > 0 /\ penalty' = [failures |-> 0, until |-> 0]
    /\ UNCHANGED <<clock, mount, keyRow, limit, breaker, spent, caches, call, gateFaults, gateGhosts>>

Tick ==
    /\ clock < MaxTime
    /\ clock' = clock + 1
    /\ UNCHANGED <<mount, rows, caches, call, gateBounds, gateGhosts>>

AdmissionStep(c) ==
    \/ serviceKeyAuth(c) \/ hydrateSpendingCaps(c) \/ spendingCapCheck(c) \/ capabilityRateLimit(c)
    \/ getState(c) \/ reset(c) \/ incrementOrReset(c) \/ countRequest(c) \/ firstOfWindow(c) \/ trip(c)
    \/ check(c) \/ Spend(c) \/ rateLimitByRoute(c)

AdmissionNext ==
    \/ \E c \in Callers : AdmissionStep(c)
    \/ revokeByInstance \/ purgeStale \/ createTwilioWebhookAuth \/ Tick

AdmissionSpec == AdmissionInit /\ [][AdmissionNext]_admissionVars

-----------------------------------------------------------------------------
(* Properties                                                               *)

\* Once the tenant's spend has reached its cap, no request is let through on a
\* spend figure later than the figures are cached (spending-cap.ts,
\* budget-checker.ts), however the requests before it interleaved.
CapStopsSpend == \A c \in Callers : ~call[c].late

\* A request that read the breaker during a pause (circuit-breaker.ts) gets past
\* it only if, by its read, a request that was past its own read when the breaker
\* tripped had overwritten the trip.
BreakerHolds == \A c \in Callers : call[c].at \in {"budget", "call"} => ~call[c].paused

\* Whatever interleaves, one window of the capability limit lets RateMax
\* requests through (capability-rate-limit.ts).
WindowLimited == passed <= RateMax

\* The two limits on how fast a tenant may go: the circuit breaker's trip and
\* the capability's window.
LimitsHold == BreakerHolds /\ WindowLimited
=============================================================================
