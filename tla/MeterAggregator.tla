-------------------------- MODULE MeterAggregator ---------------------------
(***************************************************************************)
(* src/src/metering/aggregator.ts (DrizzleMeterAggregator) over            *)
(* drizzle-usage-summary-repository.ts: meter events are rolled up into    *)
(* usage summaries, one completed window at a time.                        *)
(*                                                                         *)
(* Events get their timestamp when they are emitted and reach the table    *)
(* when the emitter flushes or replays them, possibly much later.  A       *)
(* summary row is kept as the events it counts: counted[e] is the number   *)
(* of summaries e contributes to.  aggregate() is started by an unguarded  *)
(* setInterval, so several calls (Runs) may be in flight.                  *)
(***************************************************************************)
EXTENDS Integers

CONSTANTS
    Metered,    \* meter events
    Runs,       \* aggregate() calls that may be in flight at once
    Window,     \* windowMs
    MaxTime,    \* bound on the clock
    MaxAborts   \* bound on runs that die

ASSUME AggregatorAssumption ==
    /\ Window \in Nat \ {0}
    /\ MaxTime \in Nat \ {0}
    /\ MaxAborts \in Nat

VARIABLES
    clock,
    ts,         \* timestamp of an emitted event
    table,      \* events in meter_events
    counted,    \* number of summary rows that count the event
    lastEnd,    \* max(windowEnd) over usage_summaries, 0 if none
    phase,         \* each run: idle, anchor, read, insert
    cursor,     \* each run's local lastEnd
    limit,      \* each run's currentWindowStart
    rows,       \* events of the window the run has just read
    frontier,   \* ghost: end of the latest window any run has read
    aborts,     \* runs that died
    late        \* ghost: events stored after their window was read

aggregatorVars == <<clock, ts, table, counted, lastEnd, phase, cursor, limit, rows, frontier, aborts, late>>
runState == <<phase, cursor, limit, rows>>

NotEmitted == -1
NoEvent == -1

WindowStart(t) == (t \div Window) * Window

AggregatorInit ==
    /\ clock = 1
    /\ ts = [e \in Metered |-> NotEmitted]
    /\ table = {}
    /\ counted = [e \in Metered |-> 0]
    /\ lastEnd = 0
    /\ phase = [r \in Runs |-> "idle"]
    /\ cursor = [r \in Runs |-> 0]
    /\ limit = [r \in Runs |-> 0]
    /\ rows = [r \in Runs |-> {}]
    /\ frontier = 0
    /\ aborts = 0
    /\ late = {}

-----------------------------------------------------------------------------
(* The environment                                                          *)

Tick ==
    /\ clock < MaxTime
    /\ clock' = clock + 1
    /\ UNCHANGED <<ts, table, counted, lastEnd, runState, frontier, late, aborts>>

EmitEvent(e) ==
    /\ ts[e] = NotEmitted
    /\ ts' = [ts EXCEPT ![e] = clock]
    /\ UNCHANGED <<clock, table, counted, lastEnd, runState, frontier, late, aborts>>

\* The emitter inserts the event, now or after retries or a replay.
StoreEvent(e) ==
    /\ ts[e] # NotEmitted /\ e \notin table
    /\ table' = table \cup {e}
    /\ late' = IF ts[e] < frontier THEN late \cup {e} ELSE late
    /\ UNCHANGED <<clock, ts, counted, lastEnd, runState, frontier, aborts>>

-----------------------------------------------------------------------------
(* aggregate(now)                                                           *)

EndRun(r) ==
    /\ phase' = [phase EXCEPT ![r] = "idle"]
    /\ cursor' = [cursor EXCEPT ![r] = 0]
    /\ limit' = [limit EXCEPT ![r] = 0]
    /\ rows' = [rows EXCEPT ![r] = {}]

\* getLastWindowEnd, and the early return when nothing is completed since.
StartRun(r) ==
    /\ phase[r] = "idle"
    /\ lastEnd < WindowStart(clock)
    /\ phase' = [phase EXCEPT ![r] = IF lastEnd = 0 THEN "anchor" ELSE "read"]
    /\ cursor' = [cursor EXCEPT ![r] = lastEnd]
    /\ limit' = [limit EXCEPT ![r] = WindowStart(clock)]
    /\ UNCHANGED <<clock, ts, table, counted, lastEnd, rows, frontier, late, aborts>>

\* getEarliestEventTimestamp(currentWindowStart)
Earliest(before) ==
    LET seen == {ts[e] : e \in {x \in table : ts[x] < before}}
    IN  IF seen = {} THEN NoEvent ELSE CHOOSE t \in seen : \A u \in seen : t <= u

\* Mutation: the first run always starts at the window before the current one.
AnchorAtLastWindow(r) ==
    /\ phase[r] = "anchor"
    /\ cursor' = [cursor EXCEPT ![r] = limit[r] - Window]
    /\ phase' = [phase EXCEPT ![r] = "read"]
    /\ UNCHANGED <<clock, ts, table, counted, lastEnd, limit, rows, frontier, late, aborts>>

\* First run: start at the window of the earliest event.
Anchor(r) ==
    /\ phase[r] = "anchor"
    /\ Earliest(limit[r]) # NoEvent
    /\ cursor' = [cursor EXCEPT ![r] = WindowStart(Earliest(limit[r]))]
    /\ frontier' = IF frontier > cursor'[r] THEN frontier ELSE cursor'[r]
    /\ phase' = [phase EXCEPT ![r] = "read"]
    /\ UNCHANGED <<clock, ts, table, counted, lastEnd, limit, rows, late, aborts>>

\* First run without events: one sentinel row covers everything up to now.
AnchorEmpty(r) ==
    /\ phase[r] = "anchor"
    /\ Earliest(limit[r]) = NoEvent
    /\ lastEnd' = IF lastEnd > limit[r] THEN lastEnd ELSE limit[r]
    /\ frontier' = IF frontier > limit[r] THEN frontier ELSE limit[r]
    /\ EndRun(r)
    /\ UNCHANGED <<clock, ts, table, counted, late, aborts>>

WindowEnd(r) == IF cursor[r] + Window < limit[r] THEN cursor[r] + Window ELSE limit[r]

\* getAggregatedEvents(windowStart, windowEnd): [start, end)
EventsIn(start, end) == {e \in table : start <= ts[e] /\ ts[e] < end}

ReadWindow(r) ==
    /\ phase[r] = "read"
    /\ rows' = [rows EXCEPT ![r] = EventsIn(cursor[r], WindowEnd(r))]
    /\ frontier' = IF frontier > WindowEnd(r) THEN frontier ELSE WindowEnd(r)
    /\ phase' = [phase EXCEPT ![r] = "insert"]
    /\ UNCHANGED <<clock, ts, table, counted, lastEnd, cursor, limit, late, aborts>>

\* Mutation: the run continues at the end of the last window, not of this one.
InsertSummariesSkips(r) ==
    /\ phase[r] = "insert"
    /\ counted' = [e \in Metered |-> counted[e] + IF e \in rows[r] THEN 1 ELSE 0]
    /\ lastEnd' = IF lastEnd > limit[r] THEN lastEnd ELSE limit[r]
    /\ EndRun(r)
    /\ UNCHANGED <<clock, ts, table, frontier, late, aborts>>

\* insertSummariesBatch, or insertSummary of a sentinel: one transaction; then
\* the next window of the loop, or the end of the run.
InsertSummaries(r) ==
    /\ phase[r] = "insert"
    /\ counted' = [e \in Metered |-> counted[e] + IF e \in rows[r] THEN 1 ELSE 0]
    /\ lastEnd' = IF lastEnd > WindowEnd(r) THEN lastEnd ELSE WindowEnd(r)
    /\ IF WindowEnd(r) < limit[r]
         THEN /\ cursor' = [cursor EXCEPT ![r] = WindowEnd(r)]
              /\ rows' = [rows EXCEPT ![r] = {}]
              /\ phase' = [phase EXCEPT ![r] = "read"]
              /\ UNCHANGED limit
         ELSE EndRun(r)
    /\ UNCHANGED <<clock, ts, table, frontier, late, aborts>>

\* A database error or the death of the process ends the run where it is.
AbortRun(r) ==
    /\ phase[r] # "idle"
    /\ aborts < MaxAborts
    /\ aborts' = aborts + 1
    /\ EndRun(r)
    /\ UNCHANGED <<clock, ts, table, counted, lastEnd, frontier, late>>

Work(r) == Anchor(r) \/ AnchorEmpty(r) \/ ReadWindow(r) \/ InsertSummaries(r)

AggregatorNext ==
    \/ Tick
    \/ \E e \in Metered : EmitEvent(e) \/ StoreEvent(e)
    \/ \E r \in Runs : StartRun(r) \/ Work(r) \/ AbortRun(r)

AggregatorSpec == AggregatorInit /\ [][AggregatorNext]_aggregatorVars

-----------------------------------------------------------------------------
AggregatorTypeOK ==
    /\ clock \in 1..MaxTime
    /\ ts \in [Metered -> {NotEmitted} \cup 1..MaxTime]
    /\ table \subseteq Metered /\ late \subseteq table
    /\ counted \in [Metered -> Nat]
    /\ aborts \in 0..MaxAborts
    /\ lastEnd \in 0..MaxTime /\ frontier \in 0..MaxTime
    /\ phase \in [Runs -> {"idle", "anchor", "read", "insert"}]
    /\ cursor \in [Runs -> 0..MaxTime] /\ limit \in [Runs -> 0..MaxTime]
    /\ rows \in [Runs -> SUBSET Metered]
    /\ \A r \in Runs : phase[r] # "idle" => cursor[r] < limit[r] /\ limit[r] <= clock

\* No event is billed in two summaries: "Each run aggregates events from a
\* completed window that haven't been summarized yet".
CountedAtMostOnce == \A e \in Metered : counted[e] <= 1

\* An event that was stored before its window was summarised is in the
\* summary, across runs that die between windows and a first run that anchors
\* on the earliest event it sees.
OnTimeCounted ==
    \A e \in table \ late : ts[e] < lastEnd => counted[e] >= 1

\* An event is in one summary, and not in none, if it came in time.
CountsRight == AggregatorTypeOK /\ CountedAtMostOnce /\ OnTimeCounted

\* An event stored in time is summarised once its window is over.
EventuallyCounted ==
    \A e \in Metered :
        e \in table \ late /\ ts[e] < WindowStart(MaxTime) ~> counted[e] >= 1

=============================================================================
