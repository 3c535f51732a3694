---------------------------- MODULE ScheduleTopup ---------------------------
(***************************************************************************)
(* Scheduled auto top-ups: runScheduledTopups                              *)
(* (src/src/credits/auto-topup-schedule.ts) over the settings rows of      *)
(* auto-topup-settings-repository.ts, driven by an hourly cron.            *)
(*                                                                         *)
(* Time counts hours.  The charge is the one of module UsageTopup, here a  *)
(* single step with its three results: success, a returned failure, a      *)
(* throw (with the card charged or not).  A period is named by the value   *)
(* of schedule_next_at it is due at.                                       *)
(***************************************************************************)
EXTENDS Integers, Sequences, FiniteSets, SequencesExt

CONSTANTS
    Tenants,
    Runs,           \* runScheduledTopups calls that may overlap
    Interval,       \* scheduleIntervalHours
    MaxFailures,    \* MAX_CONSECUTIVE_FAILURES
    MaxTime,        \* bound on the clock
    MaxFaults,      \* bound on statements that throw
    MaxCrashes      \* bound on process deaths

ASSUME ScheduleTopupAssumption ==
    /\ IsFiniteSet(Tenants)
    /\ Interval \in Nat \ {0}
    /\ MaxFailures \in Nat \ {0}
    /\ {MaxTime, MaxFaults, MaxCrashes} \subseteq Nat

VARIABLES
    clock,
    enabled,        \* settings row: scheduleEnabled
    nextAt,         \* settings row: scheduleNextAt
    failures,       \* settings row: scheduleConsecutiveFailures
    pc,             \* each run: next statement
    due,            \* each run: settings still to process, as listed
    read,           \* each run: scheduleNextAt as advanceScheduleNextAt read it
    won,            \* each run: result of the charge
    charged,        \* ghost: card charges per tenant and period
    attempted,      \* ghost: periods some run has processed, per tenant
    cut,            \* ghost: periods whose run ended after the charge and before
                    \* the schedule was advanced, per tenant
    faults, crashes

row == <<enabled, nextAt, failures>>
runState == <<pc, due, read, won>>
ghosts == <<charged, attempted, cut>>
bounds == <<faults, crashes>>
scheduleVars == <<clock, row, runState, ghosts, bounds>>

\* Periods a run can name: overlapping and throwing runs push schedule_next_at
\* past the clock, by at most two intervals for every run and every throw.
MaxPeriod == MaxTime + Interval * (2 + 2 * Cardinality(Runs) + 2 * MaxFaults)
Periods == 0..MaxPeriod

ScheduleInit ==
    /\ clock = 0
    /\ enabled = [t \in Tenants |-> TRUE]
    /\ nextAt = [t \in Tenants |-> 0]
    /\ failures = [t \in Tenants |-> 0]
    /\ pc = [r \in Runs |-> "idle"]
    /\ due = [r \in Runs |-> << >>]
    /\ read = [r \in Runs |-> 0]
    /\ won = [r \in Runs |-> FALSE]
    /\ charged = [t \in Tenants |-> [p \in Periods |-> 0]]
    /\ attempted = [t \in Tenants |-> {}] /\ cut = [t \in Tenants |-> {}]
    /\ faults = 0 /\ crashes = 0

\* The tenant the run is processing.
Tenant(r) == Head(due[r]).tenant

Goto(r, from, to) ==
    /\ pc[r] = from
    /\ pc' = [pc EXCEPT ![r] = to]

\* The loop goes on with the next tenant, or the run ends.
NextTenant(r) ==
    /\ due' = [due EXCEPT ![r] = Tail(@)]
    /\ pc' = [pc EXCEPT ![r] = IF Len(due[r]) > 1 THEN "status" ELSE "idle"]

-----------------------------------------------------------------------------

Tick ==
    /\ clock < MaxTime
    /\ clock' = clock + 1
    /\ UNCHANGED <<row, runState, ghosts, bounds>>

\* listDueScheduled(now)
IsDue(t) == enabled[t] /\ nextAt[t] <= clock

Start(r) ==
    /\ {t \in Tenants : IsDue(t)} # {}
    /\ Goto(r, "idle", "status")
    /\ \E order \in SetToSeqs({t \in Tenants : IsDue(t)}) :
          due' = [due EXCEPT ![r] =
                    [i \in DOMAIN order |-> [tenant |-> order[i], period |-> nextAt[order[i]]]]]
    /\ UNCHANGED <<clock, row, read, won, ghosts, bounds>>

\* checkTenantStatus: a banned or suspended tenant is not charged.
CheckStatus(r) ==
    /\ \E to \in {"charge", "skip"} : Goto(r, "status", to)
    /\ attempted' = [attempted EXCEPT ![Tenant(r)] = @ \cup {Head(due[r]).period}]
    /\ UNCHANGED <<clock, row, due, read, won, charged, cut, bounds>>

\* chargeAutoTopup: the result and whether the card was charged.
Charge(r) ==
    /\ pc[r] = "charge"
    /\ \E result \in {"success", "failure", "throw"}, card \in BOOLEAN :
          /\ result = "success" => card
          /\ card /\ result # "success" => faults < MaxFaults
          /\ result = "throw" => faults < MaxFaults
          /\ faults' = IF result = "throw" \/ (card /\ result = "failure") THEN faults + 1 ELSE faults
          /\ won' = [won EXCEPT ![r] = result = "success"]
          /\ charged' = [charged EXCEPT ![Tenant(r)][Head(due[r]).period] =
                            @ + (IF card THEN 1 ELSE 0)]
          /\ pc' = [pc EXCEPT ![r] = IF result = "throw" THEN "caught" ELSE "advance"]
    /\ UNCHANGED <<clock, row, due, read, attempted, cut, crashes>>

\* advanceScheduleNextAt, its read: after a charge, for a skipped tenant, and
\* in the catch block.
AdvanceRead(r) ==
    /\ \/ Goto(r, "advance", "advanceWrite")
       \/ Goto(r, "skip", "skipWrite")
       \/ Goto(r, "caught", "caughtWrite")
    /\ read' = [read EXCEPT ![r] = nextAt[Tenant(r)]]
    /\ UNCHANGED <<clock, row, due, won, ghosts, bounds>>

Advanced(r) == read[r] + Interval

\* Mutation: the catch block does not advance the schedule.
AdvanceWriteUnlessCaught(r) ==
    /\ pc[r] \in {"advanceWrite", "skipWrite", "caughtWrite"}
    /\ nextAt' = IF pc[r] = "caughtWrite" THEN nextAt ELSE [nextAt EXCEPT ![Tenant(r)] = Advanced(r)]
    /\ \/ Goto(r, "advanceWrite", "record") /\ UNCHANGED due
       \/ pc[r] = "skipWrite" /\ NextTenant(r)
       \/ Goto(r, "caughtWrite", "caughtFail") /\ UNCHANGED due
    /\ UNCHANGED <<clock, enabled, failures, read, won, ghosts, bounds>>

\* advanceScheduleNextAt, its write.
AdvanceWrite(r) ==
    /\ pc[r] \in {"advanceWrite", "skipWrite", "caughtWrite"}
    /\ nextAt' = [nextAt EXCEPT ![Tenant(r)] = Advanced(r)]
    /\ \/ Goto(r, "advanceWrite", "record") /\ UNCHANGED due
       \/ pc[r] = "skipWrite" /\ NextTenant(r)
       \/ Goto(r, "caughtWrite", "caughtFail") /\ UNCHANGED due
    /\ UNCHANGED <<clock, enabled, failures, read, won, ghosts, bounds>>

\* resetScheduleFailures after a success, incrementScheduleFailures otherwise.
RecordSuccess(r) ==
    /\ pc[r] = "record" /\ won[r]
    /\ failures' = [failures EXCEPT ![Tenant(r)] = 0]
    /\ NextTenant(r)
    /\ UNCHANGED <<clock, enabled, nextAt, read, won, ghosts, bounds>>

RecordFailure(r) ==
    /\ \/ Goto(r, "record", "recount") /\ ~won[r]
       \/ Goto(r, "caughtFail", "caughtCount")
    /\ failures' = [failures EXCEPT ![Tenant(r)] = @ + 1]
    /\ UNCHANGED <<clock, enabled, nextAt, due, read, won, ghosts, bounds>>

AtLimit(t) == failures[t] >= MaxFailures

\* The second read of incrementScheduleFailures, below the limit and at it.
Recount(r) ==
    /\ pc[r] \in {"recount", "caughtCount"}
    /\ \/ ~AtLimit(Tenant(r)) /\ NextTenant(r)
       \/ AtLimit(Tenant(r)) /\ UNCHANGED due
          /\ (Goto(r, "recount", "disable") \/ Goto(r, "caughtCount", "caughtDisable"))
    /\ UNCHANGED <<clock, row, read, won, ghosts, bounds>>

DisableSchedule(r) ==
    /\ pc[r] \in {"disable", "caughtDisable"}
    /\ enabled' = [enabled EXCEPT ![Tenant(r)] = FALSE]
    /\ NextTenant(r)
    /\ UNCHANGED <<clock, nextAt, failures, read, won, ghosts, bounds>>

\* The run has charged, or tried to, and the schedule still stands at the
\* period.
CutOff(r) ==
    /\ pc[r] \in {"advance", "advanceWrite", "caught", "caughtWrite"}
    /\ nextAt[Tenant(r)] <= Head(due[r]).period

\* The runs end where they are.
EndRuns(ended) ==
    /\ pc' = [r \in Runs |-> IF r \in ended THEN "idle" ELSE pc[r]]
    /\ due' = [r \in Runs |-> IF r \in ended THEN << >> ELSE due[r]]
    /\ cut' = [t \in Tenants |-> cut[t] \cup {Head(due[r]).period : r \in {s \in ended : CutOff(s) /\ Tenant(s) = t}}]

\* A statement throws: in the try block it is caught, elsewhere the run ends
\* and the tenants behind it are not processed.
Throws(r) ==
    /\ faults < MaxFaults
    /\ faults' = faults + 1
    /\ \/ pc[r] \in {"advance", "advanceWrite", "record", "recount", "disable"}
          /\ pc' = [pc EXCEPT ![r] = "caught"]
          /\ UNCHANGED <<due, cut>>
       \/ pc[r] \in {"status", "skip", "skipWrite", "caught", "caughtWrite",
                     "caughtFail", "caughtCount", "caughtDisable"}
          /\ EndRuns({r})
    /\ UNCHANGED <<clock, row, read, won, charged, attempted, crashes>>

Crash ==
    /\ crashes < MaxCrashes
    /\ crashes' = crashes + 1
    /\ EndRuns(Runs)
    /\ UNCHANGED <<clock, row, read, won, charged, attempted, faults>>

RunStep(r) ==
    \/ CheckStatus(r) \/ Charge(r) \/ AdvanceRead(r) \/ AdvanceWrite(r)
    \/ RecordSuccess(r) \/ RecordFailure(r) \/ Recount(r) \/ DisableSchedule(r)

ScheduleNext ==
    \/ Tick \/ Crash
    \/ \E r \in Runs : Start(r) \/ RunStep(r) \/ Throws(r)

ScheduleSpec == ScheduleInit /\ [][ScheduleNext]_scheduleVars

-----------------------------------------------------------------------------
(* Properties                                                               *)

\* The schedule is advanced in the catch block too, so that a period whose
\* charge or bookkeeping threw is not charged by the next run as well.  Only a
\* run that dies, or throws in its catch block, between the charge and the
\* advance leaves the period to be charged again.
ChargedOncePerPeriod ==
    \A t \in Tenants : \A p \in Periods \ cut[t] : charged[t][p] <= 1

\* "Advance schedule_next_at by interval_hours": while no statement throws,
\* every period the schedule has passed was processed by some run, however late
\* the run came and whatever died.  (A throw after the advance makes the catch
\* block advance once more, and a period is jumped over.)
NoPeriodSkipped ==
    faults = 0 =>
        \A t \in Tenants : \A p \in Periods :
            p < nextAt[t] /\ p % Interval = 0 => p \in attempted[t]

\* A schedule charges each of its periods once.
ScheduleSafe == ChargedOncePerPeriod /\ NoPeriodSkipped
=============================================================================
