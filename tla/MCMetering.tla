----------------------------- MODULE MCMetering -----------------------------
(* What follows a metered call: the event on its way to the table, the        *)
(* summaries made of the table, and the top-up that the debit triggers.  What *)
(* the aggregator sees of the emitter is that an event reaches the table some *)
(* time after it was stamped, which its own StoreEvent allows at any time,    *)
(* and the top-up reads neither; so a behaviour is about one part.  Two       *)
(* events suffice for a window that holds several and a run that meets a late *)
(* one, three for a batch and what is left behind it; two calls race for the  *)
(* in-flight flag of the top-up.                                              *)
EXTENDS MeterEmitter, MeterAggregator, UsageTopup

VARIABLE part
vars == <<part, emitterVars, aggregatorVars, usageVars>>

Init == part \in {"emit", "aggregate", "topup"} /\ EmitterInit /\ AggregatorInit /\ UsageInit

Next ==
    \/ part = "emit" /\ EmitterNext /\ UNCHANGED <<part, aggregatorVars, usageVars>>
    \/ part = "aggregate" /\ AggregatorNext /\ UNCHANGED <<part, emitterVars, usageVars>>
    \/ part = "topup" /\ UsageNext /\ UNCHANGED <<part, emitterVars, aggregatorVars>>

Spec == Init /\ [][Next]_vars

\* The event loop runs what is ready, the timer fires, the database answers,
\* and a process that stopped or was told to stop is restarted.
EmitterFairness ==
    /\ \A f \in Flushers : WF_emitterVars(part = "emit" /\ Flush(f))
    /\ \A e \in Events : WF_emitterVars(part = "emit" /\ Emit(e))
    /\ WF_emitterVars(part = "emit" /\ Replay)
    /\ WF_emitterVars(part = "emit" /\ Restart)
    /\ WF_emitterVars(part = "emit" /\ closed /\ Crash)

\* Time passes, the timer starts runs, and the database answers a run.
AggregatorFairness ==
    /\ WF_aggregatorVars(part = "aggregate" /\ Tick)
    /\ \A r \in Runs : WF_aggregatorVars(part = "aggregate" /\ (StartRun(r) \/ Work(r)))

\* A pending promise is settled, and Stripe repeats an unacknowledged event.
UsageFairness ==
    /\ \A u \in Triggers : WF_usageVars(part = "topup" /\ TopupStep(u))
    /\ \A p \in Intents : WF_usageVars(part = "topup" /\ Webhook(p))

FairSpec == Spec /\ EmitterFairness /\ AggregatorFairness /\ UsageFairness
=============================================================================
