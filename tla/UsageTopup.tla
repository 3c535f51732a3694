----------------------------- MODULE UsageTopup -----------------------------
(***************************************************************************)
(* Usage-based auto top-up of one tenant: maybeTriggerUsageTopup and the   *)
(* charge it makes (src/src/credits/auto-topup-usage.ts,                   *)
(* auto-topup-charge.ts, auto-topup-settings-repository.ts), beside the    *)
(* Stripe webhook that credits the same PaymentIntent when the inline      *)
(* grant did not (monetization/stripe/webhook.ts).                         *)
(*                                                                         *)
(* A trigger is one call, started after a debit and interleaved with the   *)
(* others at every await.  The ledger is the one of module Ledger, seen    *)
(* from here: credit() posts once per reference and throws otherwise.      *)
(***************************************************************************)
EXTENDS Integers, FiniteSets

CONSTANTS
    Triggers,       \* maybeTriggerUsageTopup calls that may be in flight
    Intents,        \* PaymentIntents Stripe may hand out (bounds the charges)
    Threshold,      \* settings.usageThreshold
    Topup,          \* settings.usageTopup
    MaxConsecutiveFailures, \* MAX_CONSECUTIVE_FAILURES
    MaxDebits,      \* bound on the debits, each of one unit
    MaxFaults,      \* bound on statements that throw
    MaxDeaths,      \* bound on process deaths
    MaxEnables      \* bound on the user switching the setting on again

ASSUME UsageTopupAssumption ==
    /\ Threshold \in Int
    /\ Topup \in Nat \ {0}
    /\ MaxConsecutiveFailures \in Nat \ {0}
    /\ IsFiniteSet(Triggers) /\ IsFiniteSet(Intents)
    /\ {MaxDebits, MaxFaults, MaxDeaths, MaxEnables} \subseteq Nat

VARIABLES
    balance,        \* the tenant's balance
    enabled,        \* settings row: usageEnabled
    inFlight,       \* settings row: usageChargeInFlight
    streak,       \* settings row: usageConsecutiveFailures
    step, intent,   \* each trigger: next statement, its PaymentIntent
    paid,           \* PaymentIntents that charged the card
    posted,         \* ledger entries per PaymentIntent
    delivery,       \* payment_intent.succeeded delivery per PaymentIntent
    debits, faults, deaths, enables

row == <<enabled, inFlight, streak>>
topupBounds == <<debits, faults, deaths, enables>>
usageVars == <<balance, row, step, intent, paid, posted, delivery, topupBounds>>

NoIntent == "none"
Statements == {"idle", "settings", "balance", "acquire", "charge", "has", "credit",
          "succeeded", "failed", "recount", "disable",
          "caught", "recountCaught", "disableCaught", "release"}

\* Between tryAcquireUsageInFlight and the end of the finally block.
Charging == {"charge", "has", "credit", "succeeded", "failed", "recount",
             "disable", "caught", "recountCaught", "disableCaught", "release"}

UsageInit ==
    /\ balance = Threshold
    /\ enabled = TRUE /\ inFlight = FALSE /\ streak = 0
    /\ step = [u \in Triggers |-> "idle"]
    /\ intent = [u \in Triggers |-> NoIntent]
    /\ paid = {}
    /\ posted = [p \in Intents |-> 0]
    /\ delivery = [p \in Intents |-> "none"]
    /\ debits = 0 /\ faults = 0 /\ deaths = 0 /\ enables = 0

Goto(u, from, to) ==
    /\ step[u] = from
    /\ step' = [step EXCEPT ![u] = to]

-----------------------------------------------------------------------------
(* The callers                                                              *)

\* A debit, after which the trigger is called without being awaited.
Debit(u) ==
    /\ debits < MaxDebits
    /\ debits' = debits + 1
    /\ balance' = balance - 1
    /\ Goto(u, "idle", "settings")
    /\ UNCHANGED <<row, intent, paid, posted, delivery, faults, deaths, enables>>

\* upsert({usageEnabled: true}): the failure count is left as it is.
UserEnables ==
    /\ ~enabled /\ enables < MaxEnables
    /\ enabled' = TRUE
    /\ enables' = enables + 1
    /\ UNCHANGED <<balance, inFlight, streak, step, intent, paid, posted, delivery,
                   debits, faults, deaths>>

-----------------------------------------------------------------------------
(* maybeTriggerUsageTopup up to the guard                                   *)

\* Settings and tenant status: off, banned or suspended ends the call.
CheckSettings(u) ==
    /\ \E active \in BOOLEAN :
          Goto(u, "settings", IF enabled /\ active THEN "balance" ELSE "idle")
    /\ UNCHANGED <<balance, row, intent, paid, posted, delivery, topupBounds>>

CheckBalance(u) ==
    /\ Goto(u, "balance", IF balance < Threshold THEN "acquire" ELSE "idle")
    /\ UNCHANGED <<balance, row, intent, paid, posted, delivery, topupBounds>>

\* tryAcquireUsageInFlight: one UPDATE ... WHERE in_flight = false.
Acquire(u) ==
    /\ Goto(u, "acquire", IF inFlight THEN "idle" ELSE "charge")
    /\ inFlight' = TRUE
    /\ UNCHANGED <<balance, enabled, streak, intent, paid, posted, delivery, topupBounds>>

-----------------------------------------------------------------------------
(* chargeAutoTopup                                                          *)

\* No customer, no payment method, a declined card or a Stripe error, a
\* PaymentIntent that is not "succeeded": the failure is logged and returned.
ChargeRefused(u) ==
    /\ Goto(u, "charge", "failed")
    /\ UNCHANGED <<balance, row, intent, paid, posted, delivery, topupBounds>>

\* The card is charged; Stripe will deliver payment_intent.succeeded.
CreateIntent(u) ==
    /\ \E p \in Intents \ paid :
          /\ paid' = paid \cup {p}
          /\ intent' = [intent EXCEPT ![u] = p]
          /\ delivery' = [delivery EXCEPT ![p] = "pending"]
    /\ Goto(u, "charge", "has")
    /\ UNCHANGED <<balance, row, posted, topupBounds>>

\* The card is charged and the answer is lost: a failure, or a throw.
IntentAnswerLost(u) ==
    /\ faults < MaxFaults
    /\ faults' = faults + 1
    /\ \E p \in Intents \ paid :
          /\ paid' = paid \cup {p}
          /\ delivery' = [delivery EXCEPT ![p] = "pending"]
    /\ \E to \in {"failed", "caught"} : Goto(u, "charge", to)
    /\ UNCHANGED <<balance, row, intent, posted, debits, deaths, enables>>

HasReference(u) ==
    /\ step[u] = "has"
    /\ Goto(u, "has", IF posted[intent[u]] > 0 THEN "succeeded" ELSE "credit")
    /\ UNCHANGED <<balance, row, intent, paid, posted, delivery, topupBounds>>

\* Mutation: the grant carries no reference, so nothing makes it unique.
PostWithoutReference(p) ==
    /\ posted' = [posted EXCEPT ![p] = @ + 1]
    /\ balance' = balance + Topup

\* Ledger.credit with the PaymentIntent as reference.
Post(p) ==
    /\ posted[p] = 0
    /\ posted' = [posted EXCEPT ![p] = 1]
    /\ balance' = balance + Topup

CreditInline(u) ==
    /\ Goto(u, "credit", "succeeded")
    /\ Post(intent[u])
    /\ UNCHANGED <<row, intent, paid, delivery, topupBounds>>

\* The webhook was faster: the unique reference makes credit() throw.
CreditRefused(u) ==
    /\ Goto(u, "credit", "caught")
    /\ posted[intent[u]] > 0
    /\ UNCHANGED <<balance, row, intent, paid, posted, delivery, topupBounds>>

-----------------------------------------------------------------------------
(* The rest of maybeTriggerUsageTopup                                       *)

\* resetUsageFailures
ResetFailures(u) ==
    /\ Goto(u, "succeeded", "release")
    /\ streak' = 0
    /\ UNCHANGED <<balance, enabled, inFlight, intent, paid, posted, delivery, topupBounds>>

\* incrementUsageFailures, its UPDATE; in the try block and in the catch block.
IncrementFailures(u) ==
    /\ \/ Goto(u, "failed", "recount")
       \/ Goto(u, "caught", "recountCaught")
    /\ streak' = streak + 1
    /\ UNCHANGED <<balance, enabled, inFlight, intent, paid, posted, delivery, topupBounds>>

AtLimit == streak >= MaxConsecutiveFailures

\* incrementUsageFailures, its second read, and the comparison.
Recount(u) ==
    /\ \/ Goto(u, "recount", IF AtLimit THEN "disable" ELSE "release")
       \/ Goto(u, "recountCaught", IF AtLimit THEN "disableCaught" ELSE "release")
    /\ UNCHANGED <<balance, row, intent, paid, posted, delivery, topupBounds>>

DisableUsage(u) ==
    /\ \/ Goto(u, "disable", "release")
       \/ Goto(u, "disableCaught", "release")
    /\ enabled' = FALSE
    /\ UNCHANGED <<balance, inFlight, streak, intent, paid, posted, delivery, topupBounds>>

\* setUsageChargeInFlight(false) in the finally block.
Release(u) ==
    /\ Goto(u, "release", "idle")
    /\ inFlight' = FALSE
    /\ intent' = [intent EXCEPT ![u] = NoIntent]
    /\ UNCHANGED <<balance, enabled, streak, paid, posted, delivery, topupBounds>>

\* Where a statement that throws takes the call: before the try block to its
\* caller, in the try block to the catch block, in the catch block to finally.
AfterThrow(stmt) ==
    CASE stmt \in {"settings", "balance", "acquire", "release"} -> "idle"
      [] stmt \in {"charge", "has", "credit", "succeeded", "failed", "recount", "disable"} -> "caught"
      [] stmt \in {"caught", "recountCaught", "disableCaught"} -> "release"

\* A query, or the write of the event log, fails.
TopupThrows(u) ==
    /\ step[u] # "idle" /\ faults < MaxFaults
    /\ faults' = faults + 1
    /\ step' = [step EXCEPT ![u] = AfterThrow(step[u])]
    /\ intent' = [intent EXCEPT ![u] = IF step'[u] = "idle" THEN NoIntent ELSE @]
    /\ UNCHANGED <<balance, row, paid, posted, delivery, debits, deaths, enables>>

-----------------------------------------------------------------------------
(* The webhook and the process                                              *)

\* payment_intent.succeeded: the replay guard and hasReferenceId.
WebhookCheck(p) ==
    /\ delivery[p] = "pending"
    /\ delivery' = [delivery EXCEPT ![p] = IF posted[p] > 0 THEN "seen" ELSE "credit"]
    /\ UNCHANGED <<balance, row, step, intent, paid, posted, topupBounds>>

\* Mutation: the event is marked as seen before it is processed.
WebhookCreditMarksFirst(p) ==
    /\ delivery[p] = "credit"
    /\ delivery' = [delivery EXCEPT ![p] = "seen"]
    /\ \/ Post(p)
       \/ UNCHANGED <<balance, posted>>
    /\ UNCHANGED <<row, step, intent, paid, topupBounds>>

\* The fallback grant, then markSeen.
WebhookCredit(p) ==
    /\ delivery[p] = "credit"
    /\ Post(p)
    /\ delivery' = [delivery EXCEPT ![p] = "seen"]
    /\ UNCHANGED <<row, step, intent, paid, topupBounds>>

\* The inline grant was faster: credit() throws and Stripe delivers again.
WebhookThrows(p) ==
    /\ delivery[p] = "credit"
    /\ posted[p] > 0
    /\ delivery' = [delivery EXCEPT ![p] = "pending"]
    /\ UNCHANGED <<balance, row, step, intent, paid, posted, topupBounds>>

\* The process dies: its calls are gone, the settings row stays as it is, and
\* Stripe delivers again what was not acknowledged.
TopupCrash ==
    /\ deaths < MaxDeaths
    /\ deaths' = deaths + 1
    /\ step' = [u \in Triggers |-> "idle"]
    /\ intent' = [u \in Triggers |-> NoIntent]
    /\ delivery' = [p \in Intents |-> IF delivery[p] = "credit" THEN "pending" ELSE delivery[p]]
    /\ UNCHANGED <<balance, row, paid, posted, debits, faults, enables>>

Charge(u) ==
    \/ ChargeRefused(u) \/ CreateIntent(u) \/ HasReference(u)
    \/ CreditInline(u) \/ CreditRefused(u)

TopupStep(u) ==
    \/ CheckSettings(u) \/ CheckBalance(u) \/ Acquire(u) \/ Charge(u)
    \/ ResetFailures(u) \/ IncrementFailures(u) \/ Recount(u)
    \/ DisableUsage(u) \/ Release(u)

Webhook(p) == WebhookCheck(p) \/ WebhookCredit(p) \/ WebhookThrows(p)

UsageNext ==
    \/ \E u \in Triggers : Debit(u) \/ TopupStep(u) \/ IntentAnswerLost(u) \/ TopupThrows(u)
    \/ \E p \in Intents : Webhook(p)
    \/ UserEnables \/ TopupCrash

UsageSpec == UsageInit /\ [][UsageNext]_usageVars

-----------------------------------------------------------------------------
(* Properties                                                               *)

UsageTypeOK ==
    /\ balance \in Int
    /\ {enabled, inFlight} \subseteq BOOLEAN /\ streak \in Nat
    /\ step \in [Triggers -> Statements]
    /\ intent \in [Triggers -> Intents \cup {NoIntent}]
    /\ paid \subseteq Intents
    /\ posted \in [Intents -> Nat]
    /\ delivery \in [Intents -> {"none", "pending", "credit", "seen"}]
    /\ debits \in 0..MaxDebits /\ faults \in 0..MaxFaults
    /\ deaths \in 0..MaxDeaths /\ enables \in 0..MaxEnables

\* The compare-and-swap of tryAcquireUsageInFlight: at most one call is between
\* the guard and its finally block, and while it is, the flag is up.
OneCharger ==
    \A u, v \in Triggers :
        step[u] \in Charging => inFlight /\ (step[v] \in Charging => u = v)

\* The grant after the charge and the webhook's fallback post the same
\* PaymentIntent at most once between them, never one that was not paid, and
\* the balance is the debits and these grants.
GrantedOnce ==
    /\ \A p \in Intents : posted[p] <= 1 /\ (posted[p] > 0 => p \in paid)
    /\ balance = Threshold - debits + Topup * Cardinality({p \in Intents : posted[p] > 0})

\* "disable after MAX_CONSECUTIVE_FAILURES": calls that had read the settings
\* before still charge, one attempt each, but no more than that.  A throw can
\* count an attempt twice or lose the disabling; switching on allows one more.
StreakBounded ==
    deaths = 0 => streak < MaxConsecutiveFailures + Cardinality(Triggers) * (1 + faults + enables)

\* "6. Clear in-flight flag": nobody is left behind a flag that is up, unless
\* the process died or the release itself threw; nothing else ever clears it.
FlagIsHeld == inFlight /\ deaths = 0 /\ faults = 0 => \E u \in Triggers : step[u] \in Charging

\* One charge at a time, each granted once, and an end to the failing ones.
TopupSafe == UsageTypeOK /\ OneCharger /\ GrantedOnce /\ StreakBounded /\ FlagIsHeld

\* Whatever becomes of the call that charged the card, the tenant is credited:
\* by the call or by the webhook.
PaidIsCredited == \A p \in Intents : (p \in paid) ~> (posted[p] = 1)

=============================================================================
