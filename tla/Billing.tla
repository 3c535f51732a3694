------------------------------ MODULE Billing -------------------------------
(***************************************************************************)
(* The billing crons and what they do to a tenant's bots.                  *)
(*                                                                         *)
(* runRuntimeDeductions charges every tenant with a balance for its bots   *)
(* once a day and suspends the bots of a tenant that cannot pay;           *)
(* DrizzleBotBilling suspends, reactivates and destroys; the dividend,     *)
(* expiry, usage-report and reconciliation crons go over the same ledger.  *)
(* A cron may run twice at the same time (the run at startup, the one of   *)
(* the timer, a second process) and may die between any two statements.    *)
(* The ledger's debit and credit are one step here: module Ledger.         *)
(***************************************************************************)
EXTENDS Integers, Sequences, FiniteSets, FiniteSetsExt, SequencesExt

CONSTANTS
    Tenants, BotIds, Owner,
    CronRuns, Payers, Reporters,    \* invocations of the crons that may overlap
    Lines,                      \* billing-period summaries to report to Stripe
    Eras,                       \* the situations to start from, NoEra among them
    MaxDays, MaxDeaths

Kinds == {"runtime", "tier", "storage", "addon"}
BotStates == {"inactive", "active", "suspended", "destroyed"}
NoEra == [acts |-> {}, purse |-> [t \in Tenants |-> 0], state |-> [b \in BotIds |-> "inactive"],
          fee |-> [k \in Kinds |-> 0], hook |-> FALSE, bought |-> [t \in Tenants |-> 0], grant |-> 0, buyers |-> {}, started |-> {},
          metered |-> [t \in Tenants |-> <<0, 0>>], debited |-> [t \in Tenants |-> 0]]

ASSUME BillingAssumption ==
    /\ NoEra \in Eras /\ Owner \in [BotIds -> Tenants] /\ MaxDays \in Nat /\ MaxDeaths \in Nat
    /\ IsFiniteSet(Tenants) /\ IsFiniteSet(BotIds)
    /\ \A e \in Eras : /\ e.purse \in [Tenants -> Int] /\ e.fee \in [Kinds -> Nat] /\ e.grant \in Nat
                      /\ e.bought \in [Tenants -> Nat] /\ e.state \in [BotIds -> BotStates]

VARIABLES
    era, day,
    purse,      \* balance of a tenant's credit account
    posted,     \* reference ids in the journal
    tbot,       \* bot_instances: billing_state and destroy_after
    cron,       \* runRuntimeDeductions
    helper,     \* checkReactivation and destroyExpiredBots
    payer,      \* runDividendCron
    reporter,   \* runUsageReportWriter
    reports,    \* stripe_usage_reports
    counted,    \* meter events Stripe counted, by identifier
    remembers,  \* identifiers Stripe still refuses to count again
    flagged,    \* what the last reconciliation flagged
    deaths,
    owes,       \* ghost: the cron's runtime or tier debit emptied the balance since the last credit
    hurt        \* ghost: lines whose report a run left behind when it died, and "dividend"

billingVars == <<era, day, purse, posted, tbot, cron, helper, payer, reporter, reports, counted,
                 remembers, flagged, deaths, owes, hurt>>
books == <<purse, posted, owes>>
usageSide == <<reporter, reports, counted, remembers, flagged>>

NoCron == [pc |-> "idle", stage |-> "read", day |-> 0, todo |-> << >>, t |-> "none", seen |-> 0, cost |-> 0,
           cur |-> 0, susp |-> FALSE, then |-> "next", list |-> << >>]
NoHelper == [pc |-> "idle", list |-> << >>]
NoPayer == [pc |-> "idle", todo |-> << >>, share |-> 0]

BillingInit ==
    /\ era \in Eras /\ day = 1
    /\ purse = era.purse /\ posted = {}
    /\ tbot = [b \in BotIds |-> [state |-> era.state[b], due |-> "none"]]
    /\ cron = [r \in CronRuns |-> NoCron]
    /\ helper = [h \in {"reactivation", "reaper"} |-> NoHelper]
    /\ payer = [p \in Payers |-> NoPayer]
    /\ reporter = [p \in Reporters |-> << >>]
    /\ reports = {} /\ counted = [l \in Lines |-> 0] /\ remembers = {} /\ flagged = {}
    /\ deaths = 0 /\ owes = {} /\ hurt = {}

Acts(a) == a \in era.acts

-----------------------------------------------------------------------------
\* DrizzleBotInstanceRepository: suspend and markDestroyed whatever the state
\* is, reactivate only what is suspended.
suspend(bot) == [state |-> "suspended", due |-> "later"]
reactivate(bot) == IF bot.state = "suspended" THEN [state |-> "active", due |-> "none"] ELSE bot
markDestroyed(bot) == [bot EXCEPT !.state = "destroyed"]

listIds(t, state) == {b \in BotIds : Owner[b] = t /\ tbot[b].state = state}
countActiveByTenant(t) == Cardinality(listIds(t, "active"))
listExpiredSuspendedIds == {b \in BotIds : tbot[b].state = "suspended" /\ tbot[b].due = "past"}

\* What a tenant owes for a day: per active bot, and for its add-ons
perBot(k, t) == era.fee[k] * countActiveByTenant(t)
getAddonCosts(t) == era.fee["addon"]
costOf(k, t) == IF k = "addon" THEN getAddonCosts(t) ELSE perBot(k, t)

-----------------------------------------------------------------------------
\* runRuntimeDeductions, tenant by tenant and charge by charge

Following == [runtime |-> "tier", tier |-> "settle", settle |-> "storage", storage |-> "addon", addon |-> "next"]

NextTenantOf(m) ==
    IF m.todo = << >> THEN NoCron
    ELSE [NoCron EXCEPT !.pc = "runtime", !.day = m.day, !.t = Head(m.todo).t, !.seen = Head(m.todo).seen,
                        !.todo = Tail(m.todo)]

Goto(m, pc) ==
    IF pc = "next" THEN NextTenantOf(m) ELSE [m EXCEPT !.pc = pc, !.stage = "read", !.cost = 0, !.cur = 0, !.then = "next"]

Onward(m) == Goto(m, Following[m.pc])

\* tenantsWithBalance: the balances of all tenants are read once.
StartRun(r) ==
    /\ Acts("runtime") /\ cron[r].pc = "idle"
    /\ LET listed == {t \in Tenants : purse[t] > 0} IN
       /\ listed # {}
       /\ cron' = [cron EXCEPT ![r] = NextTenantOf([NoCron EXCEPT !.day = day,
                     !.todo = SetToSeq({[t |-> t, seen |-> purse[t]] : t \in listed})])]
    /\ UNCHANGED <<era, day, books, tbot, helper, payer, usageSide, deaths, hurt>>

\* hasReferenceId, the cost and, for the surcharges, the balance
ReadCharge(r) ==
    /\ cron[r].pc \in Kinds /\ cron[r].stage = "read"
    /\ LET m == cron[r]
           cost == costOf(m.pc, m.t)
           noBots == m.pc = "runtime" /\ countActiveByTenant(m.t) = 0
       IN cron' = [cron EXCEPT ![r] =
            CASE noBots -> NextTenantOf(m)
              [] ~noBots /\ (<<m.pc, m.day, m.t>> \in posted \/ cost = 0) -> Onward(m)
              [] OTHER -> [m EXCEPT !.stage = "debit", !.cost = cost,
                                    !.cur = IF m.pc = "runtime" THEN m.seen ELSE purse[m.t]]]
    /\ UNCHANGED <<era, day, books, tbot, helper, payer, usageSide, deaths, hurt>>

\* onSuspend, where the deployment has one, and result.suspended
Suspending(m, then) ==
    IF era.hook THEN [Goto(m, "suspend") EXCEPT !.susp = TRUE, !.then = then]
    ELSE Goto([m EXCEPT !.susp = TRUE], then)

\* ledger.debit of the cost or of what there is.  InsufficientBalanceError
\* suspends and ends the tenant, a reference that exists ends the tenant.
DebitCharge(r) ==
    /\ cron[r].pc \in Kinds /\ cron[r].stage = "debit"
    /\ LET m == cron[r]
           amount == Min({m.cost, m.cur})
           ref == <<m.pc, m.day, m.t>>
           short == amount > 0 /\ purse[m.t] < amount
           dup == amount > 0 /\ ~short /\ ref \in posted
           paid == amount > 0 /\ ~short /\ ~dup
       IN /\ purse' = IF paid THEN [purse EXCEPT ![m.t] = @ - amount] ELSE purse
          /\ posted' = IF paid THEN posted \cup {ref} ELSE posted
          /\ owes' = IF paid /\ purse[m.t] = amount /\ m.pc \in {"runtime", "tier"} /\ ~m.susp THEN owes \cup {m.t} ELSE owes
          /\ cron' = [cron EXCEPT ![r] =
                CASE short -> Suspending(m, "next")
                  [] dup -> NextTenantOf(m)
                  [] m.cost > m.cur /\ m.pc # "tier" /\ ~m.susp /\ ~short /\ ~dup -> Suspending(m, Following[m.pc])
                  [] OTHER -> Onward(m)]
    /\ UNCHANGED <<era, day, tbot, helper, payer, usageSide, deaths, hurt>>

\* Mutation: only a debit that could not be paid in full suspends.
NeverSuspends(m) == Onward(m)

\* The balance after the runtime and the tier: an exhausted tenant is
\* suspended.  What the later surcharges exhaust exactly is not looked at.
afterTier(m) == IF purse[m.t] <= 0 /\ m.seen > 0 /\ ~m.susp THEN Suspending(m, "storage") ELSE Onward(m)

SettleTenant(r) ==
    /\ cron[r].pc = "settle"
    /\ cron' = [cron EXCEPT ![r] = afterTier(cron[r])]
    /\ UNCHANGED <<era, day, books, tbot, helper, payer, usageSide, deaths, hurt>>

\* suspendAllForTenant: the active bots are listed, then suspended one by one.
suspendAllForTenant(r) ==
    /\ cron[r].pc = "suspend"
    /\ LET m == cron[r] IN
       \/ /\ m.stage = "read"
          /\ cron' = [cron EXCEPT ![r] = [m EXCEPT !.stage = "bots", !.list = SetToSeq(listIds(m.t, "active"))]]
          /\ UNCHANGED tbot
       \/ /\ m.stage = "bots" /\ m.list # << >>
          /\ tbot' = [tbot EXCEPT ![Head(m.list)] = suspend(@)]
          /\ cron' = [cron EXCEPT ![r].list = Tail(@)]
       \/ /\ m.stage = "bots" /\ m.list = << >>
          /\ cron' = [cron EXCEPT ![r] = Goto(m, m.then)]
          /\ UNCHANGED tbot
    /\ UNCHANGED <<era, day, books, helper, payer, usageSide, deaths, hurt>>

RunDies(r) ==
    /\ cron[r].pc # "idle" /\ deaths < MaxDeaths
    /\ deaths' = deaths + 1
    /\ cron' = [cron EXCEPT ![r] = NoCron]
    /\ owes' = owes \ {cron[r].t}
    /\ UNCHANGED <<era, day, purse, posted, tbot, helper, payer, usageSide, hurt>>

\* The timer of startRuntimeScheduler: the next date
DayBreaks ==
    /\ Acts("runtime") /\ day < MaxDays
    /\ day' = day + 1
    /\ tbot' = [b \in BotIds |-> IF tbot[b].due = "later" THEN [tbot[b] EXCEPT !.due = "past"] ELSE tbot[b]]
    /\ UNCHANGED <<era, books, cron, helper, payer, usageSide, deaths, hurt>>

-----------------------------------------------------------------------------
\* A purchase is credited; the webhook then calls checkReactivation.
Purchase(t) ==
    /\ t \in era.buyers /\ <<"purchase", day, t>> \notin posted /\ helper["reactivation"] = NoHelper
    /\ posted' = posted \cup {<<"purchase", day, t>>}
    /\ purse' = [purse EXCEPT ![t] = @ + 2]
    /\ owes' = owes \ {t}
    /\ helper' = [helper EXCEPT !["reactivation"] = [pc |-> "bots", list |-> SetToSeq(listIds(t, "suspended"))]]
    /\ UNCHANGED <<era, day, tbot, cron, payer, usageSide, deaths, hurt>>

\* checkReactivation and destroyExpiredBots go over a list they read before.
HelperStep(h) ==
    /\ helper[h].pc = "bots"
    /\ IF helper[h].list = << >> THEN helper' = [helper EXCEPT ![h] = NoHelper] /\ UNCHANGED <<tbot, owes>>
       ELSE LET b == Head(helper[h].list) IN
            /\ tbot' = [tbot EXCEPT ![b] = IF h = "reaper" THEN markDestroyed(@) ELSE reactivate(@)]
            /\ helper' = [helper EXCEPT ![h].list = Tail(@)]
            /\ owes' = IF h = "reactivation" THEN owes \ {Owner[b]} ELSE owes
    /\ UNCHANGED <<era, day, purse, posted, cron, payer, usageSide, deaths, hurt>>

destroyExpiredBots ==
    /\ Acts("reaper") /\ helper["reaper"] = NoHelper /\ listExpiredSuspendedIds # {}
    /\ helper' = [helper EXCEPT !["reaper"] = [pc |-> "bots", list |-> SetToSeq(listExpiredSuspendedIds)]]
    /\ UNCHANGED <<era, day, books, tbot, cron, payer, usageSide, deaths, hurt>>

\* Instance.startBilling and stopBilling: setBillingState
setBillingState(b, state) ==
    /\ b \in era.started /\ tbot[b].state \in {"inactive", "active"} /\ tbot[b].state # state
    /\ tbot' = [tbot EXCEPT ![b] = IF state = "suspended" THEN suspend(@) ELSE [state |-> state, due |-> "none"]]
    /\ owes' = IF state = "active" THEN owes \ {Owner[b]} ELSE owes
    /\ UNCHANGED <<era, day, purse, posted, cron, helper, payer, usageSide, deaths, hurt>>

\* The gateway spends meanwhile.
GatewaySpends(t) ==
    /\ Acts("gateway") /\ purse[t] > 0
    /\ purse' = [purse EXCEPT ![t] = @ - 1]
    /\ UNCHANGED <<era, day, posted, tbot, cron, helper, payer, usageSide, deaths, owes, hurt>>

\* grantSignupCredits: the reference is looked up, and is unique anyway.
grantSignupCredits(t) ==
    /\ Acts("signup") /\ <<"signup", 0, t>> \notin posted
    /\ posted' = posted \cup {<<"signup", 0, t>>}
    /\ purse' = [purse EXCEPT ![t] = @ + era.grant] /\ owes' = owes \ {t}
    /\ UNCHANGED <<era, day, tbot, cron, helper, payer, usageSide, deaths, hurt>>

\* runCreditExpiryCron: expiredCredits leaves out what has its expiry entry;
\* debitCapped takes what is there, and a grant of an empty account waits.
expireGrant(t) ==
    /\ Acts("expiry") /\ <<"signup", 0, t>> \in posted /\ <<"expiry", 0, t>> \notin posted
    /\ purse[t] > 0
    /\ posted' = posted \cup {<<"expiry", 0, t>>}
    /\ purse' = [purse EXCEPT ![t] = @ - Min({@, era.grant})]
    /\ UNCHANGED <<era, day, tbot, cron, helper, payer, usageSide, deaths, owes, hurt>>

-----------------------------------------------------------------------------
\* runDividendCron for one target date

activeTenants == {t \in Tenants : era.bought[t] > 0}
sumPurchasesForPeriod == MapThenSumSet(LAMBDA t : era.bought[t], Tenants)
perUser == IF activeTenants = {} THEN 0 ELSE sumPurchasesForPeriod \div Cardinality(activeTenants)
dividendRef(t) == <<"dividend", 0, t>>

\* existsByReferenceIdLike: any tenant's dividend of the date ends the run.
alreadyRan == \E t \in Tenants : dividendRef(t) \in posted

StartDividend(p) ==
    /\ Acts("dividend") /\ payer[p] = NoPayer /\ ~alreadyRan /\ perUser > 0
    /\ payer' = [payer EXCEPT ![p] = [pc |-> "pay", todo |-> SetToSeq(activeTenants), share |-> perUser]]
    /\ UNCHANGED <<era, day, books, tbot, cron, helper, usageSide, deaths, hurt>>

\* The loop goes on after a credit and after an error.
afterOne(m) == IF Tail(m.todo) = << >> THEN NoPayer ELSE [m EXCEPT !.todo = Tail(@)]
goOn(p) == payer' = [payer EXCEPT ![p] = afterOne(@)]

PayDividend(p) ==
    /\ payer[p].pc = "pay"
    /\ LET t == Head(payer[p].todo) IN
       \/ /\ dividendRef(t) \notin posted
          /\ posted' = posted \cup {dividendRef(t)}
          /\ purse' = [purse EXCEPT ![t] = @ + payer[p].share] /\ owes' = owes \ {t}
          /\ goOn(p) /\ UNCHANGED <<deaths, hurt>>
       \/ /\ dividendRef(t) \in posted
          /\ UNCHANGED <<books, deaths, hurt>> /\ goOn(p)
       \/ /\ deaths < MaxDeaths /\ deaths' = deaths + 1 /\ hurt' = hurt \cup {"dividend"}
          /\ UNCHANGED books
          /\ goOn(p) \/ payer' = [payer EXCEPT ![p] = NoPayer]
    /\ UNCHANGED <<era, day, tbot, cron, helper, usageSide>>

-----------------------------------------------------------------------------
\* runUsageReportWriter: a summary that has no row is reported to Stripe, then
\* its row is written.

BeginReport(p, l) ==
    /\ Acts("report") /\ reporter[p] = << >> /\ l \notin reports
    /\ reporter' = [reporter EXCEPT ![p] = <<l, "create">>]
    /\ UNCHANGED <<era, day, books, tbot, cron, helper, payer, reports, counted, remembers, flagged, deaths, hurt>>

\* The identifier is that of the tenant, capability, provider and period:
\* Stripe does not count one it remembers.
meterEvent(l) == counted' = IF l \in remembers THEN counted ELSE [counted EXCEPT ![l] = @ + 1]

CreateMeterEvent(p) ==
    /\ reporter[p] # << >> /\ reporter[p][2] = "create"
    /\ LET l == reporter[p][1] IN
       /\ meterEvent(l) /\ remembers' = remembers \cup {l}
       /\ reporter' = [reporter EXCEPT ![p] = <<l, "insert">>]
    /\ UNCHANGED <<era, day, books, tbot, cron, helper, payer, reports, flagged, deaths, hurt>>

InsertReport(p) ==
    /\ reporter[p] # << >> /\ reporter[p][2] = "insert"
    /\ LET l == reporter[p][1] IN
       \/ reports' = reports \cup {l} /\ UNCHANGED <<deaths, hurt>>
       \/ deaths < MaxDeaths /\ deaths' = deaths + 1 /\ hurt' = hurt \cup {l} /\ UNCHANGED reports
    /\ reporter' = [reporter EXCEPT ![p] = << >>]
    /\ UNCHANGED <<era, day, books, tbot, cron, helper, payer, counted, remembers, flagged>>

\* Stripe forgets identifiers after a day; the runs of a day are over by then.
StripeForgets ==
    /\ remembers # {} /\ \A p \in Reporters : reporter[p] = << >>
    /\ remembers' = {}
    /\ UNCHANGED <<era, day, books, tbot, cron, helper, payer, reporter, reports, counted, flagged, deaths, hurt>>

\* getAggregatedChargesByWindow: the windows that lie in the day.  The last one
\* ends at midnight, and the comparison is strict.
aggregatedCharges(t) == era.metered[t][1]
drift(t) == aggregatedCharges(t) - era.debited[t]

\* runReconciliation: both sides' tenants, and the drifts above the threshold
runReconciliation ==
    /\ Acts("reconcile")
    /\ flagged' = {t \in Tenants : drift(t) > 1 \/ -drift(t) > 1}
    /\ flagged' # flagged
    /\ UNCHANGED <<era, day, books, tbot, cron, helper, payer, reporter, reports, counted, remembers, deaths, hurt>>

\* runStripeUsageReconciliation: what was reported against what Stripe counted.
\* A summary without a row is not looked at.
runStripeUsageReconciliation ==
    /\ Acts("report") /\ reports # {}
    /\ flagged' = {l \in reports : counted[l] # 1}
    /\ flagged' # flagged
    /\ UNCHANGED <<era, day, books, tbot, cron, helper, payer, reporter, reports, counted, remembers, deaths, hurt>>

BillingNext ==
    \/ \E r \in CronRuns : \/ StartRun(r) \/ ReadCharge(r) \/ DebitCharge(r) \/ SettleTenant(r)
                       \/ suspendAllForTenant(r) \/ RunDies(r)
    \/ DayBreaks \/ destroyExpiredBots \/ StripeForgets \/ runReconciliation \/ runStripeUsageReconciliation
    \/ \E t \in Tenants : Purchase(t) \/ GatewaySpends(t) \/ grantSignupCredits(t) \/ expireGrant(t)
    \/ \E h \in {"reactivation", "reaper"} : HelperStep(h)
    \/ \E b \in BotIds, s \in {"active", "suspended"} : setBillingState(b, s)
    \/ \E p \in Payers : StartDividend(p) \/ PayDividend(p)
    \/ \E p \in Reporters : \/ CreateMeterEvent(p) \/ InsertReport(p)
                            \/ \E l \in Lines : BeginReport(p, l)

BillingSpec == BillingInit /\ [][BillingNext]_billingVars

-----------------------------------------------------------------------------
\* Where the deployment suspends, a tenant whose balance the runtime or tier
\* debit of a run used up has no active bot once the runs are over, unless a
\* run died, the tenant paid, or a bot was started since.  Such a tenant is
\* not listed again, so nothing later would suspend it.
ExhaustedIsSuspended ==
    era.hook /\ (\A r \in CronRuns : cron[r].pc = "idle")
        => \A t \in owes : listIds(t, "active") = {}

\* When the dividend runs of a date are over, none died and no credit failed,
\* either nobody or every active tenant has the dividend: the date is then
\* closed for good.
DividendReachesAll ==
    (\A p \in Payers : payer[p] = NoPayer) /\ "dividend" \notin hurt /\ alreadyRan
        => \A t \in activeTenants : dividendRef(t) \in posted

\* Stripe counts the usage of a summary once, however many writers run, unless
\* a writer died between the event and its row.
ReportedOnce == \A l \in Lines \ hurt : counted[l] <= 1

\* The jobs that bill: nobody goes on unpaid, no tenant is passed over by a
\* dividend, no usage is reported twice.
BillingSafe == ExhaustedIsSuspended /\ DividendReachesAll /\ ReportedOnce
=============================================================================
