----------------------------- MODULE Purchases ------------------------------
(***************************************************************************)
(* What Stripe's events do to a tenant: handleWebhookEvent                 *)
(* (src/src/monetization/stripe/webhook.ts) with everything it calls, the  *)
(* new-user bonus and the credit match of the affiliate programme, the     *)
(* promotion engine, the billing hold and the bots' suspension.            *)
(*                                                                         *)
(* Stripe repeats an event until it was answered and may deliver two       *)
(* events in either order.  A delivery is a slot that waits at one await   *)
(* of its handler.  The ledger is the set of entries it has posted, one    *)
(* per reference; posting a reference again throws (module Ledger).        *)
(***************************************************************************)
EXTENDS Integers, FiniteSets, FiniteSetsExt

CONSTANTS
    Tenants,
    Referred,           \* tenants with a referral, all of one referrer
    Signals,            \* tenant -> self-referral signals its signup left
    Workloads,          \* sets of events and coupon redemptions, one is delivered
    Deliveries,         \* handlers that may run together
    MaxReferrals30d,
    TotalUseLimit,      \* of each promotion
    MaxThrows           \* bound on throwing statements and process deaths

\* What the references of the platform's own grants begin with; an object of
\* Stripe has the id of a session, an invoice, a charge or a dispute.
GrantPrefixes == {"affiliate-bonus", "affiliate_match", "bonus_on_purchase", "coupon_unique"}

ASSUME PurchasesAssumption ==
    /\ Referred \subseteq Tenants /\ IsFiniteSet(Referred)
    /\ {MaxReferrals30d, TotalUseLimit, MaxThrows} \subseteq Nat
    /\ \A W \in Workloads : \A e \in W : e.tenant \in Tenants /\ e.object \notin GrantPrefixes

VARIABLES
    workload,           \* the events of this behaviour
    entries,            \* the ledger: records [ref, tenant, amount]
    seenEvents,         \* the replay guard
    customers,          \* tenants with a row in tenant_customers
    holds,              \* tenants with billingHold
    stopped,            \* tenants whose bots are suspended
    vps,                \* vps_subscriptions: status per tenant
    referral,           \* affiliate_referrals: firstPurchaseAt and matchedAt set
    suppressed,         \* tenants whose match the velocity cap suppressed
    fraudEvents,        \* affiliate_fraud_events: <<tenant, verdict>>
    usage,              \* usageCount of each promotion
    redemptions,        \* promotion_redemptions: <<promotion, tenant>>
    redeemed,           \* tenants written into redeemedByTenantId of the unique code
    hook,               \* each delivery: where it waits and its event
    unseenCustomer,     \* ghost: events dropped because no customer was mapped
    lost,               \* ghost: <<what, tenant>> of grants cut off by a throw
    raced,              \* ghost: "code" or "match" once two grants of it overlapped
    throws

tables == <<customers, holds, stopped, vps>>
affiliate == <<referral, suppressed, fraudEvents>>
promotion == <<usage, redemptions, redeemed>>
purchaseVars == <<workload, entries, seenEvents, tables, affiliate, promotion, hook,
                  unseenCustomer, lost, raced, throws>>

Promotions == {"bonus_on_purchase", "coupon_unique"}

Free == [at |-> "idle", ev |-> "none", promo |-> "none"]

PurchasesInit ==
    /\ workload \in Workloads
    /\ entries = {} /\ seenEvents = {} /\ customers = {} /\ holds = {} /\ stopped = {}
    /\ vps = [t \in Tenants |-> "none"]
    /\ referral = [t \in Referred |-> [first |-> FALSE, matched |-> FALSE]]
    /\ suppressed = {} /\ fraudEvents = {}
    /\ usage = [p \in Promotions |-> 0]
    /\ redemptions = {} /\ redeemed = {} /\ raced = {}
    /\ hook = [d \in Deliveries |-> Free]
    /\ unseenCustomer = {} /\ lost = {} /\ throws = 0

Of(d) == hook[d].ev
TenantOf(d) == hook[d].ev.tenant
Posted(ref) == \E n \in entries : n.ref = ref
Balance(t) == MapThenSumSet(LAMBDA n : n.amount, {n \in entries : n.tenant = t})

\* A delivery goes on from one await to the next.
Step(d, from, to) ==
    /\ hook[d].at = from
    /\ hook' = [hook EXCEPT ![d].at = to]

\* Another delivery has read what d reads now and has not written yet.
Overlapped(d, stages) == \E o \in Deliveries \ {d} : hook[o].at \in stages

Kept == UNCHANGED <<workload, seenEvents, unseenCustomer, lost, raced, throws>>

-----------------------------------------------------------------------------
(* Arrival                                                                  *)

\* The first await of each event type's branch.
Branch(type) ==
    CASE type = "checkout.session.completed" -> "customer"
      [] type \in {"invoice.payment_failed", "invoice.payment_succeeded", "charge.refunded",
                   "charge.dispute.created", "charge.dispute.closed"} -> "mapping"
      [] type \in {"customer.subscription.updated", "customer.subscription.deleted"} -> "vps"
      [] OTHER -> "seen"

\* What each branch awaits next, behind the customer lookup ("mapping"), a
\* reference that was posted before ("known") and the ledger call ("post").
invoicePaid(e, at) ==
    CASE at = "mapping" -> IF e.amount = 0 THEN "seen" ELSE "reference"
      [] at = "known" -> "seen"
      [] at = "post" -> "reactivate"

invoiceFailed(at) == "suspend"

chargeRefunded(e, at) == IF at = "mapping" /\ e.amount > 0 THEN "reference" ELSE "seen"

\* A dispute freezes, debits and suspends; a debit made before is skipped alone.
disputeCreated(at) == IF at = "mapping" THEN "hold" ELSE "suspend"

\* A dispute that was lost only tells the tenant.
disputeClosed(e, at) ==
    IF at = "mapping" THEN (IF e.won THEN "hold" ELSE "seen") ELSE "reactivate"

Behind(e, at) ==
    CASE e.type = "checkout.session.completed" -> IF at = "post" THEN "bonus" ELSE "seen"
      [] e.type = "invoice.payment_succeeded" -> invoicePaid(e, at)
      [] e.type = "invoice.payment_failed" -> invoiceFailed(at)
      [] e.type = "charge.refunded" -> chargeRefunded(e, at)
      [] e.type = "charge.dispute.created" -> disputeCreated(at)
      [] e.type = "charge.dispute.closed" -> disputeClosed(e, at)

\* The guard's row for the event.
isDuplicate(e) == e \in seenEvents

\* Mutation: the event is marked before it is processed.
MarkFirst(d, e) ==
    /\ hook[d].at = "idle" /\ e \in workload /\ e.type # "coupon_redeem" /\ ~isDuplicate(e)
    /\ hook' = [hook EXCEPT ![d] = [Free EXCEPT !.at = Branch(e.type), !.ev = e]]
    /\ seenEvents' = seenEvents \cup {e}
    /\ UNCHANGED <<workload, unseenCustomer, lost, raced, throws, entries, tables, affiliate, promotion>>

\* The replay guard: an event that was marked is not handled again.
handleWebhookEvent(d, e) ==
    /\ hook[d].at = "idle" /\ e \in workload /\ e.type # "coupon_redeem" /\ ~isDuplicate(e)
    /\ hook' = [hook EXCEPT ![d] = [Free EXCEPT !.at = Branch(e.type), !.ev = e]]
    /\ Kept /\ UNCHANGED <<entries, tables, affiliate, promotion>>

\* markSeen is the last statement of the handler.
markSeen(d) ==
    /\ hook[d].at = "seen"
    /\ seenEvents' = seenEvents \cup {Of(d)}
    /\ hook' = [hook EXCEPT ![d] = Free]
    /\ UNCHANGED <<workload, unseenCustomer, lost, raced, throws, entries, tables, affiliate, promotion>>

-----------------------------------------------------------------------------
(* The ledger                                                               *)

\* What the handler posts for an event, under which reference.
Ref(e) == IF e.type = "charge.dispute.closed" THEN <<e.object, "reversal">> ELSE <<e.object, "post">>
Amount(e) == IF e.type \in {"charge.refunded", "charge.dispute.created"} THEN -2 ELSE 2

\* Mutation: the ledger's own duplicate check is all there is.
NoReferenceCheck(d) ==
    /\ Step(d, "reference", "post")
    /\ Kept /\ UNCHANGED <<entries, tables, affiliate, promotion>>

\* hasReferenceId: an event whose reference is posted skips the rest of its
\* branch; a dispute goes on behind the ledger call.
hasReferenceId(d) ==
    LET e == Of(d) IN
    /\ hook[d].at = "reference"
    /\ hook' = [hook EXCEPT ![d].at =
         IF Posted(Ref(e)) THEN Behind(e, "known") ELSE "post"]
    /\ Kept /\ UNCHANGED <<entries, tables, affiliate, promotion>>

\* credit or debit; a purchase goes on to the grants it triggers.
postEvent(d) ==
    LET e == Of(d) IN
    /\ hook[d].at = "post" /\ ~Posted(Ref(e))
    /\ entries' = entries \cup {[ref |-> Ref(e), tenant |-> e.tenant, amount |-> Amount(e)]}
    /\ hook' = [hook EXCEPT ![d].at = Behind(e, "post")]
    /\ Kept /\ UNCHANGED <<tables, affiliate, promotion>>

-----------------------------------------------------------------------------
(* The branches                                                             *)

\* A tenant's row in tenant_customers, created or updated.
upsert(t) == customers \cup {t}

getByProcessorCustomerId(t) == t \in customers

\* checkout.session.completed: the customer is mapped; a session of zero
\* amount is done.
checkoutCompleted(d) ==
    /\ Step(d, "customer", IF Of(d).amount = 0 THEN "seen" ELSE "reference")
    /\ customers' = upsert(TenantOf(d))
    /\ Kept /\ UNCHANGED <<entries, holds, stopped, vps, affiliate, promotion>>

\* Every other money event looks its tenant up by the customer id; without a
\* row it is not handled, and is marked as seen all the same.
lookupCustomer(d) ==
    LET e == Of(d) IN
    /\ hook[d].at = "mapping"
    /\ \/ /\ ~getByProcessorCustomerId(e.tenant)
          /\ hook' = [hook EXCEPT ![d].at = "seen"]
          /\ unseenCustomer' = unseenCustomer \cup {e}
       \/ /\ getByProcessorCustomerId(e.tenant)
          /\ hook' = [hook EXCEPT ![d].at = Behind(e, "mapping")]
          /\ UNCHANGED unseenCustomer
    /\ UNCHANGED <<workload, seenEvents, lost, raced, throws, entries, tables, affiliate, promotion>>

\* charge.dispute.created sets the billing hold, closed as won lifts it.
setBillingHold(d) ==
    /\ Step(d, "hold", IF Of(d).amount > 0 THEN "reference" ELSE Behind(Of(d), "known"))
    /\ holds' = IF Of(d).type = "charge.dispute.created" THEN holds \cup {TenantOf(d)}
                ELSE holds \ {TenantOf(d)}
    /\ Kept /\ UNCHANGED <<entries, customers, stopped, vps, affiliate, promotion>>

\* suspendAllForTenant, then an email nobody waits for.
suspendAllForTenant(d) ==
    /\ Step(d, "suspend", "seen")
    /\ stopped' = stopped \cup {TenantOf(d)}
    /\ Kept /\ UNCHANGED <<entries, customers, holds, vps, affiliate, promotion>>

\* checkReactivation: suspended bots start again if the balance is positive.
checkReactivation(d) ==
    /\ Step(d, "reactivate", "seen")
    /\ stopped' = IF Balance(TenantOf(d)) > 0 THEN stopped \ {TenantOf(d)} ELSE stopped
    /\ Kept /\ UNCHANGED <<entries, customers, holds, vps, affiliate, promotion>>

\* customer.subscription.created and updated, for a VPS: the row follows the
\* subscription's status; only an active one creates it.
subscriptionUpdated(d) ==
    LET e == Of(d) IN
    /\ Step(d, "vps", "seen") /\ e.type = "customer.subscription.updated"
    /\ customers' = upsert(e.tenant)
    /\ vps' = IF vps[e.tenant] = "none" /\ e.status # "active" THEN vps
              ELSE [vps EXCEPT ![e.tenant] = e.status]
    /\ Kept /\ UNCHANGED <<entries, holds, stopped, affiliate, promotion>>

subscriptionDeleted(d) ==
    LET e == Of(d) IN
    /\ Step(d, "vps", "seen") /\ e.type = "customer.subscription.deleted"
    /\ vps' = IF vps[e.tenant] = "none" THEN vps ELSE [vps EXCEPT ![e.tenant] = "canceled"]
    /\ Kept /\ UNCHANGED <<entries, customers, holds, stopped, affiliate, promotion>>

-----------------------------------------------------------------------------
(* grantNewUserBonus                                                        *)

BonusRef(t) == <<"affiliate-bonus", t>>

\* The tenant's row in affiliate_referrals, if it was referred.
getReferral(t) == {referral[u] : u \in Referred \cap {t}}

\* Nothing for a tenant without a referral, after the first purchase, or with
\* the bonus posted.
bonusEligible(t) == (\E r \in getReferral(t) : ~r.first) /\ ~Posted(BonusRef(t))

\* Mutation: the match runs before the bonus.
MatchBeforeBonus(d) ==
    /\ Step(d, "bonus", "match")
    /\ Kept /\ UNCHANGED <<entries, tables, affiliate, promotion>>

grantNewUserBonus(d) ==
    /\ Step(d, "bonus", IF bonusEligible(TenantOf(d)) THEN "firstPurchase" ELSE "match")
    /\ Kept /\ UNCHANGED <<entries, tables, affiliate, promotion>>

\* markFirstPurchase comes before the credit.
markFirstPurchase(d) ==
    /\ Step(d, "firstPurchase", "bonusPost")
    /\ referral' = [referral EXCEPT ![TenantOf(d)].first = TRUE]
    /\ Kept /\ UNCHANGED <<entries, tables, suppressed, fraudEvents, promotion>>

postBonus(d) ==
    /\ Step(d, "bonusPost", "match") /\ ~Posted(BonusRef(TenantOf(d)))
    /\ entries' = entries \cup {[ref |-> BonusRef(TenantOf(d)), tenant |-> TenantOf(d), amount |-> 1]}
    /\ Kept /\ UNCHANGED <<tables, affiliate, promotion>>

-----------------------------------------------------------------------------
(* processAffiliateCreditMatch                                              *)

MatchRef(t) == <<"affiliate_match", t>>
Purchased(t) == {n \in entries : n.tenant = t /\ n.ref[2] = "post" /\ n.amount > 0}

\* checkSelfReferral: one shared Stripe customer or two signals block.
checkSelfReferral(signals) ==
    IF "same_stripe_customer" \in signals \/ Cardinality(signals) >= 2 THEN "blocked"
    ELSE IF signals # {} THEN "flagged" ELSE "clean"

\* getPayoutCount30d: referrals with matchedAt set.
PayoutCount == Cardinality({t \in Referred : referral[t].matched})

VelocityCapped == PayoutCount >= MaxReferrals30d

\* The reads in front of the grant: referral, first purchase, fraud verdict,
\* velocity cap, reference.
processAffiliateCreditMatch(d) ==
    LET t == TenantOf(d)
        first == (\E r \in getReferral(t) : ~r.matched) /\ Cardinality(Purchased(t)) = 1
        verdict == checkSelfReferral(Signals[t])
    IN
    /\ hook[d].at = "match"
    /\ fraudEvents' = IF first /\ verdict # "clean" THEN fraudEvents \cup {<<t, verdict>>} ELSE fraudEvents
    /\ \/ /\ ~first \/ verdict = "blocked"
          /\ hook' = [hook EXCEPT ![d].at = "promo", ![d].promo = "bonus_on_purchase"]
          /\ UNCHANGED <<referral, suppressed>>
       \/ /\ first /\ verdict # "blocked" /\ VelocityCapped
          /\ suppressed' = suppressed \cup {t}
          /\ referral' = [referral EXCEPT ![t].first = TRUE]
          /\ hook' = [hook EXCEPT ![d].at = "promo", ![d].promo = "bonus_on_purchase"]
       \/ /\ first /\ verdict # "blocked" /\ ~VelocityCapped
          /\ hook' = [hook EXCEPT ![d].at = IF Posted(MatchRef(t)) THEN "promo" ELSE "matchPost",
                                  ![d].promo = "bonus_on_purchase"]
          /\ UNCHANGED <<referral, suppressed>>
    /\ raced' = IF Overlapped(d, {"matchPost", "matchRecord"}) THEN raced \cup {"match"} ELSE raced
    /\ UNCHANGED <<workload, seenEvents, unseenCustomer, lost, throws, entries, tables, promotion>>

\* The referrer is credited.
postMatch(d) ==
    /\ Step(d, "matchPost", "matchRecord") /\ ~Posted(MatchRef(TenantOf(d)))
    /\ entries' = entries \cup {[ref |-> MatchRef(TenantOf(d)), tenant |-> "referrer", amount |-> 1]}
    /\ Kept /\ UNCHANGED <<tables, affiliate, promotion>>

\* markFirstPurchase and recordMatch on the referral.
recordMatch(d) ==
    /\ Step(d, "matchRecord", "promo")
    /\ referral' = [referral EXCEPT ![TenantOf(d)] = [first |-> TRUE, matched |-> TRUE]]
    /\ Kept /\ UNCHANGED <<entries, tables, suppressed, fraudEvents, promotion>>

-----------------------------------------------------------------------------
(* The promotion engine                                                     *)

\* One redemption per tenant: perUserLimit is 1.
PromoRef(p, t) == <<p, t>>

\* evaluateAndGrant for a coupon a tenant enters.
redeemCoupon(d, e) ==
    /\ hook[d].at = "idle" /\ e \in workload /\ e.type = "coupon_redeem" /\ e \notin seenEvents
    /\ hook' = [hook EXCEPT ![d] = [at |-> "promo", ev |-> e, promo |-> "coupon_unique"]]
    /\ Kept /\ UNCHANGED <<entries, tables, affiliate, promotion>>

\* Where the caller goes on behind the engine.
BehindPromo(d) == IF hook[d].promo = "coupon_unique" THEN "seen" ELSE "reactivate"

\* The unique code has no redeemedAt.
findUnredeemed == redeemed = {}

countByTenant(p, t) == Cardinality({x \in redemptions : x = <<p, t>>})

\* The reads of #tryGrant: per-user limit, reference, the unique code unused.
tryGrant(d) ==
    LET t == TenantOf(d)
        p == hook[d].promo
        eligible == /\ countByTenant(p, t) < 1
                    /\ ~Posted(PromoRef(p, t))
                    /\ p = "coupon_unique" => findUnredeemed
    IN
    /\ Step(d, "promo", IF eligible THEN "promoUse" ELSE BehindPromo(d))
    /\ raced' = IF p = "coupon_unique" /\ Overlapped(d, {"promoUse", "promoPost", "promoRecord", "promoCode"})
                THEN raced \cup {"code"} ELSE raced
    /\ UNCHANGED <<workload, seenEvents, unseenCustomer, lost, throws, entries, tables, affiliate, promotion>>

\* incrementUsageIfAllowed, atomic and before the credit.
incrementUsageIfAllowed(d) ==
    LET p == hook[d].promo IN
    /\ Step(d, "promoUse", IF usage[p] < TotalUseLimit THEN "promoPost" ELSE BehindPromo(d))
    /\ usage' = IF usage[p] < TotalUseLimit THEN [usage EXCEPT ![p] = @ + 1] ELSE usage
    /\ Kept /\ UNCHANGED <<entries, tables, affiliate, redemptions, redeemed>>

postPromo(d) ==
    LET p == hook[d].promo IN
    /\ Step(d, "promoPost", "promoRecord") /\ ~Posted(PromoRef(p, TenantOf(d)))
    /\ entries' = entries \cup {[ref |-> PromoRef(p, TenantOf(d)), tenant |-> TenantOf(d), amount |-> 1]}
    /\ Kept /\ UNCHANGED <<tables, affiliate, promotion>>

recordRedemption(d) ==
    LET p == hook[d].promo IN
    /\ Step(d, "promoRecord", IF p = "coupon_unique" THEN "promoCode" ELSE BehindPromo(d))
    /\ redemptions' = redemptions \cup {<<p, TenantOf(d)>>}
    /\ Kept /\ UNCHANGED <<entries, tables, affiliate, usage, redeemed>>

\* The code is marked without a look at whether somebody else has.
redeemCode(d) ==
    /\ Step(d, "promoCode", "seen")
    /\ redeemed' = redeemed \cup {TenantOf(d)}
    /\ Kept /\ UNCHANGED <<entries, tables, affiliate, usage, redemptions>>

-----------------------------------------------------------------------------
(* Throws                                                                   *)

PromoStages == {"promo", "promoUse", "promoPost", "promoRecord", "promoCode"}

\* What an interrupted grant leaves behind.
Cut(d) ==
    CASE hook[d].at = "bonusPost" -> {<<"bonus", TenantOf(d)>>}
      [] hook[d].at = "matchRecord" -> {<<"match", TenantOf(d)>>}
      [] hook[d].at \in {"promoRecord", "promoCode"} -> {<<"code", TenantOf(d)>>}
      [] OTHER -> {}

\* A throw inside the engine is caught by the purchase branch; any other ends
\* the delivery unmarked, as the death of the process does.
Throws(d) ==
    /\ lost' = lost \cup Cut(d)
    /\ hook' = [hook EXCEPT ![d] = IF @.at \in PromoStages /\ @.promo = "bonus_on_purchase"
                                   THEN [@ EXCEPT !.at = "reactivate"] ELSE Free]
    /\ UNCHANGED <<workload, seenEvents, unseenCustomer, raced, entries, tables, affiliate, promotion>>

\* Posting a reference that is in the ledger throws.
DuplicateReference(d) ==
    /\ \/ hook[d].at = "post" /\ Posted(Ref(Of(d)))
       \/ hook[d].at = "bonusPost" /\ Posted(BonusRef(TenantOf(d)))
       \/ hook[d].at = "matchPost" /\ Posted(MatchRef(TenantOf(d)))
       \/ hook[d].at = "promoPost" /\ Posted(PromoRef(hook[d].promo, TenantOf(d)))
    /\ Throws(d) /\ UNCHANGED throws

\* A statement fails or the process dies.
Fail(d) ==
    /\ hook[d].at # "idle" /\ throws < MaxThrows
    /\ throws' = throws + 1
    /\ Throws(d)

HookStep(d) ==
    \/ hasReferenceId(d) \/ postEvent(d) \/ markSeen(d)
    \/ checkoutCompleted(d) \/ lookupCustomer(d) \/ setBillingHold(d)
    \/ suspendAllForTenant(d) \/ checkReactivation(d)
    \/ subscriptionUpdated(d) \/ subscriptionDeleted(d)
    \/ grantNewUserBonus(d) \/ markFirstPurchase(d) \/ postBonus(d)
    \/ processAffiliateCreditMatch(d) \/ postMatch(d) \/ recordMatch(d)
    \/ tryGrant(d) \/ incrementUsageIfAllowed(d) \/ postPromo(d) \/ recordRedemption(d) \/ redeemCode(d)
    \/ DuplicateReference(d)

PurchasesNext ==
    \E d \in Deliveries :
        \/ \E e \in workload : handleWebhookEvent(d, e) \/ redeemCoupon(d, e)
        \/ HookStep(d) \/ Fail(d)

PurchasesSpec == PurchasesInit /\ [][PurchasesNext]_purchaseVars

\* A handler goes on, and Stripe repeats some event while one is
\* unanswered.
PurchasesFairness ==
    /\ \A d \in Deliveries : WF_purchaseVars(HookStep(d))
    /\ WF_purchaseVars(\E d \in Deliveries, e \in workload : handleWebhookEvent(d, e) \/ redeemCoupon(d, e))

-----------------------------------------------------------------------------
(* Properties                                                               *)

PurchasesTypeOK ==
    /\ workload \in Workloads /\ seenEvents \subseteq workload /\ unseenCustomer \subseteq workload
    /\ customers \cup holds \cup stopped \cup suppressed \cup redeemed \subseteq Tenants
    /\ referral \in [Referred -> [first : BOOLEAN, matched : BOOLEAN]]
    /\ usage \in [Promotions -> 0..TotalUseLimit]
    /\ redemptions \subseteq Promotions \X Tenants
    /\ raced \subseteq {"code", "match"} /\ throws \in 0..MaxThrows

MoneyEvents == {"checkout.session.completed", "invoice.payment_succeeded", "charge.refunded",
                "charge.dispute.created"}

\* An event Stripe will not send again has its ledger entry, unless its
\* customer was unknown when it was handled: the mark comes last, whatever
\* throws or dies in between and however often the event is delivered.
SeenIsPosted ==
    \A e \in seenEvents :
        (e.type \in MoneyEvents /\ e.amount > 0 /\ e \notin unseenCustomer) => Posted(Ref(e))

\* A referred tenant whose first purchase is marked has the new-user bonus,
\* unless the handler was cut off between the mark and the credit: the two are
\* separate writes, and no later purchase makes up for a missing bonus.
BonusFollowsPurchase ==
    \A t \in Referred :
        \/ ~referral[t].first \/ Posted(BonusRef(t)) \/ <<"bonus", t>> \in lost
        \/ \E d \in Deliveries : hook[d].at = "bonusPost" /\ TenantOf(d) = t

Matches == {n \in entries : n.ref[1] = "affiliate_match"}

\* The referrer is paid for at most the capped number of referrals in the
\* window, unless two purchases read the count together or a match was cut off
\* before it was recorded: the count is of recorded matches only.
MatchesCapped ==
    Cardinality(Matches) > MaxReferrals30d => "match" \in raced \/ \E t \in Referred : <<"match", t>> \in lost

CodeGrants == {n \in entries : n.ref[1] = "coupon_unique"}

\* A unique code pays once, unless two redemptions overlapped or one was cut
\* off before the code was marked.
CodePaysOnce ==
    Cardinality(CodeGrants) > 1 => "code" \in raced \/ \E t \in Tenants : <<"code", t>> \in lost

\* What a purchase sets off is paid as its records say: the bonus to the
\* referred tenant, the match to the referrer and the unique code.
GrantsFollowPurchases == PurchasesTypeOK /\ BonusFollowsPurchase /\ MatchesCapped /\ CodePaysOnce

\* Every event is answered in the end: no branch, however it was cut off
\* before, throws for ever.
EveryEventAnswered == <>(workload \subseteq seenEvents)
=============================================================================
