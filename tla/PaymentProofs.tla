---------------------------- MODULE PaymentProofs -----------------------------
(***************************************************************************)
(* Proofs about Purchases for every set of tenants, referrals and events,  *)
(* number of concurrent deliveries, velocity cap, use limit and bound on   *)
(* throws; then about CryptoCharges for every set of transfers and hosted  *)
(* charges, number of calls, charges, retries and deaths.                  *)
(***************************************************************************)
EXTENDS Purchases, CryptoCharges, FiniteSetTheorems, TLAPS

-----------------------------------------------------------------------------
(* The inductive invariant                                                  *)

Stages == {"idle", "customer", "mapping", "vps", "hold", "reference", "post", "reactivate", "suspend",
           "bonus", "firstPurchase", "bonusPost", "match", "matchPost", "matchRecord", "seen"} \cup PromoStages

Hooks == [at : Stages, ev : workload \cup {"none"}, promo : Promotions \cup {"none"}]

Disputes == {"charge.dispute.created", "charge.dispute.closed"}
Looked == {"invoice.payment_failed", "invoice.payment_succeeded", "charge.refunded"} \cup Disputes
Posting == MoneyEvents \cup {"charge.dispute.closed"}

\* A delivery holds an event, of a type that comes to where it waits.
HookFits ==
    \A d \in Deliveries :
        /\ hook[d].at # "idle" => Of(d) \in workload
        /\ hook[d].at = "customer" => Of(d).type = "checkout.session.completed"
        /\ hook[d].at = "mapping" => Of(d).type \in Looked
        /\ hook[d].at = "hold" => Of(d).type \in Disputes
        /\ hook[d].at \in {"reference", "post"} => Of(d).type \in Posting
        /\ hook[d].at \in {"matchPost", "matchRecord"} => hook[d].promo = "bonus_on_purchase"
        /\ hook[d].at \in PromoStages => hook[d].promo \in Promotions
        /\ hook[d].at = "promoCode" => hook[d].promo = "coupon_unique"

HooksOK == hook \in [Deliveries -> Hooks] /\ HookFits

\* Where the entry of an event is still to be made.
Unposted == {"idle", "customer", "mapping", "hold", "reference", "post"}

Settled(e) == (e.type \in MoneyEvents /\ e.amount > 0 /\ e \notin unseenCustomer) => Posted(Ref(e))

\* A delivery has got past the posting only with the entry made.
PastIsPosted == \A d \in Deliveries : hook[d].at \notin Unposted => Settled(Of(d))

\* A delivery comes to the match when the bonus is paid or was dealt with by an
\* earlier purchase.
BonusFirst ==
    \A d \in Deliveries :
        /\ hook[d].at \in {"firstPurchase", "bonusPost", "matchPost", "matchRecord"} => TenantOf(d) \in Referred
        /\ hook[d].at \in {"match", "matchPost", "matchRecord"} /\ TenantOf(d) \in Referred =>
              referral[TenantOf(d)].first \/ Posted(BonusRef(TenantOf(d)))

MatchStages == {"matchPost", "matchRecord"}
MatchEntry(t) == [ref |-> MatchRef(t), tenant |-> "referrer", amount |-> 1]
MatchUndisturbed == "match" \notin raced /\ \A t \in Referred : <<"match", t>> \notin lost

\* Undisturbed, one delivery at a time is between reading the count and
\* recording its match, and every match but that one's is in the count.
MatchesCounted ==
    /\ \A n \in Matches : \E t \in Referred : n = MatchEntry(t)
    /\ MatchUndisturbed =>
         /\ \A d, o \in Deliveries : hook[d].at \in MatchStages /\ hook[o].at \in MatchStages => d = o
         /\ \A t \in Referred : MatchEntry(t) \in entries =>
              \/ referral[t].matched
              \/ \E d \in Deliveries : hook[d].at = "matchRecord" /\ TenantOf(d) = t
         /\ \A d \in Deliveries : hook[d].at = "matchPost" => ~VelocityCapped

CodeStages == {"promoUse", "promoPost", "promoRecord", "promoCode"}
Coupon(d) == hook[d].at \in CodeStages /\ hook[d].promo = "coupon_unique"
CodeUndisturbed == "code" \notin raced /\ \A t \in Tenants : <<"code", t>> \notin lost

\* Undisturbed, one redemption at a time is between reading and marking the
\* code, and reads it as unused only if it was not paid.
CodeMarked ==
    CodeUndisturbed =>
        /\ \A d, o \in Deliveries : Coupon(d) /\ Coupon(o) => d = o
        /\ CodeGrants # {} =>
              redeemed # {} \/ \E d \in Deliveries : Coupon(d) /\ hook[d].at \in {"promoRecord", "promoCode"}
        /\ \A d \in Deliveries : Coupon(d) /\ hook[d].at \in {"promoUse", "promoPost"} => redeemed = {}
        /\ \A m, n \in CodeGrants : m = n

PurchasesInv ==
    /\ PurchasesTypeOK /\ HooksOK
    /\ SeenIsPosted /\ PastIsPosted
    /\ BonusFollowsPurchase /\ BonusFirst
    /\ MatchesCapped /\ MatchesCounted
    /\ CodeMarked

-----------------------------------------------------------------------------
(* Where a step leads                                                       *)

\* Initially nothing has happened.
LEMMA PurchasesInvInit == PurchasesInit => PurchasesInv
  <1>. SUFFICES ASSUME PurchasesInit PROVE PurchasesInv
    OBVIOUS
  <1>1. MaxReferrals30d \in Nat /\ TotalUseLimit \in Nat /\ MaxThrows \in Nat
    <2>1. {MaxReferrals30d, TotalUseLimit, MaxThrows} \subseteq Nat
      BY PurchasesAssumption
    <2>. QED
      BY <2>1
  <1>2. PurchasesTypeOK
    BY <1>1 DEF PurchasesInit, PurchasesTypeOK
  <1>3. HooksOK
    BY DEF PurchasesInit, HooksOK, HookFits, Hooks, Free, Stages, PromoStages
  <1>4. SeenIsPosted /\ PastIsPosted /\ BonusFollowsPurchase /\ BonusFirst
    BY DEF PurchasesInit, SeenIsPosted, PastIsPosted, BonusFollowsPurchase, BonusFirst, Free, Unposted
  <1>5. Matches = {} /\ CodeGrants = {}
    BY DEF PurchasesInit, Matches, CodeGrants
  <1>6. MatchesCapped
    BY <1>1, <1>5, FS_EmptySet DEF MatchesCapped
  <1>7. MatchesCounted /\ CodeMarked
    BY <1>5 DEF MatchesCounted, CodeMarked, PurchasesInit, Free, MatchStages, Coupon, CodeStages
  <1>. QED
    BY <1>2, <1>3, <1>4, <1>6, <1>7 DEF PurchasesInv

\* One delivery moves, the others stay, and a step on its way keeps its event
\* and its promotion.
Moves(d) == hook' \in [Deliveries -> Hooks'] /\ \A o \in Deliveries \ {d} : hook'[o] = hook[o]

MovesTo(d, to) ==
    /\ Moves(d)
    /\ hook'[d].at = to /\ hook'[d].ev = hook[d].ev /\ hook'[d].promo = hook[d].promo

\* A Step moves its delivery and no other.
LEMMA StepMoves ==
    ASSUME HooksOK, workload' = workload, NEW d \in Deliveries, NEW from, NEW to \in Stages, Step(d, from, to)
    PROVE  hook[d].at = from /\ MovesTo(d, to)
  BY DEF HooksOK, Hooks, Step, MovesTo, Moves

\* Setting where a delivery waits moves it and no other.
LEMMA PointMoves ==
    ASSUME HooksOK, workload' = workload, NEW d \in Deliveries, NEW to \in Stages,
           hook' = [hook EXCEPT ![d].at = to]
    PROVE  MovesTo(d, to)
  BY DEF HooksOK, Hooks, MovesTo, Moves

\* The same for the step that starts the promotion of a purchase.
MovesOn(d, to, promo) == hook' = [hook EXCEPT ![d].at = to, ![d].promo = promo]

\* Setting where a delivery waits and its promotion moves it and no other.
LEMMA PromoMoves ==
    ASSUME HooksOK, workload' = workload, NEW d \in Deliveries, NEW to \in Stages,
           NEW promo \in Promotions \cup {"none"}, MovesOn(d, to, promo)
    PROVE  Moves(d) /\ hook'[d].at = to /\ hook'[d].ev = hook[d].ev /\ hook'[d].promo = promo
  <1>. DEFINE once == [hook EXCEPT ![d].at = to]
  <1>1. /\ once \in [Deliveries -> Hooks] /\ once[d].at = to /\ once[d].ev = hook[d].ev
        /\ \A o \in Deliveries \ {d} : once[o] = hook[o]
    BY DEF HooksOK, Hooks
  <1>2. hook' = [once EXCEPT ![d].promo = promo]
    BY DEF MovesOn
  <1>. HIDE DEF once
  <1>. QED
    BY <1>1, <1>2 DEF Hooks, Moves

\* Where an event of each type goes first, behind the customer lookup and behind
\* the ledger.
LEMMA Branches ==
    ASSUME NEW type
    PROVE  /\ Branch(type) \in {"customer", "mapping", "vps", "seen"}
           /\ Branch(type) = "customer" => type = "checkout.session.completed"
           /\ Branch(type) = "mapping" => type \in Looked
           /\ type \in MoneyEvents => Branch(type) \in {"customer", "mapping"}
  BY DEF Branch, Looked, Disputes, MoneyEvents

\* Behind the customer lookup an event of value goes on to the ledger.
LEMMA BehindLookup ==
    ASSUME NEW e, e.type \in Looked
    PROVE  /\ Behind(e, "mapping") \in {"seen", "reference", "suspend", "hold"}
           /\ Behind(e, "mapping") = "hold" => e.type \in Disputes
           /\ Behind(e, "mapping") = "reference" => e.type \in Posting
           /\ e.type \in MoneyEvents /\ e.amount > 0 => Behind(e, "mapping") \in {"reference", "hold"}
  <1>1. CASE e.type = "invoice.payment_succeeded"
    BY <1>1 DEF Behind, invoicePaid, Disputes, Posting, MoneyEvents
  <1>2. CASE e.type = "invoice.payment_failed"
    BY <1>2 DEF Behind, invoiceFailed, Disputes, Posting, MoneyEvents
  <1>3. CASE e.type = "charge.refunded"
    BY <1>3 DEF Behind, chargeRefunded, Disputes, Posting, MoneyEvents
  <1>4. CASE e.type \in Disputes
    BY <1>4 DEF Behind, disputeCreated, disputeClosed, Disputes, Posting, MoneyEvents
  <1>. QED
    BY <1>1, <1>2, <1>3, <1>4 DEF Looked

\* Behind the ledger no branch posts again.
LEMMA BehindLedger ==
    ASSUME NEW e, e.type \in Posting, NEW at \in {"known", "post"}
    PROVE  Behind(e, at) \in {"seen", "bonus", "reactivate", "suspend"}
  BY DEF Behind, invoicePaid, chargeRefunded, disputeCreated, disputeClosed, Posting, MoneyEvents

\* Posts, marks and moves of a delivery keep every delivery where its event may be.
LEMMA HooksKept ==
    ASSUME HooksOK, workload' = workload, NEW d \in Deliveries, Moves(d),
           LET h == hook'[d] IN
           /\ h.at # "idle" => h.ev \in workload
           /\ h.at = "customer" => h.ev.type = "checkout.session.completed"
           /\ h.at = "mapping" => h.ev.type \in Looked
           /\ h.at = "hold" => h.ev.type \in Disputes
           /\ h.at \in {"reference", "post"} => h.ev.type \in Posting
           /\ h.at \in {"matchPost", "matchRecord"} => h.promo = "bonus_on_purchase"
           /\ h.at \in PromoStages => h.promo \in Promotions
           /\ h.at = "promoCode" => h.promo = "coupon_unique"
    PROVE  HooksOK'
  BY DEF HooksOK, HookFits, Hooks, Moves, Of, MatchStages

\* A delivery on its way to a stage that asks for nothing in particular.
Plain == {"vps", "reactivate", "suspend", "bonus", "firstPurchase", "bonusPost", "match", "seen"}

\* Going on to such a stage keeps every delivery where its event may be.
LEMMA PlainKept ==
    ASSUME HooksOK, workload' = workload, NEW d \in Deliveries, hook[d].at # "idle",
           NEW to \in Plain, MovesTo(d, to)
    PROVE  HooksOK'
  <1>1. hook'[d].at \in Plain /\ hook'[d].ev \in workload
    BY DEF MovesTo, HooksOK, HookFits, Of
  <1>. QED
    BY <1>1, HooksKept DEF MovesTo, Plain, PromoStages

\* The branches of the events and their posting.
EventStep(d) ==
    \/ \E e \in workload : handleWebhookEvent(d, e)
    \/ hasReferenceId(d) \/ postEvent(d) \/ markSeen(d)
    \/ checkoutCompleted(d) \/ lookupCustomer(d) \/ setBillingHold(d)
    \/ suspendAllForTenant(d) \/ checkReactivation(d)
    \/ subscriptionUpdated(d) \/ subscriptionDeleted(d)

\* The grants a purchase or a coupon leads to.
GrantStep(d) ==
    \/ \E e \in workload : redeemCoupon(d, e)
    \/ grantNewUserBonus(d) \/ markFirstPurchase(d) \/ postBonus(d)
    \/ processAffiliateCreditMatch(d) \/ postMatch(d) \/ recordMatch(d)
    \/ tryGrant(d) \/ incrementUsageIfAllowed(d) \/ postPromo(d) \/ recordRedemption(d) \/ redeemCode(d)

\* Where an event's step leads, with what it has made sure of on the way.
Later == {"seen", "bonus", "reactivate", "suspend"}
GoesOn(d) == \E to \in Later : MovesTo(d, to)

Arrives(d) ==
    /\ hook[d].at = "idle" /\ Moves(d) /\ hook'[d].ev \in workload
    /\ hook'[d].at = Branch(hook'[d].ev.type) /\ hook'[d].promo = "none"
Ends(d) == hook[d].at = "seen" /\ Moves(d) /\ hook'[d] = Free
Known(d) == hook[d].at = "reference" /\ Posted(Ref(Of(d))) /\ GoesOn(d)
Unknown(d) == hook[d].at = "reference" /\ MovesTo(d, "post")
Posts(d) == hook[d].at = "post" /\ GoesOn(d) /\ \E n \in entries' : n.ref = Ref(Of(d))
Maps(d) == hook[d].at = "customer" /\ MovesTo(d, IF Of(d).amount = 0 THEN "seen" ELSE "reference")
Drops(d) == hook[d].at = "mapping" /\ MovesTo(d, "seen") /\ Of(d) \in unseenCustomer'
LooksUp(d) == hook[d].at = "mapping" /\ MovesTo(d, Behind(Of(d), "mapping"))
Holds(d) == hook[d].at = "hold" /\ MovesTo(d, "reference")
HoldsOnly(d) == hook[d].at = "hold" /\ ~(Of(d).amount > 0) /\ GoesOn(d)
Finishes(d) == hook[d].at \in {"suspend", "reactivate"} /\ MovesTo(d, "seen")
Subscribes(d) == hook[d].at = "vps" /\ MovesTo(d, "seen") /\ Of(d).type \notin MoneyEvents

EventMoves(d) ==
    \/ Arrives(d) \/ Ends(d) \/ Known(d) \/ Unknown(d) \/ Posts(d) \/ Maps(d) \/ Drops(d) \/ LooksUp(d)
    \/ Holds(d) \/ HoldsOnly(d) \/ Finishes(d) \/ Subscribes(d)

\* Every step of the branches is one of these moves.
LEMMA EventEffect ==
    ASSUME HooksOK, NEW d \in Deliveries, EventStep(d)
    PROVE  workload' = workload /\ EventMoves(d)
  <1>1. workload' = workload
    BY DEF EventStep, Kept, handleWebhookEvent, hasReferenceId, postEvent, markSeen, checkoutCompleted,
           lookupCustomer, setBillingHold, suspendAllForTenant, checkReactivation, subscriptionUpdated,
           subscriptionDeleted
  <1>2. hook[d] \in Hooks /\ (hook[d].at # "idle" => Of(d) \in workload)
    BY DEF HooksOK, HookFits
  <1>3. ASSUME NEW e \in workload, handleWebhookEvent(d, e) PROVE EventMoves(d)
    <2>1. Branch(e.type) \in Stages
      BY Branches DEF Stages
    <2>. QED
      BY <1>1, <1>3, <2>1 DEF handleWebhookEvent, EventMoves, Arrives, Moves, HooksOK, Hooks, Free
  <1>4. CASE hasReferenceId(d)
    <2>1. Of(d).type \in Posting
      BY <1>4 DEF hasReferenceId, HooksOK, HookFits
    <2>2. CASE Posted(Ref(Of(d)))
      <3>. DEFINE to == Behind(Of(d), "known")
      <3>1. to \in Later
        BY <2>1, BehindLedger DEF Later
      <3>2. hook[d].at = "reference" /\ MovesTo(d, to)
        <4>. HIDE DEF to
        <4>1. to \in Stages
          BY <3>1 DEF Stages, Later
        <4>2. hook' = [hook EXCEPT ![d].at = to] /\ hook[d].at = "reference"
          BY <1>4, <2>2 DEF hasReferenceId, to
        <4>. QED
          BY <1>1, <4>1, <4>2, PointMoves
      <3>. HIDE DEF to
      <3>. QED
        <4>1. GoesOn(d)
          BY <3>1, <3>2 DEF GoesOn
        <4>2. Known(d)
          BY <2>2, <3>2, <4>1 DEF Known
        <4>. QED
          BY <1>1, <4>2 DEF EventMoves
    <2>3. CASE ~Posted(Ref(Of(d)))
      <3>1. hook' = [hook EXCEPT ![d].at = "post"] /\ hook[d].at = "reference" /\ "post" \in Stages
        BY <1>4, <2>3 DEF hasReferenceId, Stages
      <3>. QED
        BY <1>1, <3>1, PointMoves DEF EventMoves, Unknown
    <2>. QED
      BY <2>2, <2>3
  <1>5. CASE postEvent(d)
    <2>. DEFINE to == Behind(Of(d), "post")
    <2>1. to \in Later
      <3>1. Of(d).type \in Posting
        BY <1>5 DEF postEvent, HooksOK, HookFits
      <3>. QED
        BY <3>1, BehindLedger DEF Later
    <2>. HIDE DEF to
    <2>2. to \in Stages
      BY <2>1 DEF Stages, Later
    <2>3. hook' = [hook EXCEPT ![d].at = to] /\ hook[d].at = "post"
      BY <1>5 DEF postEvent, to
    <2>4. MovesTo(d, to)
      BY <1>1, <2>2, <2>3, PointMoves
    <2>5. \E n \in entries' : n.ref = Ref(Of(d))
      <3>. DEFINE n == [ref |-> Ref(Of(d)), tenant |-> Of(d).tenant, amount |-> Amount(Of(d))]
      <3>1. n \in entries'
        BY <1>5 DEF postEvent
      <3>. QED
        BY <3>1
    <2>. QED
      <3>1. hook[d].at = "post"
        BY <2>3
      <3>2. GoesOn(d)
        BY <2>1, <2>4 DEF GoesOn
      <3>3. Posts(d)
        BY <2>5, <3>1, <3>2 DEF Posts
      <3>. QED
        BY <1>1, <3>3 DEF EventMoves
  <1>6. CASE markSeen(d)
    BY <1>1, <1>6 DEF markSeen, EventMoves, Ends, Moves, HooksOK, Hooks, Free, Stages
  <1>7. CASE checkoutCompleted(d)
    <2>1. Step(d, "customer", IF Of(d).amount = 0 THEN "seen" ELSE "reference")
      BY <1>7 DEF checkoutCompleted
    <2>2. (IF Of(d).amount = 0 THEN "seen" ELSE "reference") \in Stages
      BY DEF Stages
    <2>. QED
      BY <1>1, <2>1, <2>2, StepMoves DEF EventMoves, Maps
  <1>8. CASE lookupCustomer(d)
    <2>1. hook[d].at = "mapping" /\ Of(d).type \in Looked
      BY <1>8 DEF lookupCustomer, HooksOK, HookFits
    <2>2. CASE hook' = [hook EXCEPT ![d].at = "seen"] /\ unseenCustomer' = unseenCustomer \cup {Of(d)}
      <3>1. MovesTo(d, "seen")
        BY <1>1, <2>2, PointMoves DEF Stages
      <3>. QED
        <4>1. Of(d) \in unseenCustomer'
          BY <2>2
        <4>2. Drops(d)
          BY <2>1, <3>1, <4>1 DEF Drops
        <4>. QED
          BY <1>1, <4>2 DEF EventMoves
    <2>3. CASE hook' = [hook EXCEPT ![d].at = Behind(Of(d), "mapping")]
      <3>1. Behind(Of(d), "mapping") \in Stages
        BY <2>1, BehindLookup DEF Stages
      <3>2. MovesTo(d, Behind(Of(d), "mapping"))
        BY <1>1, <2>3, <3>1, PointMoves
      <3>. QED
        <4>1. LooksUp(d)
          BY <2>1, <3>2 DEF LooksUp
        <4>. QED
          BY <1>1, <4>1 DEF EventMoves
    <2>. QED
      BY <1>8, <2>2, <2>3 DEF lookupCustomer
  <1>9. CASE setBillingHold(d)
    <2>1. hook[d].at = "hold" /\ Of(d).type \in Posting
      BY <1>9 DEF setBillingHold, Step, HooksOK, HookFits, Disputes, Posting, MoneyEvents
    <2>2. CASE Of(d).amount > 0
      <3>1. Step(d, "hold", "reference") /\ "reference" \in Stages
        BY <1>9, <2>2 DEF setBillingHold, Stages
      <3>. QED
        BY <1>1, <3>1, StepMoves DEF EventMoves, Holds
    <2>3. CASE ~(Of(d).amount > 0)
      <3>. DEFINE to == Behind(Of(d), "known")
      <3>1. to \in Later
        BY <2>1, BehindLedger DEF Later
      <3>2. Step(d, "hold", to)
        BY <1>9, <2>3 DEF setBillingHold
      <3>. HIDE DEF to
      <3>3. to \in Stages
        BY <3>1 DEF Stages, Later
      <3>4. MovesTo(d, to)
        BY <1>1, <3>2, <3>3, StepMoves
      <3>. QED
        <4>1. GoesOn(d)
          BY <3>1, <3>4 DEF GoesOn
        <4>2. HoldsOnly(d)
          BY <2>1, <2>3, <4>1 DEF HoldsOnly
        <4>. QED
          BY <1>1, <4>2 DEF EventMoves
    <2>. QED
      BY <2>2, <2>3
  <1>10. CASE suspendAllForTenant(d) \/ checkReactivation(d)
    <2>1. (Step(d, "suspend", "seen") \/ Step(d, "reactivate", "seen")) /\ "seen" \in Stages
      BY <1>10 DEF suspendAllForTenant, checkReactivation, Stages
    <2>. QED
      BY <1>1, <2>1, StepMoves DEF EventMoves, Finishes
  <1>11. CASE subscriptionUpdated(d) \/ subscriptionDeleted(d)
    <2>1. Step(d, "vps", "seen") /\ "seen" \in Stages /\ Of(d).type \notin MoneyEvents
      BY <1>11 DEF subscriptionUpdated, subscriptionDeleted, Stages, MoneyEvents
    <2>. QED
      BY <1>1, <2>1, StepMoves DEF EventMoves, Subscribes
  <1>. QED
    BY <1>1, <1>3, <1>4, <1>5, <1>6, <1>7, <1>8, <1>9, <1>10, <1>11 DEF EventStep

\* A step of a grant stays among the grants, or goes back to the branch.
GrantStages == {"bonus", "firstPurchase", "bonusPost", "match", "matchPost", "matchRecord"} \cup PromoStages

Redeems(d) ==
    /\ hook[d].at = "idle" /\ Moves(d) /\ hook'[d].ev \in workload
    /\ hook'[d].at = "promo" /\ hook'[d].ev.type = "coupon_redeem" /\ hook'[d].promo = "coupon_unique"

Grants(d) ==
    /\ hook[d].at \in GrantStages /\ Moves(d) /\ hook'[d].ev = hook[d].ev
    /\ hook'[d].at \in GrantStages \cup {"seen", "reactivate"}
    /\ hook'[d].at \in {"matchPost", "matchRecord"} => hook'[d].promo = "bonus_on_purchase"
    /\ hook'[d].at \in PromoStages => hook'[d].promo \in Promotions
    /\ hook'[d].at = "promoCode" => hook'[d].promo = "coupon_unique"

\* Every step of the grants is one of these moves.
LEMMA GrantEffect ==
    ASSUME HooksOK, NEW d \in Deliveries, GrantStep(d)
    PROVE  workload' = workload /\ (Redeems(d) \/ Grants(d))
  <1>1. workload' = workload
    BY DEF GrantStep, Kept, redeemCoupon, grantNewUserBonus, markFirstPurchase, postBonus,
           processAffiliateCreditMatch, postMatch, recordMatch, tryGrant, incrementUsageIfAllowed,
           postPromo, recordRedemption, redeemCode
  <1>2. ASSUME NEW e \in workload, redeemCoupon(d, e) PROVE Redeems(d)
    BY <1>1, <1>2 DEF redeemCoupon, Redeems, Moves, HooksOK, Hooks, Stages, PromoStages, Promotions
  <1>3. ASSUME NEW from \in GrantStages, NEW to \in {"firstPurchase", "bonusPost", "match", "seen"},
               Step(d, from, to)
        PROVE  Grants(d)
    <2>1. hook[d].at = from /\ MovesTo(d, to)
      BY <1>1, <1>3, StepMoves DEF Stages
    <2>. QED
      BY <1>3, <2>1 DEF MovesTo, Grants, GrantStages, PromoStages
  <1>4. CASE grantNewUserBonus(d)
    <2>1. \E to \in {"firstPurchase", "bonusPost", "match", "seen"} : Step(d, "bonus", to)
      BY <1>4 DEF grantNewUserBonus
    <2>. QED
      BY <1>1, <1>3, <2>1 DEF GrantStages
  <1>5. CASE markFirstPurchase(d) \/ postBonus(d) \/ redeemCode(d)
    <2>1. Step(d, "firstPurchase", "bonusPost") \/ Step(d, "bonusPost", "match") \/ Step(d, "promoCode", "seen")
      BY <1>5 DEF markFirstPurchase, postBonus, redeemCode
    <2>. QED
      BY <1>1, <1>3, <2>1 DEF GrantStages, PromoStages
  <1>6. CASE processAffiliateCreditMatch(d)
    <2>1. \E to \in {"promo", "matchPost"} :
             hook' = [hook EXCEPT ![d].at = to, ![d].promo = "bonus_on_purchase"]
      BY <1>6 DEF processAffiliateCreditMatch
    <2>2. hook[d].at = "match"
      BY <1>6 DEF processAffiliateCreditMatch
    <2>3. /\ Moves(d) /\ hook'[d].ev = hook[d].ev
          /\ hook'[d].at \in {"promo", "matchPost"} /\ hook'[d].promo = "bonus_on_purchase"
      <3>1. PICK to \in {"promo", "matchPost"} :
               hook' = [hook EXCEPT ![d].at = to, ![d].promo = "bonus_on_purchase"]
        BY <2>1
      <3>2. MovesOn(d, to, "bonus_on_purchase")
        BY <3>1 DEF MovesOn
      <3>3. to \in Stages /\ "bonus_on_purchase" \in Promotions \cup {"none"}
        BY DEF Stages, PromoStages, Promotions
      <3>. QED
        BY <1>1, <3>2, <3>3, PromoMoves
    <2>. QED
      BY <1>1, <2>2, <2>3 DEF Grants, GrantStages, PromoStages, Promotions
  <1>7. CASE postMatch(d) \/ recordMatch(d)
    <2>1. Step(d, "matchPost", "matchRecord") \/ Step(d, "matchRecord", "promo")
      BY <1>7 DEF postMatch, recordMatch
    <2>2. hook[d].at \in {"matchPost", "matchRecord"} /\ \E to \in {"matchRecord", "promo"} : MovesTo(d, to)
      BY <1>1, <2>1, StepMoves DEF Stages, PromoStages
    <2>3. hook[d].promo = "bonus_on_purchase"
      BY <2>2 DEF HooksOK, HookFits
    <2>. QED
      BY <1>1, <2>2, <2>3 DEF Grants, MovesTo, GrantStages, PromoStages, Promotions
  <1>8. CASE tryGrant(d) \/ incrementUsageIfAllowed(d) \/ postPromo(d) \/ recordRedemption(d)
    <2>1. \E from \in {"promo", "promoUse", "promoPost", "promoRecord"},
             to \in {"promoUse", "promoPost", "promoRecord", "promoCode", "seen", "reactivate"} :
             Step(d, from, to) /\ (to = "promoCode" => hook[d].promo = "coupon_unique")
      BY <1>8 DEF tryGrant, incrementUsageIfAllowed, postPromo, recordRedemption, BehindPromo
    <2>2. PICK to \in {"promoUse", "promoPost", "promoRecord", "promoCode", "seen", "reactivate"} :
             /\ hook[d].at \in PromoStages /\ MovesTo(d, to)
             /\ to = "promoCode" => hook[d].promo = "coupon_unique"
      BY <1>1, <2>1, StepMoves DEF Stages, PromoStages
    <2>3. hook[d].promo \in Promotions
      BY <2>2 DEF HooksOK, HookFits
    <2>. QED
      BY <1>1, <2>2, <2>3 DEF Grants, MovesTo, GrantStages, PromoStages
  <1>. QED
    BY <1>1, <1>2, <1>4, <1>5, <1>6, <1>7, <1>8 DEF GrantStep

\* What cuts a delivery off, from a promotion or altogether.
ThrowStep(d) == DuplicateReference(d) \/ Fail(d)

CutOff(d) ==
    /\ hook[d].at # "idle"
    /\ \/ Moves(d) /\ hook'[d] = Free
       \/ hook[d].at \in PromoStages /\ MovesTo(d, "reactivate")

\* A throw changes nothing but the delivery and the record of what it cut
\* off.
LEMMA ThrowEffect ==
    ASSUME HooksOK, NEW d \in Deliveries, ThrowStep(d)
    PROVE  /\ UNCHANGED <<workload, seenEvents, unseenCustomer, raced, entries, tables, affiliate, promotion>>
           /\ lost' = lost \cup Cut(d) /\ CutOff(d)
  <1>1. Throws(d) /\ hook[d].at # "idle"
    BY DEF ThrowStep, DuplicateReference, Fail
  <1>2. workload' = workload
    BY <1>1 DEF Throws
  <1>3. CASE hook[d].at \in PromoStages /\ hook[d].promo = "bonus_on_purchase"
    <2>1. hook' = [hook EXCEPT ![d] = [hook[d] EXCEPT !.at = "reactivate"]]
      BY <1>1, <1>3 DEF Throws
    <2>2. MovesTo(d, "reactivate")
      BY <1>2, <2>1 DEF HooksOK, Hooks, MovesTo, Moves, Stages
    <2>. QED
      BY <1>1, <1>3, <2>2 DEF Throws, CutOff
  <1>4. CASE ~(hook[d].at \in PromoStages /\ hook[d].promo = "bonus_on_purchase")
    <2>1. hook' = [hook EXCEPT ![d] = Free]
      BY <1>1, <1>4 DEF Throws
    <2>2. Moves(d) /\ hook'[d] = Free
      BY <1>2, <2>1 DEF HooksOK, Hooks, Moves, Stages, Free
    <2>. QED
      BY <1>1, <2>2 DEF Throws, CutOff
  <1>. QED
    BY <1>3, <1>4

-----------------------------------------------------------------------------
(* Deliveries wait where their events may be                                *)

\* Every step leaves every delivery where its event may be.
LEMMA HooksNext ==
    ASSUME HooksOK, NEW d \in Deliveries, EventStep(d) \/ GrantStep(d) \/ ThrowStep(d)
    PROVE  HooksOK'
  <1>1. workload' = workload
    BY EventEffect, GrantEffect, ThrowEffect
  <1>2. /\ hook[d].at # "idle" => hook[d].ev \in workload
        /\ hook[d].at = "mapping" => Of(d).type \in Looked
        /\ hook[d].at = "hold" => Of(d).type \in Disputes
        /\ hook[d].at = "customer" => Of(d).type = "checkout.session.completed"
        /\ hook[d].at \in {"reference", "post"} => Of(d).type \in Posting
    BY DEF HooksOK, HookFits, Of
  <1>3. ASSUME NEW to \in Later, hook[d].at # "idle", MovesTo(d, to) PROVE HooksOK'
    BY <1>1, <1>3, PlainKept DEF Later, Plain
  <1>4. ASSUME Moves(d), hook'[d] = Free PROVE HooksOK'
    BY <1>1, <1>4, HooksKept DEF Free, MatchStages, PromoStages
  <1>5. ASSUME MovesTo(d, "reference"), hook[d].at # "idle", Of(d).type \in Posting PROVE HooksOK'
    BY <1>1, <1>2, <1>5, HooksKept DEF MovesTo, PromoStages, Of
  <1>6. CASE EventStep(d)
    <2>1. EventMoves(d)
      BY <1>6, EventEffect
    <2>2. CASE Arrives(d)
      <3>. DEFINE h == hook'[d]
      <3>1. /\ h.at = Branch(h.ev.type) /\ h.ev \in workload /\ Moves(d)
        BY <2>2 DEF Arrives
      <3>2. /\ h.at \in {"customer", "mapping", "vps", "seen"}
            /\ h.at = "customer" => h.ev.type = "checkout.session.completed"
            /\ h.at = "mapping" => h.ev.type \in Looked
        BY <3>1, Branches
      <3>. QED
        BY <1>1, <3>1, <3>2, HooksKept DEF PromoStages
    <2>3. CASE Ends(d)
      BY <1>4, <2>3 DEF Ends
    <2>4. CASE Known(d) \/ Posts(d) \/ HoldsOnly(d)
      BY <1>3, <2>4 DEF Known, Posts, HoldsOnly, GoesOn
    <2>5. CASE Unknown(d)
      BY <1>1, <1>2, <2>5, HooksKept DEF Unknown, MovesTo, PromoStages, Of
    <2>6. CASE Maps(d)
      <3>1. Of(d).type \in Posting
        BY <1>2, <2>6 DEF Maps, Posting, MoneyEvents
      <3>2. MovesTo(d, "seen") \/ MovesTo(d, "reference")
        BY <2>6 DEF Maps
      <3>. QED
        BY <1>3, <1>5, <2>6, <3>1, <3>2 DEF Maps, Later
    <2>7. CASE Drops(d) \/ Finishes(d) \/ Subscribes(d)
      <3>1. MovesTo(d, "seen") /\ hook[d].at # "idle"
        BY <2>7 DEF Drops, Finishes, Subscribes
      <3>. QED
        BY <1>3, <3>1 DEF Later
    <2>8. CASE LooksUp(d)
      <3>. DEFINE to == Behind(Of(d), "mapping")
      <3>1. /\ to \in {"seen", "reference", "suspend", "hold"}
            /\ to = "hold" => Of(d).type \in Disputes
            /\ to = "reference" => Of(d).type \in Posting
        BY <1>2, <2>8, BehindLookup DEF LooksUp
      <3>2. MovesTo(d, to) /\ hook[d].at = "mapping"
        BY <2>8 DEF LooksUp
      <3>. HIDE DEF to
      <3>3. CASE to \in {"seen", "suspend"}
        BY <1>3, <3>2, <3>3 DEF Later
      <3>4. CASE to = "reference"
        BY <1>5, <3>1, <3>2, <3>4
      <3>5. CASE to = "hold"
        BY <1>1, <1>2, <3>1, <3>2, <3>5, HooksKept DEF MovesTo, PromoStages, Of
      <3>. QED
        BY <3>1, <3>3, <3>4, <3>5
    <2>9. CASE Holds(d)
      <3>1. Of(d).type \in Posting
        BY <1>2, <2>9 DEF Holds, Disputes, Posting, MoneyEvents
      <3>. QED
        BY <1>5, <2>9, <3>1 DEF Holds
    <2>. QED
      BY <2>1, <2>2, <2>3, <2>4, <2>5, <2>6, <2>7, <2>8, <2>9 DEF EventMoves
  <1>7. CASE GrantStep(d)
    <2>1. Redeems(d) \/ Grants(d)
      BY <1>7, GrantEffect
    <2>2. CASE Redeems(d)
      BY <1>1, <2>2, HooksKept DEF Redeems, Promotions
    <2>3. CASE Grants(d)
      <3>1. hook[d].at # "idle" /\ hook'[d].at \in GrantStages \cup {"seen", "reactivate"} /\ Moves(d)
            /\ hook'[d].ev \in workload
        BY <1>2, <2>3 DEF Grants, GrantStages, PromoStages
      <3>2. hook'[d].at \notin {"customer", "mapping", "hold", "reference", "post"}
        BY <3>1 DEF GrantStages, PromoStages
      <3>. QED
        BY <1>1, <2>3, <3>1, <3>2, HooksKept DEF Grants
    <2>. QED
      BY <2>1, <2>2, <2>3
  <1>8. CASE ThrowStep(d)
    <2>1. CutOff(d)
      BY <1>8, ThrowEffect
    <2>. QED
      BY <1>3, <1>4, <2>1 DEF CutOff, Later
  <1>. QED
    BY <1>6, <1>7, <1>8

-----------------------------------------------------------------------------
(* An event that is answered has its entry                                  *)

\* Nothing is taken out of the ledger or forgotten.
LEMMA Monotone ==
    ASSUME HooksOK, NEW d \in Deliveries, EventStep(d) \/ GrantStep(d) \/ ThrowStep(d)
    PROVE  /\ entries \subseteq entries' /\ unseenCustomer \subseteq unseenCustomer'
           /\ raced \subseteq raced' /\ lost \subseteq lost'
           /\ \/ seenEvents' = seenEvents
              \/ hook[d].at = "seen" /\ seenEvents' = seenEvents \cup {Of(d)}
  <1>1. CASE EventStep(d)
    BY <1>1 DEF EventStep, Kept, handleWebhookEvent, hasReferenceId, postEvent, markSeen, checkoutCompleted,
           lookupCustomer, setBillingHold, suspendAllForTenant, checkReactivation, subscriptionUpdated,
           subscriptionDeleted
  <1>2. CASE GrantStep(d)
    BY <1>2 DEF GrantStep, Kept, redeemCoupon, grantNewUserBonus, markFirstPurchase, postBonus,
           processAffiliateCreditMatch, postMatch, recordMatch, tryGrant, incrementUsageIfAllowed,
           postPromo, recordRedemption, redeemCode
  <1>3. CASE ThrowStep(d)
    BY <1>3, ThrowEffect
  <1>. QED
    BY <1>1, <1>2, <1>3

\* Settled after the step, of any event.
SettledNext(e) ==
    (e.type \in MoneyEvents /\ e.amount > 0 /\ e \notin unseenCustomer') =>
        \E n \in entries' : n.ref = Ref(e)

\* Every step leaves an entry behind for each event answered or past the
\* ledger.
LEMMA PostedNext ==
    ASSUME HooksOK, SeenIsPosted, PastIsPosted,
           NEW d \in Deliveries, EventStep(d) \/ GrantStep(d) \/ ThrowStep(d)
    PROVE  SeenIsPosted' /\ PastIsPosted'
  <1>1. /\ entries \subseteq entries' /\ unseenCustomer \subseteq unseenCustomer'
        /\ \/ seenEvents' = seenEvents
           \/ hook[d].at = "seen" /\ seenEvents' = seenEvents \cup {Of(d)}
    BY Monotone
  <1>2. \A e : Settled(e) => SettledNext(e)
    BY <1>1 DEF Settled, SettledNext, Posted
  <1>3. \A e \in seenEvents' : SettledNext(e)
    <2>1. \A e \in seenEvents : Settled(e)
      BY DEF SeenIsPosted, Settled
    <2>2. hook[d].at = "seen" => Settled(Of(d))
      BY DEF PastIsPosted, Unposted
    <2>. QED
      BY <1>1, <1>2, <2>1, <2>2
  <1>4. Moves(d)
    BY EventEffect, GrantEffect, ThrowEffect
       DEF EventMoves, Arrives, Ends, Known, Unknown, Posts, Maps, Drops, LooksUp, Holds, HoldsOnly,
           Finishes, Subscribes, GoesOn, MovesTo, Redeems, Grants, CutOff
  <1>5. hook'[d].at \notin Unposted => SettledNext(hook'[d].ev)
    <2>. SUFFICES ASSUME hook'[d].at \notin Unposted PROVE SettledNext(hook'[d].ev)
      OBVIOUS
    <2>1. ASSUME hook'[d].ev = hook[d].ev, hook[d].at \notin Unposted PROVE SettledNext(hook'[d].ev)
      BY <1>2, <2>1 DEF PastIsPosted, Of
    <2>2. ASSUME hook'[d].ev = hook[d].ev,
                 hook[d].ev.type \in MoneyEvents /\ hook[d].ev.amount > 0 =>
                     Posted(Ref(hook[d].ev)) \/ hook[d].ev \in unseenCustomer'
          PROVE  SettledNext(hook'[d].ev)
      BY <1>1, <2>2 DEF SettledNext, Posted
    <2>3. CASE EventStep(d)
      <3>1. EventMoves(d)
        BY <2>3, EventEffect
      <3>2. CASE Arrives(d)
        <4>1. hook'[d].ev.type \notin MoneyEvents
          BY <3>2, Branches DEF Arrives, Unposted
        <4>. QED
          BY <4>1 DEF SettledNext
      <3>3. CASE Ends(d) \/ Unknown(d) \/ Holds(d)
        BY <3>3 DEF Ends, Unknown, Holds, MovesTo, Free, Unposted
      <3>4. CASE Known(d)
        BY <2>2, <3>4 DEF Known, GoesOn, MovesTo, Of
      <3>5. CASE Posts(d)
        <4>1. hook'[d].ev = hook[d].ev /\ \E n \in entries' : n.ref = Ref(hook[d].ev)
          BY <3>5 DEF Posts, GoesOn, MovesTo, Of
        <4>. QED
          BY <4>1 DEF SettledNext
      <3>6. CASE Maps(d)
        <4>1. hook'[d].ev = hook[d].ev /\ hook[d].ev.amount = 0
          BY <3>6 DEF Maps, MovesTo, Of, Unposted
        <4>. QED
          BY <2>2, <4>1
      <3>7. CASE Drops(d)
        BY <2>2, <3>7 DEF Drops, MovesTo, Of
      <3>8. CASE LooksUp(d)
        <4>1. /\ hook'[d].ev = hook[d].ev /\ hook'[d].at = Behind(hook[d].ev, "mapping")
              /\ hook[d].ev.type \in Looked
          BY <3>8 DEF LooksUp, MovesTo, Of, HooksOK, HookFits
        <4>2. ~(hook[d].ev.type \in MoneyEvents /\ hook[d].ev.amount > 0)
          BY <4>1, BehindLookup DEF Unposted
        <4>. QED
          BY <2>2, <4>1, <4>2
      <3>9. CASE HoldsOnly(d)
        BY <2>2, <3>9 DEF HoldsOnly, GoesOn, MovesTo, Of
      <3>10. CASE Finishes(d)
        BY <2>1, <3>10 DEF Finishes, MovesTo, Unposted
      <3>11. CASE Subscribes(d)
        BY <2>2, <3>11 DEF Subscribes, MovesTo, Of
      <3>. QED
        BY <3>1, <3>2, <3>3, <3>4, <3>5, <3>6, <3>7, <3>8, <3>9, <3>10, <3>11 DEF EventMoves
    <2>4. CASE GrantStep(d)
      <3>1. CASE Redeems(d)
        BY <3>1 DEF Redeems, SettledNext, MoneyEvents
      <3>2. CASE Grants(d)
        BY <2>1, <3>2 DEF Grants, GrantStages, PromoStages, Unposted
      <3>. QED
        BY <2>4, <3>1, <3>2, GrantEffect
    <2>5. CASE ThrowStep(d)
      <3>1. CutOff(d)
        BY <2>5, ThrowEffect
      <3>2. hook'[d] # Free
        BY DEF Free, Unposted
      <3>. QED
        BY <2>1, <3>1, <3>2 DEF CutOff, MovesTo, PromoStages, Unposted
    <2>. QED
      BY <2>3, <2>4, <2>5
  <1>6. SeenIsPosted'
    BY <1>3 DEF SeenIsPosted, SettledNext, Posted, Ref
  <1>7. PastIsPosted'
    <2>. SUFFICES ASSUME NEW o \in Deliveries, hook'[o].at \notin Unposted PROVE SettledNext(hook'[o].ev)
      BY DEF PastIsPosted, Of, Settled, SettledNext, Posted, Ref, Unposted
    <2>1. CASE o # d
      BY <1>2, <1>4, <2>1 DEF Moves, PastIsPosted, Of
    <2>. QED
      BY <1>5, <2>1
  <1>. QED
    BY <1>6, <1>7

-----------------------------------------------------------------------------
(* Types                                                                    *)

\* A delivery under way has an event of the workload, of a tenant.
LEMMA EventKnown ==
    ASSUME HooksOK, PurchasesTypeOK, NEW d \in Deliveries, hook[d].at # "idle"
    PROVE  Of(d) \in workload /\ TenantOf(d) \in Tenants /\ Of(d).object \notin GrantPrefixes
  BY PurchasesAssumption DEF HooksOK, HookFits, PurchasesTypeOK, Of, TenantOf

\* Every step keeps the types, the use limit of a promotion among them.
LEMMA TypesNext ==
    ASSUME HooksOK, PurchasesTypeOK, NEW d \in Deliveries, EventStep(d) \/ GrantStep(d) \/ ThrowStep(d)
    PROVE  PurchasesTypeOK'
  <1>1. workload' = workload
    BY EventEffect, GrantEffect, ThrowEffect
  <1>2. /\ hook[d].at # "idle" => Of(d) \in workload /\ TenantOf(d) \in Tenants
        /\ hook[d].at \in PromoStages => hook[d].promo \in Promotions
    BY EventKnown DEF HooksOK, HookFits
  <1>3. /\ MaxThrows \in Nat /\ TotalUseLimit \in Nat
    <2>1. {MaxReferrals30d, TotalUseLimit, MaxThrows} \subseteq Nat
      BY PurchasesAssumption
    <2>. QED
      BY <2>1
  <1>4. seenEvents' \subseteq workload
    BY <1>2, Monotone DEF PurchasesTypeOK
  <1>. USE DEF tables, affiliate, promotion
  <1>5. CASE EventStep(d)
    <2>1. UNCHANGED <<affiliate, promotion, raced, throws>>
      BY <1>5 DEF EventStep, Kept, handleWebhookEvent, hasReferenceId, postEvent, markSeen, checkoutCompleted,
             lookupCustomer, setBillingHold, suspendAllForTenant, checkReactivation, subscriptionUpdated,
             subscriptionDeleted
    <2>2. /\ unseenCustomer' \subseteq unseenCustomer \cup {Of(d)}
          /\ customers' \cup holds' \cup stopped' \subseteq customers \cup holds \cup stopped \cup {TenantOf(d)}
          /\ hook[d].at = "idle" => UNCHANGED <<unseenCustomer, customers, holds, stopped>>
      BY <1>5 DEF EventStep, Kept, handleWebhookEvent, hasReferenceId, postEvent, markSeen, checkoutCompleted,
             lookupCustomer, setBillingHold, suspendAllForTenant, checkReactivation, subscriptionUpdated,
             subscriptionDeleted, Step, upsert, Of, TenantOf
    <2>3. unseenCustomer' \subseteq workload /\ customers' \cup holds' \cup stopped' \subseteq Tenants
      BY <1>2, <2>2 DEF PurchasesTypeOK
    <2>. QED
      BY <1>1, <1>4, <2>1, <2>3 DEF PurchasesTypeOK
  <1>6. CASE GrantStep(d)
    <2>1. UNCHANGED <<customers, holds, stopped, unseenCustomer, throws>>
      BY <1>6 DEF GrantStep, Kept, redeemCoupon, grantNewUserBonus, markFirstPurchase, postBonus,
             processAffiliateCreditMatch, postMatch, recordMatch, tryGrant, incrementUsageIfAllowed,
             postPromo, recordRedemption, redeemCode
    <2>2. /\ suppressed' \cup redeemed' \subseteq suppressed \cup redeemed \cup {TenantOf(d)}
          /\ redemptions' \subseteq redemptions \cup {<<hook[d].promo, TenantOf(d)>>}
          /\ hook[d].at = "idle" => UNCHANGED <<suppressed, redeemed, redemptions>>
          /\ redemptions' = redemptions \/ hook[d].at \in PromoStages
          /\ raced' \subseteq raced \cup {"code", "match"}
      BY <1>6 DEF GrantStep, Kept, redeemCoupon, grantNewUserBonus, markFirstPurchase, postBonus,
             processAffiliateCreditMatch, postMatch, recordMatch, tryGrant, incrementUsageIfAllowed,
             postPromo, recordRedemption, redeemCode, Step, PromoStages
    <2>3. suppressed' \cup redeemed' \subseteq Tenants /\ redemptions' \subseteq Promotions \X Tenants
          /\ raced' \subseteq {"code", "match"}
      BY <1>2, <2>2 DEF PurchasesTypeOK, PromoStages
    <2>4. referral' \in [Referred -> [first : BOOLEAN, matched : BOOLEAN]]
      <3>1. \/ referral' = referral
            \/ referral' = [referral EXCEPT ![TenantOf(d)].first = TRUE]
            \/ referral' = [referral EXCEPT ![TenantOf(d)] = [first |-> TRUE, matched |-> TRUE]]
        BY <1>6 DEF GrantStep, Kept, redeemCoupon, grantNewUserBonus, markFirstPurchase, postBonus,
               processAffiliateCreditMatch, postMatch, recordMatch, tryGrant, incrementUsageIfAllowed,
               postPromo, recordRedemption, redeemCode
      <3>2. referral \in [Referred -> [first : BOOLEAN, matched : BOOLEAN]]
        BY DEF PurchasesTypeOK
      <3>3. CASE referral' = [referral EXCEPT ![TenantOf(d)].first = TRUE]
        BY <3>2, <3>3
      <3>4. CASE referral' = [referral EXCEPT ![TenantOf(d)] = [first |-> TRUE, matched |-> TRUE]]
        BY <3>2, <3>4
      <3>. QED
        BY <3>1, <3>2, <3>3, <3>4
    <2>5. usage' \in [Promotions -> 0..TotalUseLimit]
      <3>1. \/ usage' = usage
            \/ /\ hook[d].at = "promoUse" /\ usage[hook[d].promo] < TotalUseLimit
               /\ usage' = [usage EXCEPT ![hook[d].promo] = @ + 1]
        BY <1>6 DEF GrantStep, Kept, redeemCoupon, grantNewUserBonus, markFirstPurchase, postBonus,
               processAffiliateCreditMatch, postMatch, recordMatch, tryGrant, incrementUsageIfAllowed,
               postPromo, recordRedemption, redeemCode, Step
      <3>2. usage \in [Promotions -> 0..TotalUseLimit]
        BY DEF PurchasesTypeOK
      <3>3. CASE usage' = usage
        BY <3>2, <3>3
      <3>4. CASE usage' # usage
        <4>. DEFINE p == hook[d].promo
        <4>1. /\ p \in Promotions /\ usage[p] < TotalUseLimit
              /\ usage' = [usage EXCEPT ![p] = usage[p] + 1]
          BY <1>2, <3>1, <3>4 DEF PromoStages
        <4>2. usage[p] + 1 \in 0..TotalUseLimit
          BY <1>3, <3>2, <4>1
        <4>. HIDE DEF p
        <4>. QED
          BY <3>2, <4>1, <4>2
      <3>. QED
        BY <3>3, <3>4
    <2>. QED
      BY <1>1, <1>4, <2>1, <2>3, <2>4, <2>5 DEF PurchasesTypeOK
  <1>7. CASE ThrowStep(d)
    <2>1. throws' \in 0..MaxThrows
      BY <1>3, <1>7 DEF ThrowStep, DuplicateReference, Fail, PurchasesTypeOK
    <2>. QED
      BY <1>1, <1>4, <1>7, <2>1, ThrowEffect DEF PurchasesTypeOK
  <1>. QED
    BY <1>5, <1>6, <1>7

-----------------------------------------------------------------------------
(* A first purchase has its bonus                                           *)

BonusPaidNext(t) == \E n \in entries' : n.ref = BonusRef(t)

\* What a step may do to the first purchases without losing sight of a bonus.
BonusStep(d) ==
    LET t == hook[d].ev.tenant IN
    /\ \A u \in Referred : \/ referral'[u].first = referral[u].first
                           \/ u = t /\ referral'[u].first /\ ~referral[u].first
    /\ t \in Referred /\ referral'[t].first =>
         \/ referral[t].first /\ hook[d].at # "bonusPost"
         \/ BonusPaidNext(t) \/ <<"bonus", t>> \in lost'
         \/ hook'[d].at = "bonusPost" /\ hook'[d].ev = hook[d].ev
    /\ hook'[d].at \in {"firstPurchase", "bonusPost", "matchPost", "matchRecord"} =>
         hook'[d].ev = hook[d].ev /\ t \in Referred
    /\ hook'[d].at \in {"match", "matchPost", "matchRecord"} =>
         hook'[d].ev = hook[d].ev /\ (t \in Referred => referral'[t].first \/ BonusPaidNext(t))

\* Such a step leaves every first purchase with its bonus.
LEMMA BonusKept ==
    ASSUME BonusFollowsPurchase, BonusFirst, NEW d \in Deliveries, Moves(d),
           entries \subseteq entries', lost \subseteq lost',
           referral \in [Referred -> [first : BOOLEAN, matched : BOOLEAN]], BonusStep(d)
    PROVE  BonusFollowsPurchase' /\ BonusFirst'
  <1>. DEFINE t == hook[d].ev.tenant
  <1>1. /\ \A u \in Referred : \/ referral'[u].first = referral[u].first
                               \/ u = t /\ referral'[u].first /\ ~referral[u].first
        /\ t \in Referred /\ referral'[t].first =>
             \/ referral[t].first /\ hook[d].at # "bonusPost"
             \/ BonusPaidNext(t) \/ <<"bonus", t>> \in lost'
             \/ hook'[d].at = "bonusPost" /\ hook'[d].ev = hook[d].ev
        /\ hook'[d].at \in {"firstPurchase", "bonusPost", "matchPost", "matchRecord"} =>
             hook'[d].ev = hook[d].ev /\ t \in Referred
        /\ hook'[d].at \in {"match", "matchPost", "matchRecord"} =>
             hook'[d].ev = hook[d].ev /\ (t \in Referred => referral'[t].first \/ BonusPaidNext(t))
    BY DEF BonusStep
  <1>2. /\ \A u : Posted(BonusRef(u)) => BonusPaidNext(u)
        /\ \A u : BonusPaidNext(u) => Posted(BonusRef(u))'
    BY DEF Posted, BonusPaidNext, BonusRef
  <1>3. \A o \in Deliveries \ {d} : hook'[o] = hook[o]
    BY DEF Moves
  <1>4. BonusFollowsPurchase'
    <2>. SUFFICES ASSUME NEW u \in Referred, referral'[u].first
                  PROVE  \/ BonusPaidNext(u) \/ <<"bonus", u>> \in lost'
                         \/ \E o \in Deliveries : hook'[o].at = "bonusPost" /\ hook'[o].ev.tenant = u
      BY <1>2 DEF BonusFollowsPurchase, TenantOf
    <2>1. CASE referral[u].first
      <3>1. \/ Posted(BonusRef(u)) \/ <<"bonus", u>> \in lost
            \/ \E o \in Deliveries : hook[o].at = "bonusPost" /\ hook[o].ev.tenant = u
        BY <2>1 DEF BonusFollowsPurchase, TenantOf
      <3>2. CASE hook[d].at = "bonusPost" /\ t = u
        <4>1. \/ BonusPaidNext(t) \/ <<"bonus", t>> \in lost'
              \/ hook'[d].at = "bonusPost" /\ hook'[d].ev = hook[d].ev
          BY <1>1, <3>2
        <4>. QED
          BY <3>2, <4>1
      <3>. QED
        BY <1>2, <1>3, <3>1, <3>2
    <2>2. CASE ~referral[u].first
      <3>1. u = t
        BY <1>1, <2>2
      <3>. HIDE DEF t
      <3>2. \/ BonusPaidNext(t) \/ <<"bonus", t>> \in lost'
            \/ hook'[d].at = "bonusPost" /\ hook'[d].ev = hook[d].ev
        BY <1>1, <2>2, <3>1
      <3>. QED
        BY <3>1, <3>2 DEF t
    <2>. QED
      BY <2>1, <2>2
  <1>5. \A u \in Referred : referral[u].first => referral'[u].first
    BY <1>1
  <1>6. BonusFirst'
    <2>. SUFFICES ASSUME NEW o \in Deliveries
                  PROVE  LET u == hook'[o].ev.tenant IN
                         /\ hook'[o].at \in {"firstPurchase", "bonusPost", "matchPost", "matchRecord"} =>
                              u \in Referred
                         /\ hook'[o].at \in {"match", "matchPost", "matchRecord"} /\ u \in Referred =>
                              referral'[u].first \/ BonusPaidNext(u)
      BY <1>2 DEF BonusFirst, TenantOf
    <2>1. CASE o = d
      BY <1>1, <2>1
    <2>2. CASE o # d
      BY <1>2, <1>3, <1>5, <2>2 DEF BonusFirst, TenantOf
    <2>. QED
      BY <2>1, <2>2
  <1>. QED
    BY <1>4, <1>6

\* Every step's moves.
LEMMA AllMove ==
    ASSUME HooksOK, NEW d \in Deliveries, EventStep(d) \/ GrantStep(d) \/ ThrowStep(d)
    PROVE  Moves(d)
  BY EventEffect, GrantEffect, ThrowEffect
     DEF EventMoves, Arrives, Ends, Known, Unknown, Posts, Maps, Drops, LooksUp, Holds, HoldsOnly,
         Finishes, Subscribes, GoesOn, MovesTo, Redeems, Grants, CutOff

\* The event branches, where they lead with regard to the grants.
LEMMA EventStages ==
    ASSUME HooksOK, NEW d \in Deliveries, EventStep(d)
    PROVE  /\ hook[d].at \notin GrantStages
           /\ hook'[d].at \notin GrantStages \ {"bonus"}
           /\ UNCHANGED <<affiliate, promotion, raced, lost>>
  <1>1. UNCHANGED <<affiliate, promotion, raced, lost>>
    BY DEF EventStep, Kept, handleWebhookEvent, hasReferenceId, postEvent, markSeen, checkoutCompleted,
           lookupCustomer, setBillingHold, suspendAllForTenant, checkReactivation, subscriptionUpdated,
           subscriptionDeleted
  <1>2. EventMoves(d)
    BY EventEffect
  <1>. USE DEF GrantStages, PromoStages
  <1>3. CASE Arrives(d)
    <2>1. hook'[d].at \in {"customer", "mapping", "vps", "seen"}
      BY <1>3, Branches DEF Arrives
    <2>. QED
      BY <1>1, <1>3, <2>1 DEF Arrives
  <1>4. CASE LooksUp(d)
    <2>1. hook'[d].at \in {"seen", "reference", "suspend", "hold"}
      BY <1>4, BehindLookup DEF LooksUp, MovesTo, HooksOK, HookFits
    <2>. QED
      BY <1>1, <1>4, <2>1 DEF LooksUp
  <1>5. CASE Ends(d) \/ Known(d) \/ Unknown(d) \/ Posts(d) \/ Maps(d) \/ Drops(d) \/ Holds(d)
             \/ HoldsOnly(d) \/ Finishes(d) \/ Subscribes(d)
    BY <1>1, <1>5 DEF Ends, Known, Unknown, Posts, Maps, Drops, Holds, HoldsOnly, Finishes, Subscribes,
                      GoesOn, Later, MovesTo, Free
  <1>. QED
    BY <1>2, <1>3, <1>4, <1>5 DEF EventMoves

\* The steps of the promotion engine, and of a coupon's arrival.
PromoStep(d) ==
    \/ \E e \in workload : redeemCoupon(d, e)
    \/ tryGrant(d) \/ incrementUsageIfAllowed(d) \/ postPromo(d) \/ recordRedemption(d) \/ redeemCode(d)

\* The engine leads back to the branch, and touches no referral.
LEMMA PromoStepStages ==
    ASSUME HooksOK, NEW d \in Deliveries, PromoStep(d)
    PROVE  /\ hook[d].at \in PromoStages \cup {"idle"}
           /\ hook'[d].at \in PromoStages \cup {"seen", "reactivate"}
           /\ UNCHANGED <<affiliate, lost>>
  <1>1. UNCHANGED <<affiliate, lost, workload>>
    BY DEF PromoStep, redeemCoupon, tryGrant, incrementUsageIfAllowed, postPromo, recordRedemption, redeemCode, Kept
  <1>2. CASE \E e \in workload : redeemCoupon(d, e)
    <2>1. hook[d].at = "idle" /\ hook[d].at \notin GrantStages
      BY <1>2 DEF redeemCoupon, GrantStages, PromoStages
    <2>2. Redeems(d)
      BY <1>2, <2>1, GrantEffect DEF GrantStep, Grants
    <2>. QED
      BY <1>1, <2>1, <2>2 DEF Redeems, PromoStages
  <1>3. CASE tryGrant(d) \/ incrementUsageIfAllowed(d) \/ postPromo(d) \/ recordRedemption(d) \/ redeemCode(d)
    <2>1. \E from \in PromoStages, to \in PromoStages \cup {"seen", "reactivate"} : Step(d, from, to)
      BY <1>3 DEF tryGrant, incrementUsageIfAllowed, postPromo, recordRedemption, redeemCode, BehindPromo, PromoStages
    <2>. QED
      BY <1>1, <2>1, StepMoves DEF MovesTo, Stages, PromoStages
  <1>. QED
    BY <1>2, <1>3 DEF PromoStep

\* Every step leaves every first purchase with its bonus.
LEMMA BonusNext ==
    ASSUME HooksOK, PurchasesTypeOK, BonusFollowsPurchase, BonusFirst,
           NEW d \in Deliveries, EventStep(d) \/ GrantStep(d) \/ ThrowStep(d)
    PROVE  BonusFollowsPurchase' /\ BonusFirst'
  <1>. DEFINE t == hook[d].ev.tenant
  <1>1. /\ Moves(d) /\ entries \subseteq entries' /\ lost \subseteq lost' /\ workload' = workload
        /\ referral \in [Referred -> [first : BOOLEAN, matched : BOOLEAN]]
    BY AllMove, Monotone, EventEffect, GrantEffect, ThrowEffect DEF PurchasesTypeOK
  <1>2. SUFFICES BonusStep(d)
    BY <1>1, BonusKept
  <1>. USE DEF affiliate
  <1>3. /\ hook[d].at \in {"firstPurchase", "bonusPost", "matchPost", "matchRecord"} => t \in Referred
        /\ hook[d].at \in {"match", "matchPost", "matchRecord"} /\ t \in Referred =>
              referral[t].first \/ Posted(BonusRef(t))
    BY DEF BonusFirst, TenantOf
  <1>4. \A u : Posted(BonusRef(u)) => BonusPaidNext(u)
    BY <1>1 DEF Posted, BonusPaidNext, BonusRef
  <1>5. ASSUME hook[d].at # "bonusPost", referral' = referral,
               hook'[d].at \notin {"firstPurchase", "bonusPost", "match", "matchPost", "matchRecord"}
        PROVE  BonusStep(d)
    BY <1>5 DEF BonusStep
  <1>6. CASE EventStep(d)
    BY <1>5, <1>6, EventStages DEF GrantStages
  <1>7. CASE PromoStep(d)
    BY <1>5, <1>7, PromoStepStages DEF PromoStages
  <1>8. CASE ThrowStep(d)
    <2>1. /\ hook'[d].at \in {"idle", "reactivate"} /\ referral' = referral
          /\ lost' = lost \cup Cut(d)
      BY <1>8, ThrowEffect DEF CutOff, MovesTo, Free
    <2>2. CASE hook[d].at = "bonusPost"
      <3>1. <<"bonus", t>> \in lost'
        BY <2>1, <2>2 DEF Cut, TenantOf
      <3>. QED
        BY <2>1, <3>1 DEF BonusStep
    <2>. QED
      BY <1>5, <2>1, <2>2
  <1>9. CASE grantNewUserBonus(d)
    <2>1. hook[d].at = "bonus" /\ referral' = referral /\ MovesTo(d, IF bonusEligible(t) THEN "firstPurchase" ELSE "match")
      BY <1>1, <1>9, StepMoves DEF grantNewUserBonus, Stages, TenantOf
    <2>2. CASE bonusEligible(t)
      <3>1. t \in Referred
        BY <2>2 DEF bonusEligible, getReferral
      <3>. QED
        BY <2>1, <2>2, <3>1 DEF BonusStep, MovesTo
    <2>3. CASE ~bonusEligible(t)
      <3>1. t \in Referred => referral[t].first \/ Posted(BonusRef(t))
        BY <2>3 DEF bonusEligible, getReferral
      <3>. QED
        BY <1>4, <2>1, <2>3, <3>1 DEF BonusStep, MovesTo
    <2>. QED
      BY <2>2, <2>3
  <1>10. CASE markFirstPurchase(d)
    <2>1. /\ hook[d].at = "firstPurchase" /\ MovesTo(d, "bonusPost")
          /\ referral' = [referral EXCEPT ![t].first = TRUE]
      BY <1>1, <1>10, StepMoves DEF markFirstPurchase, Stages, TenantOf
    <2>2. \A u \in Referred : IF u = t THEN referral'[u].first ELSE referral'[u] = referral[u]
      BY <1>1, <2>1
    <2>. QED
      BY <1>1, <1>3, <2>1, <2>2 DEF BonusStep, MovesTo
  <1>11. CASE postBonus(d)
    <2>1. hook[d].at = "bonusPost" /\ referral' = referral /\ MovesTo(d, "match")
      BY <1>1, <1>11, StepMoves DEF postBonus, Stages
    <2>2. BonusPaidNext(t)
      <3>. DEFINE n == [ref |-> BonusRef(t), tenant |-> t, amount |-> 1]
      <3>1. n \in entries' /\ n.ref = BonusRef(t)
        BY <1>11 DEF postBonus, TenantOf
      <3>. QED
        BY <3>1 DEF BonusPaidNext
    <2>. QED
      BY <2>1, <2>2 DEF BonusStep, MovesTo
  <1>12. CASE processAffiliateCreditMatch(d)
    <2>1. /\ hook[d].at = "match" /\ hook'[d].ev = hook[d].ev /\ hook'[d].at \in {"promo", "matchPost"}
      <3>1. PICK to \in {"promo", "matchPost"} :
               hook' = [hook EXCEPT ![d].at = to, ![d].promo = "bonus_on_purchase"]
        BY <1>12 DEF processAffiliateCreditMatch
      <3>2. MovesOn(d, to, "bonus_on_purchase") /\ to \in Stages
        BY <3>1 DEF MovesOn, Stages, PromoStages
      <3>. QED
        BY <1>1, <1>12, <3>2, PromoMoves DEF processAffiliateCreditMatch, Promotions
    <2>2. /\ \/ referral' = referral
             \/ t \in Referred /\ referral' = [referral EXCEPT ![t].first = TRUE]
          /\ hook'[d].at = "matchPost" => t \in Referred
      <3>1. (\E r \in getReferral(TenantOf(d)) : ~r.matched) => t \in Referred
        BY DEF getReferral, TenantOf
      <3>2. CASE referral' = referral /\ hook'[d].at = "promo"
        BY <3>2
      <3>3. CASE \E r \in getReferral(TenantOf(d)) : ~r.matched
        BY <1>12, <3>1, <3>3 DEF processAffiliateCreditMatch, TenantOf
      <3>4. CASE ~\E r \in getReferral(TenantOf(d)) : ~r.matched
        <4>1. referral' = referral /\ MovesOn(d, "promo", "bonus_on_purchase")
          BY <1>12, <3>4 DEF processAffiliateCreditMatch, MovesOn
        <4>2. hook'[d].at = "promo"
          BY <1>1, <4>1, PromoMoves DEF Stages, PromoStages, Promotions
        <4>. QED
          BY <4>1, <4>2
      <3>. QED
        BY <3>3, <3>4
    <2>3. \A u \in Referred : /\ u # t => referral'[u] = referral[u]
                              /\ referral[u].first => referral'[u].first
      BY <1>1, <2>2
    <2>4. \A u \in Referred : referral'[u].first = referral[u].first \/ (u = t /\ referral'[u].first /\ ~referral[u].first)
      <3>1. CASE referral' = referral
        BY <3>1
      <3>2. CASE referral' # referral
        <4>1. t \in Referred /\ referral' = [referral EXCEPT ![t].first = TRUE]
          BY <2>2, <3>2
        <4>2. referral'[t].first = TRUE /\ referral[t].first \in BOOLEAN
          BY <1>1, <4>1
        <4>. QED
          BY <2>3, <4>2
      <3>. QED
        BY <3>1, <3>2
    <2>5. t \in Referred => referral[t].first \/ BonusPaidNext(t)
      BY <1>3, <1>4, <2>1
    <2>. QED
      BY <2>1, <2>2, <2>3, <2>4, <2>5 DEF BonusStep
  <1>13. CASE postMatch(d)
    <2>1. hook[d].at = "matchPost" /\ referral' = referral /\ MovesTo(d, "matchRecord")
      BY <1>1, <1>13, StepMoves DEF postMatch, Stages
    <2>. QED
      BY <1>3, <1>4, <2>1 DEF BonusStep, MovesTo
  <1>14. CASE recordMatch(d)
    <2>1. /\ hook[d].at = "matchRecord" /\ MovesTo(d, "promo")
          /\ referral' = [referral EXCEPT ![t] = [first |-> TRUE, matched |-> TRUE]]
      BY <1>1, <1>14, StepMoves DEF recordMatch, Stages, PromoStages, TenantOf
    <2>2. \A u \in Referred : IF u = t THEN referral'[u].first ELSE referral'[u] = referral[u]
      BY <1>1, <2>1
    <2>. QED
      BY <1>1, <1>3, <1>4, <2>1, <2>2 DEF BonusStep, MovesTo
  <1>. QED
    BY <1>6, <1>7, <1>8, <1>9, <1>10, <1>11, <1>12, <1>13, <1>14 DEF GrantStep, PromoStep

-----------------------------------------------------------------------------
(* The referrer is paid for no more than the cap                            *)

\* A set of matches is no larger than the set of tenants they are for.
LEMMA MatchesInject ==
    ASSUME NEW C, IsFiniteSet(C), NEW S, \A n \in S : \E u \in C : n = MatchEntry(u)
    PROVE  IsFiniteSet(S) /\ Cardinality(S) \in Nat /\ Cardinality(C) \in Nat /\ Cardinality(S) <= Cardinality(C)
  <1>. DEFINE f == [n \in S |-> n.ref[2]]
  <1>1. \A n \in S : f[n] \in C /\ n = MatchEntry(f[n])
    BY DEF MatchEntry, MatchRef
  <1>2. f \in [S -> C]
    BY <1>1
  <1>3. \A m, n \in S : f[m] = f[n] => m = n
    BY <1>1
  <1>. HIDE DEF f
  <1>4. f \in Injection(S, C)
    BY <1>2, <1>3 DEF Injection, IsInjective
  <1>. QED
    BY <1>4, FS_Injection, FS_CardinalityType

\* What a step may do to the matches without losing count of them.
MatchStep(d) ==
    LET t == hook[d].ev.tenant IN
    /\ \A n \in entries' :
         \/ n \in entries
         \/ n.ref[1] # "affiliate_match"
         \/ /\ n = MatchEntry(t) /\ t \in Referred
            /\ hook[d].at = "matchPost" /\ hook'[d].at = "matchRecord"
    /\ hook'[d].at \in MatchStages => hook'[d].ev = hook[d].ev
    /\ hook'[d].at = "matchRecord" => hook[d].at = "matchPost"
    /\ hook'[d].at = "matchPost" =>
         /\ hook[d].at = "match" /\ ~VelocityCapped
         /\ Overlapped(d, MatchStages) => "match" \in raced'
    /\ \A u \in Referred :
         \/ referral'[u].matched = referral[u].matched
         \/ (hook[d].at = "matchRecord" /\ referral'[u].matched)
    /\ hook[d].at = "matchRecord" => <<"match", t>> \in lost' \/ referral'[t].matched

\* Such a step keeps the count and the cap.
LEMMA MatchKept ==
    ASSUME MatchesCounted, MatchesCapped, BonusFirst, NEW d \in Deliveries, Moves(d),
           entries \subseteq entries', lost \subseteq lost', raced \subseteq raced',
           referral \in [Referred -> [first : BOOLEAN, matched : BOOLEAN]],
           referral' \in [Referred -> [first : BOOLEAN, matched : BOOLEAN]], MatchStep(d)
    PROVE  MatchesCounted' /\ MatchesCapped'
  <1>. DEFINE t == hook[d].ev.tenant
              C == {u \in Referred : referral[u].matched}
              Quiet == "match" \notin raced' /\ \A u \in Referred : <<"match", u>> \notin lost'
  <1>1. /\ \A n \in entries' :
             \/ n \in entries
             \/ n.ref[1] # "affiliate_match"
             \/ /\ n = MatchEntry(t) /\ t \in Referred
                /\ hook[d].at = "matchPost" /\ hook'[d].at = "matchRecord"
        /\ hook'[d].at \in MatchStages => hook'[d].ev = hook[d].ev
        /\ hook'[d].at = "matchRecord" => hook[d].at = "matchPost"
        /\ hook'[d].at = "matchPost" =>
             /\ hook[d].at = "match" /\ ~VelocityCapped
             /\ Overlapped(d, MatchStages) => "match" \in raced'
        /\ \A u \in Referred :
             \/ referral'[u].matched = referral[u].matched
             \/ (hook[d].at = "matchRecord" /\ referral'[u].matched)
        /\ hook[d].at = "matchRecord" => <<"match", t>> \in lost' \/ referral'[t].matched
    BY DEF MatchStep
  <1>2. \A o \in Deliveries \ {d} : hook'[o] = hook[o]
    BY DEF Moves
  <1>3. hook[d].at = "matchRecord" => t \in Referred
    BY DEF BonusFirst, TenantOf
  <1>4. Matches' \subseteq Matches
          \cup {n \in {MatchEntry(t)} : t \in Referred /\ hook[d].at = "matchPost" /\ hook'[d].at = "matchRecord"}
    BY <1>1 DEF Matches
  <1>5. \A n \in Matches' : \E u \in Referred : n = MatchEntry(u)
    BY <1>4 DEF MatchesCounted
  <1>6. Quiet => MatchUndisturbed
    BY DEF MatchUndisturbed
  <1>7. ASSUME Quiet, NEW p \in Deliveries, NEW o \in Deliveries,
               hook'[p].at \in MatchStages, hook'[o].at \in MatchStages
        PROVE  p = o
    <2>1. \A q \in Deliveries \ {d} : ~(hook'[d].at \in MatchStages /\ hook'[q].at \in MatchStages)
      <3>. SUFFICES ASSUME NEW q \in Deliveries \ {d}, hook'[d].at \in MatchStages, hook'[q].at \in MatchStages
                    PROVE  FALSE
        OBVIOUS
      <3>1. hook[q].at \in MatchStages
        BY <1>2
      <3>2. hook[d].at \notin MatchStages
        BY <1>6, <1>7, <3>1 DEF MatchesCounted
      <3>3. "match" \in raced'
        BY <1>1, <3>1, <3>2 DEF MatchStages, Overlapped
      <3>. QED
        BY <1>7, <3>3
    <2>. QED
      BY <1>2, <1>6, <1>7, <2>1 DEF MatchesCounted
  <1>8. ASSUME Quiet, NEW u \in Referred, MatchEntry(u) \in entries'
        PROVE  referral'[u].matched \/ \E o \in Deliveries : hook'[o].at = "matchRecord" /\ hook'[o].ev.tenant = u
    <2>1. CASE MatchEntry(u) \in entries
      <3>1. \/ referral[u].matched
            \/ \E o \in Deliveries : hook[o].at = "matchRecord" /\ hook[o].ev.tenant = u
        BY <1>6, <1>8, <2>1 DEF MatchesCounted, TenantOf
      <3>2. CASE hook[d].at = "matchRecord" /\ t = u
        BY <1>1, <1>8, <3>2
      <3>. QED
        BY <1>1, <1>2, <3>1, <3>2
    <2>2. CASE MatchEntry(u) \notin entries
      <3>1. MatchEntry(u).ref[1] = "affiliate_match"
        BY DEF MatchEntry, MatchRef
      <3>2. MatchEntry(u) = MatchEntry(t) /\ hook'[d].at = "matchRecord"
        BY <1>1, <1>8, <2>2, <3>1
      <3>3. MatchEntry(u).ref[2] = u /\ MatchEntry(t).ref[2] = t
        BY DEF MatchEntry, MatchRef
      <3>4. u = t /\ hook'[d].ev = hook[d].ev
        BY <1>1, <3>2, <3>3 DEF MatchStages
      <3>. QED
        BY <3>2, <3>4
    <2>. QED
      BY <2>1, <2>2
  <1>9. ASSUME Quiet, NEW o \in Deliveries, hook'[o].at = "matchPost"
        PROVE  ~(Cardinality({u \in Referred : referral'[u].matched}) >= MaxReferrals30d)
    <2>1. ~VelocityCapped
      <3>1. CASE o = d
        BY <1>1, <1>9, <3>1
      <3>2. CASE o # d
        BY <1>2, <1>6, <1>9, <3>2 DEF MatchesCounted
      <3>. QED
        BY <3>1, <3>2
    <2>2. hook[d].at # "matchRecord"
      <3>1. CASE o = d
        BY <1>1, <1>9, <3>1
      <3>2. CASE o # d
        BY <1>2, <1>6, <1>9, <3>2 DEF MatchesCounted, MatchStages
      <3>. QED
        BY <3>1, <3>2
    <2>3. {u \in Referred : referral'[u].matched} = C
      BY <1>1, <2>2
    <2>. QED
      BY <2>1, <2>3 DEF VelocityCapped, PayoutCount
  <1>10. MatchesCounted'
    <2>. HIDE DEF Quiet
    <2>1. \A n \in Matches' : \E u \in Referred : n = MatchEntry(u)
      BY <1>5
    <2>2. MatchUndisturbed' => Quiet
      BY DEF MatchUndisturbed, Quiet
    <2>3. Quiet =>
            /\ \A p, o \in Deliveries : hook'[p].at \in MatchStages /\ hook'[o].at \in MatchStages => p = o
            /\ \A u \in Referred : MatchEntry(u) \in entries' =>
                 \/ referral'[u].matched
                 \/ \E o \in Deliveries : hook'[o].at = "matchRecord" /\ hook'[o].ev.tenant = u
            /\ \A o \in Deliveries : hook'[o].at = "matchPost" =>
                 ~(Cardinality({u \in Referred : referral'[u].matched}) >= MaxReferrals30d)
      BY <1>7, <1>8, <1>9
    <2>. QED
      BY <2>1, <2>2, <2>3 DEF MatchesCounted, MatchEntry, MatchRef, MatchStages, TenantOf, Of, VelocityCapped, PayoutCount
  <1>11. MatchesCapped'
    <2>. SUFFICES ASSUME Quiet PROVE ~(Cardinality(Matches') > MaxReferrals30d)
      BY DEF MatchesCapped, Quiet
    <2>1. MaxReferrals30d \in Nat /\ IsFiniteSet(Referred)
      <3>1. {MaxReferrals30d, TotalUseLimit, MaxThrows} \subseteq Nat
        BY PurchasesAssumption
      <3>. QED
        BY <3>1, PurchasesAssumption
    <2>2. IsFiniteSet(C)
      BY <2>1, FS_Subset
    <2>3. Matches \subseteq Matches'
      BY DEF Matches
    <2>4. CASE Matches' \subseteq Matches
      <3>1. Matches' = Matches
        BY <2>3, <2>4
      <3>. QED
        BY <1>6, <3>1 DEF MatchesCapped, MatchUndisturbed
    <2>5. CASE ~(Matches' \subseteq Matches)
      <3>1. hook[d].at = "matchPost" /\ Matches' \subseteq Matches \cup {MatchEntry(t)}
        BY <1>4, <2>5
      <3>2. \A n \in Matches : \E u \in C : n = MatchEntry(u)
        <4>. SUFFICES ASSUME NEW n \in Matches PROVE \E u \in C : n = MatchEntry(u)
          OBVIOUS
        <4>1. PICK u \in Referred : n = MatchEntry(u)
          BY DEF MatchesCounted
        <4>2. MatchEntry(u) \in entries
          BY <4>1 DEF Matches
        <4>3. referral[u].matched
          BY <1>6, <3>1, <4>2 DEF MatchesCounted, MatchStages
        <4>. QED
          BY <4>1, <4>3
      <3>3. ~(Cardinality(C) >= MaxReferrals30d)
        BY <1>6, <3>1 DEF MatchesCounted, VelocityCapped, PayoutCount
      <3>. HIDE DEF C
      <3>4. /\ IsFiniteSet(Matches) /\ Cardinality(Matches) \in Nat
            /\ Cardinality(C) \in Nat /\ Cardinality(Matches) <= Cardinality(C)
        BY <2>2, <3>2, MatchesInject
      <3>5. Cardinality(Matches) + 1 <= MaxReferrals30d
        BY <2>1, <3>3, <3>4
      <3>. DEFINE M == Matches \cup {MatchEntry(t)}
      <3>6. IsFiniteSet(M) /\ Cardinality(M) <= Cardinality(Matches) + 1
        <4>1. /\ IsFiniteSet(M)
              /\ Cardinality(M) = IF MatchEntry(t) \in Matches THEN Cardinality(Matches) ELSE Cardinality(Matches) + 1
          BY <3>4, FS_AddElement
        <4>. HIDE DEF M
        <4>. QED
          BY <3>4, <4>1
      <3>7. Matches' \subseteq M
        BY <3>1
      <3>. HIDE DEF M
      <3>8. /\ Cardinality(Matches') <= Cardinality(M) /\ Cardinality(Matches') \in Nat
            /\ Cardinality(M) \in Nat
        BY <3>6, <3>7, FS_Subset, FS_CardinalityType
      <3>. QED
        BY <2>1, <3>4, <3>5, <3>6, <3>8
    <2>. QED
      BY <2>4, <2>5
  <1>. QED
    BY <1>10, <1>11

\* What an event posts is named after an object of Stripe, not as a grant is.
LEMMA EventEntries ==
    ASSUME HooksOK, PurchasesTypeOK, NEW d \in Deliveries, EventStep(d)
    PROVE  \A n \in entries' : n \in entries \/ n.ref[1] \notin GrantPrefixes
  <1>1. CASE postEvent(d)
    <2>1. Of(d).object \notin GrantPrefixes
      BY <1>1, EventKnown DEF postEvent
    <2>2. Ref(Of(d))[1] = Of(d).object
      BY DEF Ref
    <2>3. \A n \in entries' : n \in entries \/ n.ref = Ref(Of(d))
      BY <1>1 DEF postEvent
    <2>. QED
      BY <2>1, <2>2, <2>3
  <1>2. CASE ~postEvent(d)
    BY <1>2 DEF EventStep, Kept, handleWebhookEvent, hasReferenceId, markSeen, checkoutCompleted,
           lookupCustomer, setBillingHold, suspendAllForTenant, checkReactivation, subscriptionUpdated,
           subscriptionDeleted
  <1>. QED
    BY <1>1, <1>2

\* What the engine posts is named after the promotion.
LEMMA PromoEntries ==
    ASSUME NEW d \in Deliveries, PromoStep(d)
    PROVE  \/ entries' = entries
           \/ /\ postPromo(d) /\ hook[d].at = "promoPost"
              /\ entries' = entries \cup
                    {[ref |-> PromoRef(hook[d].promo, TenantOf(d)), tenant |-> TenantOf(d), amount |-> 1]}
  BY DEF PromoStep, redeemCoupon, tryGrant, incrementUsageIfAllowed, postPromo, recordRedemption, redeemCode,
         Kept, Step

\* Every step keeps the count of the matches and the cap.
LEMMA MatchesNext ==
    ASSUME HooksOK, PurchasesTypeOK, BonusFirst, MatchesCounted, MatchesCapped,
           NEW d \in Deliveries, EventStep(d) \/ GrantStep(d) \/ ThrowStep(d), PurchasesTypeOK'
    PROVE  MatchesCounted' /\ MatchesCapped'
  <1>. DEFINE t == hook[d].ev.tenant
  <1>1. /\ Moves(d) /\ entries \subseteq entries' /\ lost \subseteq lost' /\ raced \subseteq raced'
        /\ workload' = workload
        /\ referral \in [Referred -> [first : BOOLEAN, matched : BOOLEAN]]
        /\ referral' \in [Referred -> [first : BOOLEAN, matched : BOOLEAN]]
    BY AllMove, Monotone, EventEffect, GrantEffect, ThrowEffect DEF PurchasesTypeOK
  <1>2. SUFFICES MatchStep(d)
    BY <1>1, MatchKept
  <1>. USE DEF affiliate
  <1>3. ASSUME hook[d].at # "matchRecord", hook'[d].at \notin MatchStages,
               \A u \in Referred : referral'[u].matched = referral[u].matched,
               \A n \in entries' : n \in entries \/ n.ref[1] # "affiliate_match"
        PROVE  MatchStep(d)
    BY <1>3 DEF MatchStep, MatchStages
  <1>4. CASE EventStep(d)
    <2>1. \A n \in entries' : n \in entries \/ n.ref[1] # "affiliate_match"
      BY <1>4, EventEntries DEF GrantPrefixes
    <2>. QED
      BY <1>3, <1>4, <2>1, EventStages DEF GrantStages, MatchStages
  <1>5. CASE PromoStep(d)
    <2>1. \A n \in entries' : n \in entries \/ n.ref[1] # "affiliate_match"
      <3>1. CASE entries' = entries
        BY <3>1
      <3>2. CASE entries' # entries
        <4>1. hook[d].promo \in Promotions
          BY <1>5, <3>2, PromoEntries DEF HooksOK, HookFits, PromoStages
        <4>2. \A n \in entries' : n \in entries \/ n.ref = PromoRef(hook[d].promo, TenantOf(d))
          BY <1>5, <3>2, PromoEntries
        <4>. QED
          BY <4>1, <4>2 DEF PromoRef, Promotions
      <3>. QED
        BY <3>1, <3>2
    <2>. QED
      BY <1>3, <1>5, <2>1, PromoStepStages DEF PromoStages, MatchStages
  <1>6. CASE ThrowStep(d)
    <2>1. /\ hook'[d].at \in {"idle", "reactivate"} /\ referral' = referral /\ entries' = entries
          /\ lost' = lost \cup Cut(d)
      BY <1>6, ThrowEffect DEF CutOff, MovesTo, Free
    <2>2. CASE hook[d].at = "matchRecord"
      <3>1. <<"match", t>> \in lost'
        BY <2>1, <2>2 DEF Cut, TenantOf
      <3>. QED
        BY <2>1, <3>1 DEF MatchStep, MatchStages
    <2>. QED
      BY <1>3, <2>1, <2>2 DEF MatchStages
  <1>7. CASE grantNewUserBonus(d) \/ markFirstPurchase(d) \/ postBonus(d)
    <2>1. \E from \in {"bonus", "firstPurchase", "bonusPost"}, to \in {"firstPurchase", "match", "bonusPost"} :
             Step(d, from, to)
      BY <1>7 DEF grantNewUserBonus, markFirstPurchase, postBonus
    <2>2. hook[d].at # "matchRecord" /\ hook'[d].at \notin MatchStages
      BY <1>1, <2>1, StepMoves DEF MovesTo, Stages, MatchStages
    <2>3. \A u \in Referred : referral'[u].matched = referral[u].matched
      <3>1. CASE markFirstPurchase(d)
        <4>1. referral' = [referral EXCEPT ![t].first = TRUE]
          BY <3>1 DEF markFirstPurchase, TenantOf
        <4>. QED
          BY <1>1, <4>1
      <3>2. CASE ~markFirstPurchase(d)
        BY <1>7, <3>2 DEF grantNewUserBonus, postBonus
      <3>. QED
        BY <3>1, <3>2
    <2>4. \A n \in entries' : n \in entries \/ n.ref[1] # "affiliate_match"
      <3>1. CASE postBonus(d)
        <4>1. \A n \in entries' : n \in entries \/ n.ref = BonusRef(TenantOf(d))
          BY <3>1 DEF postBonus
        <4>. QED
          BY <4>1 DEF BonusRef
      <3>2. CASE ~postBonus(d)
        BY <1>7, <3>2 DEF grantNewUserBonus, markFirstPurchase, Kept
      <3>. QED
        BY <3>1, <3>2
    <2>. QED
      BY <1>3, <2>2, <2>3, <2>4
  <1>8. CASE processAffiliateCreditMatch(d)
    <2>1. /\ hook[d].at = "match" /\ hook'[d].ev = hook[d].ev /\ hook'[d].at \in {"promo", "matchPost"}
          /\ entries' = entries /\ (Overlapped(d, MatchStages) => "match" \in raced')
      <3>1. PICK to \in {"promo", "matchPost"} :
               hook' = [hook EXCEPT ![d].at = to, ![d].promo = "bonus_on_purchase"]
        BY <1>8 DEF processAffiliateCreditMatch
      <3>2. MovesOn(d, to, "bonus_on_purchase") /\ to \in Stages
        BY <3>1 DEF MovesOn, Stages, PromoStages
      <3>. QED
        BY <1>1, <1>8, <3>2, PromoMoves DEF processAffiliateCreditMatch, Promotions, MatchStages
    <2>2. \A u \in Referred : referral'[u].matched = referral[u].matched
      <3>1. \/ referral' = referral
            \/ referral' = [referral EXCEPT ![t].first = TRUE]
        BY <1>8 DEF processAffiliateCreditMatch, TenantOf
      <3>. QED
        BY <1>1, <3>1
    <2>3. hook'[d].at = "matchPost" => ~VelocityCapped
      <3>1. CASE VelocityCapped
        <4>1. MovesOn(d, "promo", "bonus_on_purchase")
          BY <1>8, <3>1 DEF processAffiliateCreditMatch, MovesOn
        <4>2. hook'[d].at = "promo"
          BY <1>1, <4>1, PromoMoves DEF Stages, PromoStages, Promotions
        <4>. QED
          BY <4>2
      <3>. QED
        BY <3>1
    <2>. QED
      BY <2>1, <2>2, <2>3 DEF MatchStep, MatchStages
  <1>9. CASE postMatch(d)
    <2>1. /\ hook[d].at = "matchPost" /\ referral' = referral /\ MovesTo(d, "matchRecord")
          /\ entries' = entries \cup {MatchEntry(t)}
      BY <1>1, <1>9, StepMoves DEF postMatch, Stages, MatchEntry, TenantOf
    <2>2. t \in Referred
      BY <2>1 DEF BonusFirst, TenantOf
    <2>. QED
      BY <2>1, <2>2 DEF MatchStep, MovesTo
  <1>10. CASE recordMatch(d)
    <2>1. /\ hook[d].at = "matchRecord" /\ MovesTo(d, "promo") /\ entries' = entries
          /\ referral' = [referral EXCEPT ![t] = [first |-> TRUE, matched |-> TRUE]]
      BY <1>1, <1>10, StepMoves DEF recordMatch, Stages, PromoStages, TenantOf
    <2>2. t \in Referred
      BY <2>1 DEF BonusFirst, TenantOf
    <2>3. referral'[t].matched /\ \A u \in Referred : u # t => referral'[u] = referral[u]
      BY <1>1, <2>1, <2>2
    <2>. QED
      BY <2>1, <2>3 DEF MatchStep, MovesTo, MatchStages
  <1>. QED
    BY <1>4, <1>5, <1>6, <1>7, <1>8, <1>9, <1>10 DEF GrantStep, PromoStep

-----------------------------------------------------------------------------
(* A unique code pays once                                                  *)

CouponNext(d) == hook'[d].at \in CodeStages /\ hook'[d].promo = "coupon_unique"
CodeEntry(t) == [ref |-> PromoRef("coupon_unique", t), tenant |-> t, amount |-> 1]

Unpaid == {"promoUse", "promoPost"}
Paid == {"promoRecord", "promoCode"}

\* What a step may do to the unique code without paying it again.
CodeStep(d) ==
    /\ \A n \in entries' :
         \/ n \in entries
         \/ n.ref[1] # "coupon_unique"
         \/ /\ n = CodeEntry(hook[d].ev.tenant)
            /\ Coupon(d) /\ hook[d].at = "promoPost" /\ CouponNext(d) /\ hook'[d].at = "promoRecord"
    /\ CouponNext(d) /\ ~Coupon(d) =>
         /\ findUnredeemed /\ redeemed' = redeemed
         /\ Overlapped(d, CodeStages) => "code" \in raced'
    /\ CouponNext(d) /\ hook'[d].at \in Unpaid => ~Coupon(d) \/ hook[d].at \in Unpaid
    /\ redeemed' # redeemed => Coupon(d) /\ hook[d].at = "promoCode" /\ redeemed' # {}
    /\ Coupon(d) /\ hook[d].at \in Paid =>
         \/ CouponNext(d) /\ hook'[d].at \in Paid
         \/ redeemed' # {}
         \/ \E u \in Tenants : <<"code", u>> \in lost'

\* Such a step keeps the code paid at most once.
LEMMA CodeKept ==
    ASSUME CodeMarked, NEW d \in Deliveries, Moves(d),
           entries \subseteq entries', lost \subseteq lost', raced \subseteq raced', CodeStep(d)
    PROVE  CodeMarked'
  <1>. DEFINE Quiet == "code" \notin raced' /\ \A u \in Tenants : <<"code", u>> \notin lost'
  <1>1. /\ \A n \in entries' :
             \/ n \in entries
             \/ n.ref[1] # "coupon_unique"
             \/ /\ n = CodeEntry(hook[d].ev.tenant)
                /\ Coupon(d) /\ hook[d].at = "promoPost" /\ CouponNext(d) /\ hook'[d].at = "promoRecord"
        /\ CouponNext(d) /\ ~Coupon(d) =>
             /\ findUnredeemed /\ redeemed' = redeemed
             /\ Overlapped(d, CodeStages) => "code" \in raced'
        /\ CouponNext(d) /\ hook'[d].at \in Unpaid => ~Coupon(d) \/ hook[d].at \in Unpaid
        /\ redeemed' # redeemed => Coupon(d) /\ hook[d].at = "promoCode" /\ redeemed' # {}
        /\ Coupon(d) /\ hook[d].at \in Paid =>
             \/ CouponNext(d) /\ hook'[d].at \in Paid
             \/ redeemed' # {}
             \/ \E u \in Tenants : <<"code", u>> \in lost'
    BY DEF CodeStep
  <1>2. \A o \in Deliveries \ {d} :
           hook'[o] = hook[o] /\ (CouponNext(o) <=> Coupon(o)) /\ (Coupon(o) => hook[o].at \in CodeStages)
    BY DEF Moves, CouponNext, Coupon
  <1>3. SUFFICES ASSUME Quiet
                 PROVE  /\ \A p, o \in Deliveries : CouponNext(p) /\ CouponNext(o) => p = o
                        /\ CodeGrants' # {} =>
                              redeemed' # {} \/ \E o \in Deliveries : CouponNext(o) /\ hook'[o].at \in Paid
                        /\ \A o \in Deliveries : CouponNext(o) /\ hook'[o].at \in Unpaid => redeemed' = {}
                        /\ \A m, n \in CodeGrants' : m = n
    BY DEF CodeMarked, CodeUndisturbed, Coupon, CouponNext, CodeStages, Paid, Unpaid
  <1>4. /\ \A p, o \in Deliveries : Coupon(p) /\ Coupon(o) => p = o
        /\ CodeGrants # {} => redeemed # {} \/ \E o \in Deliveries : Coupon(o) /\ hook[o].at \in Paid
        /\ \A o \in Deliveries : Coupon(o) /\ hook[o].at \in Unpaid => redeemed = {}
        /\ \A m, n \in CodeGrants : m = n
    BY <1>3 DEF CodeMarked, CodeUndisturbed, Paid, Unpaid
  <1>5. \A o \in Deliveries \ {d} : ~(CouponNext(d) /\ CouponNext(o))
    <2>. SUFFICES ASSUME NEW o \in Deliveries \ {d}, CouponNext(d), CouponNext(o) PROVE FALSE
      OBVIOUS
    <2>1. Coupon(o) /\ hook[o].at \in CodeStages
      BY <1>2
    <2>2. ~Coupon(d)
      BY <1>4, <2>1
    <2>3. "code" \in raced'
      BY <1>1, <2>1, <2>2 DEF Overlapped
    <2>. QED
      BY <1>3, <2>3
  <1>6. \A p, o \in Deliveries : CouponNext(p) /\ CouponNext(o) => p = o
    BY <1>2, <1>4, <1>5
  <1>7. ASSUME NEW o \in Deliveries, CouponNext(o), hook'[o].at \in Unpaid PROVE redeemed' = {}
    <2>1. CASE o = d
      <3>1. CASE Coupon(d)
        <4>1. hook[d].at \in Unpaid
          BY <1>1, <1>7, <2>1, <3>1
        <4>. QED
          BY <1>1, <1>4, <3>1, <4>1 DEF Unpaid
      <3>2. CASE ~Coupon(d)
        BY <1>1, <1>7, <2>1, <3>2 DEF findUnredeemed
      <3>. QED
        BY <3>1, <3>2
    <2>2. CASE o # d
      <3>1. Coupon(o) /\ hook[o].at \in Unpaid
        BY <1>2, <1>7, <2>2
      <3>2. redeemed' = redeemed
        BY <1>1, <1>4, <2>2, <3>1
      <3>. QED
        BY <1>4, <3>1, <3>2
    <2>. QED
      BY <2>1, <2>2
  <1>8. CASE CodeGrants' \subseteq CodeGrants
    <2>1. CodeGrants' # {} => redeemed' # {} \/ \E o \in Deliveries : CouponNext(o) /\ hook'[o].at \in Paid
      <3>. SUFFICES ASSUME CodeGrants' # {}, redeemed' = {}
                    PROVE  \E o \in Deliveries : CouponNext(o) /\ hook'[o].at \in Paid
        OBVIOUS
      <3>1. redeemed = {}
        BY <1>1
      <3>2. PICK o \in Deliveries : Coupon(o) /\ hook[o].at \in Paid
        BY <1>4, <1>8, <3>1
      <3>3. CASE o = d
        BY <1>1, <1>3, <3>2, <3>3
      <3>4. CASE o # d
        BY <1>2, <3>2, <3>4
      <3>. QED
        BY <3>3, <3>4
    <2>. QED
      BY <1>4, <1>6, <1>7, <1>8, <2>1
  <1>9. CASE ~(CodeGrants' \subseteq CodeGrants)
    <2>1. PICK n \in entries' : n.ref[1] = "coupon_unique" /\ n \notin entries
      BY <1>9 DEF CodeGrants
    <2>2. Coupon(d) /\ hook[d].at = "promoPost" /\ CouponNext(d) /\ hook'[d].at = "promoRecord"
      BY <1>1, <2>1
    <2>3. redeemed = {}
      BY <1>4, <2>2 DEF Unpaid
    <2>4. \A o \in Deliveries : Coupon(o) => hook[o].at \notin Paid
      BY <1>4, <2>2 DEF Paid
    <2>5. CodeGrants = {}
      BY <1>4, <2>3, <2>4
    <2>6. \A m \in CodeGrants' : m = CodeEntry(hook[d].ev.tenant)
      BY <1>1, <2>5 DEF CodeGrants
    <2>7. \E o \in Deliveries : CouponNext(o) /\ hook'[o].at \in Paid
      BY <2>2 DEF Paid
    <2>. QED
      BY <1>6, <1>7, <2>6, <2>7
  <1>. QED
    BY <1>8, <1>9

\* A code that is marked or being marked pays nobody again.
LEMMA CodePays == CodeMarked => CodePaysOnce
  <1>. SUFFICES ASSUME CodeMarked, CodeUndisturbed PROVE ~(Cardinality(CodeGrants) > 1)
    BY DEF CodePaysOnce, CodeUndisturbed
  <1>1. \A m, n \in CodeGrants : m = n
    BY DEF CodeMarked
  <1>2. CodeGrants = {} \/ \E n : CodeGrants = {n}
    BY <1>1
  <1>3. Cardinality(CodeGrants) \in {0, 1}
    BY <1>2, FS_EmptySet, FS_Singleton
  <1>. QED
    BY <1>3

\* Every step keeps the code paid at most once.
LEMMA CodeNext ==
    ASSUME HooksOK, PurchasesTypeOK, CodeMarked,
           NEW d \in Deliveries, EventStep(d) \/ GrantStep(d) \/ ThrowStep(d)
    PROVE  CodeMarked'
  <1>. DEFINE t == hook[d].ev.tenant
  <1>1. /\ Moves(d) /\ entries \subseteq entries' /\ lost \subseteq lost' /\ raced \subseteq raced'
        /\ workload' = workload
    BY AllMove, Monotone, EventEffect, GrantEffect, ThrowEffect
  <1>2. SUFFICES CodeStep(d)
    BY <1>1, CodeKept
  <1>. USE DEF promotion
  <1>3. ASSUME ~(Coupon(d) /\ hook[d].at \in Paid), ~CouponNext(d), redeemed' = redeemed,
               \A n \in entries' : n \in entries \/ n.ref[1] # "coupon_unique"
        PROVE  CodeStep(d)
    BY <1>3 DEF CodeStep
  <1>4. CASE EventStep(d)
    <2>1. \A n \in entries' : n \in entries \/ n.ref[1] # "coupon_unique"
      BY <1>4, EventEntries DEF GrantPrefixes
    <2>2. ~Coupon(d) /\ ~CouponNext(d) /\ redeemed' = redeemed
      BY <1>4, EventStages DEF GrantStages, PromoStages, CodeStages, Coupon, CouponNext
    <2>. QED
      BY <1>3, <2>1, <2>2
  <1>5. CASE ThrowStep(d)
    <2>1. /\ hook'[d].at \in {"idle", "reactivate"} /\ redeemed' = redeemed /\ entries' = entries
          /\ lost' = lost \cup Cut(d)
      BY <1>5, ThrowEffect DEF CutOff, MovesTo, Free
    <2>2. ~CouponNext(d)
      BY <2>1 DEF CouponNext, CodeStages
    <2>3. CASE Coupon(d) /\ hook[d].at \in Paid
      <3>1. <<"code", t>> \in lost' /\ t \in Tenants
        BY <2>1, <2>3, EventKnown DEF Cut, TenantOf, Paid
      <3>. QED
        BY <2>1, <2>2, <3>1 DEF CodeStep
    <2>. QED
      BY <1>3, <2>1, <2>2, <2>3
  <1>6. CASE grantNewUserBonus(d) \/ markFirstPurchase(d) \/ postBonus(d) \/ postMatch(d) \/ recordMatch(d)
    <2>1. \E from \in GrantStages \ PromoStages,
             to \in {"firstPurchase", "match", "bonusPost", "matchRecord", "promo"} : Step(d, from, to)
      BY <1>6 DEF grantNewUserBonus, markFirstPurchase, postBonus, postMatch, recordMatch, GrantStages, PromoStages
    <2>2. ~Coupon(d) /\ ~CouponNext(d)
      BY <1>1, <2>1, StepMoves DEF MovesTo, Stages, Coupon, CouponNext, CodeStages, PromoStages
    <2>3. redeemed' = redeemed
      BY <1>6 DEF grantNewUserBonus, markFirstPurchase, postBonus, postMatch, recordMatch
    <2>4. \A n \in entries' : n \in entries \/ n.ref \in {BonusRef(TenantOf(d)), MatchRef(TenantOf(d))}
      BY <1>6 DEF grantNewUserBonus, markFirstPurchase, postBonus, postMatch, recordMatch, Kept
    <2>5. \A n \in entries' : n \in entries \/ n.ref[1] # "coupon_unique"
      BY <2>4 DEF BonusRef, MatchRef
    <2>. QED
      BY <1>3, <2>2, <2>3, <2>5
  <1>7. CASE processAffiliateCreditMatch(d)
    <2>1. hook[d].at = "match" /\ hook'[d].promo = "bonus_on_purchase" /\ entries' = entries /\ redeemed' = redeemed
      <3>1. PICK to \in {"promo", "matchPost"} :
               hook' = [hook EXCEPT ![d].at = to, ![d].promo = "bonus_on_purchase"]
        BY <1>7 DEF processAffiliateCreditMatch
      <3>2. MovesOn(d, to, "bonus_on_purchase") /\ to \in Stages
        BY <3>1 DEF MovesOn, Stages, PromoStages
      <3>. QED
        BY <1>1, <1>7, <3>2, PromoMoves DEF processAffiliateCreditMatch, Promotions
    <2>. QED
      BY <1>3, <2>1 DEF Coupon, CouponNext, CodeStages
  <1>8. ASSUME NEW e \in workload, redeemCoupon(d, e) PROVE CodeStep(d)
    <2>1. hook[d].at = "idle" /\ hook'[d].at = "promo" /\ entries' = entries /\ redeemed' = redeemed
      BY <1>8 DEF redeemCoupon, HooksOK
    <2>. QED
      BY <1>3, <2>1 DEF Coupon, CouponNext, CodeStages
  <1>. DEFINE p == hook[d].promo
  <1>9. CASE tryGrant(d)
    <2>1. /\ hook[d].at = "promo" /\ entries' = entries /\ redeemed' = redeemed /\ hook'[d].promo = p
          /\ hook'[d].at \in {"promoUse", "seen", "reactivate"}
      <3>1. \E to \in {"promoUse", "seen", "reactivate"} : Step(d, "promo", to)
        BY <1>9 DEF tryGrant, BehindPromo
      <3>. QED
        BY <1>1, <1>9, <3>1, StepMoves DEF tryGrant, MovesTo, Stages, PromoStages
    <2>2. CASE CouponNext(d)
      <3>1. p = "coupon_unique" /\ hook'[d].at = "promoUse"
        BY <2>1, <2>2 DEF CouponNext, CodeStages
      <3>2. findUnredeemed
        <4>1. CASE ~findUnredeemed
          <5>1. Step(d, "promo", "seen")
            BY <1>9, <3>1, <4>1 DEF tryGrant, BehindPromo
          <5>2. hook'[d].at = "seen"
            BY <1>1, <5>1, StepMoves DEF MovesTo, Stages
          <5>. QED
            BY <3>1, <5>2
        <4>. QED
          BY <4>1
      <3>3. Overlapped(d, CodeStages) => "code" \in raced'
        BY <1>9, <3>1 DEF tryGrant, CodeStages
      <3>4. ~Coupon(d)
        BY <2>1 DEF Coupon, CodeStages
      <3>. QED
        BY <2>1, <3>2, <3>3, <3>4 DEF CodeStep
    <2>. QED
      BY <1>3, <2>1, <2>2 DEF Coupon, CodeStages
  <1>10. CASE incrementUsageIfAllowed(d)
    <2>1. /\ hook[d].at = "promoUse" /\ entries' = entries /\ redeemed' = redeemed /\ hook'[d].promo = p
          /\ hook'[d].at \in {"promoPost", "seen", "reactivate"}
      <3>1. \E to \in {"promoPost", "seen", "reactivate"} : Step(d, "promoUse", to)
        BY <1>10 DEF incrementUsageIfAllowed, BehindPromo
      <3>. QED
        BY <1>1, <1>10, <3>1, StepMoves DEF incrementUsageIfAllowed, MovesTo, Stages, PromoStages, Kept
    <2>. QED
      BY <2>1 DEF CodeStep, Coupon, CouponNext, CodeStages, Paid, Unpaid
  <1>11. CASE postPromo(d)
    <2>1. /\ hook[d].at = "promoPost" /\ redeemed' = redeemed /\ hook'[d].promo = p /\ hook'[d].at = "promoRecord"
      BY <1>1, <1>11, StepMoves DEF postPromo, MovesTo, Stages, PromoStages
    <2>2. entries' = entries \cup {[ref |-> PromoRef(p, t), tenant |-> t, amount |-> 1]}
      BY <1>11 DEF postPromo, TenantOf
    <2>3. CASE p = "coupon_unique"
      <3>1. \A n \in entries' : n \in entries \/ n = CodeEntry(t)
        BY <2>2, <2>3 DEF CodeEntry
      <3>. QED
        BY <2>1, <2>3, <3>1 DEF CodeStep, Coupon, CouponNext, CodeStages, Paid, Unpaid
    <2>4. CASE p # "coupon_unique"
      <3>1. \A n \in entries' : n \in entries \/ n.ref = PromoRef(p, t)
        BY <2>2
      <3>2. \A n \in entries' : n \in entries \/ n.ref[1] # "coupon_unique"
        BY <2>4, <3>1 DEF PromoRef
      <3>. QED
        BY <1>3, <2>1, <2>4, <3>2 DEF Coupon, CouponNext
    <2>. QED
      BY <2>3, <2>4
  <1>12. CASE recordRedemption(d)
    <2>1. /\ hook[d].at = "promoRecord" /\ entries' = entries /\ redeemed' = redeemed /\ hook'[d].promo = p
          /\ hook'[d].at = (IF p = "coupon_unique" THEN "promoCode" ELSE "reactivate")
      <3>1. Step(d, "promoRecord", IF p = "coupon_unique" THEN "promoCode" ELSE "reactivate")
        BY <1>12 DEF recordRedemption, BehindPromo
      <3>2. (IF p = "coupon_unique" THEN "promoCode" ELSE "reactivate") \in Stages
        BY DEF Stages, PromoStages
      <3>. QED
        BY <1>1, <1>12, <3>1, <3>2, StepMoves DEF recordRedemption, MovesTo, Kept
    <2>. QED
      BY <2>1 DEF CodeStep, Coupon, CouponNext, CodeStages, Paid, Unpaid
  <1>13. CASE redeemCode(d)
    <2>1. /\ hook[d].at = "promoCode" /\ entries' = entries /\ redeemed' # {} /\ hook'[d].at = "seen"
      BY <1>1, <1>13, StepMoves DEF redeemCode, MovesTo, Stages
    <2>2. p = "coupon_unique"
      BY <2>1 DEF HooksOK, HookFits
    <2>. QED
      BY <2>1, <2>2 DEF CodeStep, Coupon, CouponNext, CodeStages, Paid, Unpaid
  <1>. QED
    BY <1>4, <1>5, <1>6, <1>7, <1>8, <1>9, <1>10, <1>11, <1>12, <1>13 DEF GrantStep

-----------------------------------------------------------------------------
(* Every step keeps the invariant                                           *)

\* Nothing changes.
LEMMA PurchasesStutter == PurchasesInv /\ UNCHANGED purchaseVars => PurchasesInv'
  <1>. SUFFICES ASSUME PurchasesInv, UNCHANGED purchaseVars PROVE PurchasesInv'
    OBVIOUS
  <1>. USE DEF purchaseVars, tables, affiliate, promotion
  <1>1. PurchasesTypeOK' /\ HooksOK'
    BY DEF PurchasesInv, PurchasesTypeOK, HooksOK, HookFits, Hooks, Of
  <1>2. SeenIsPosted' /\ PastIsPosted'
    BY DEF PurchasesInv, SeenIsPosted, PastIsPosted, Settled, Posted, Of
  <1>3. BonusFollowsPurchase' /\ BonusFirst'
    BY DEF PurchasesInv, BonusFollowsPurchase, BonusFirst, Posted, Of, TenantOf
  <1>4. MatchesCapped' /\ MatchesCounted'
    BY DEF PurchasesInv, MatchesCapped, MatchesCounted, Matches, MatchUndisturbed, VelocityCapped, PayoutCount,
           Of, TenantOf
  <1>5. CodeMarked'
    BY DEF PurchasesInv, CodeMarked, CodeGrants, CodeUndisturbed, Coupon
  <1>. QED
    BY <1>1, <1>2, <1>3, <1>4, <1>5 DEF PurchasesInv

\* Arrivals, branches, grants and throws, one delivery at a time.
LEMMA PurchasesInvNext == PurchasesInv /\ [PurchasesNext]_purchaseVars => PurchasesInv'
  <1>1. CASE UNCHANGED purchaseVars
    BY <1>1, PurchasesStutter
  <1>2. ASSUME PurchasesInv, PurchasesNext PROVE PurchasesInv'
    <2>1. PICK d \in Deliveries : EventStep(d) \/ GrantStep(d) \/ ThrowStep(d)
      BY <1>2 DEF PurchasesNext, HookStep, EventStep, GrantStep, ThrowStep
    <2>2. /\ HooksOK /\ PurchasesTypeOK /\ SeenIsPosted /\ PastIsPosted /\ BonusFollowsPurchase /\ BonusFirst
          /\ MatchesCapped /\ MatchesCounted /\ CodeMarked
      BY <1>2 DEF PurchasesInv
    <2>3. HooksOK' /\ PurchasesTypeOK'
      BY <2>1, <2>2, HooksNext, TypesNext
    <2>4. SeenIsPosted' /\ PastIsPosted'
      BY <2>1, <2>2, PostedNext
    <2>5. BonusFollowsPurchase' /\ BonusFirst'
      BY <2>1, <2>2, BonusNext
    <2>6. MatchesCapped' /\ MatchesCounted'
      BY <2>1, <2>2, <2>3, MatchesNext
    <2>7. CodeMarked'
      BY <2>1, <2>2, CodeNext
    <2>. QED
      BY <2>3, <2>4, <2>5, <2>6, <2>7 DEF PurchasesInv
  <1>. QED
    BY <1>1, <1>2

\* PurchasesInv holds of every behaviour.
LEMMA PurchasesInvHolds == PurchasesSpec => []PurchasesInv
  <1>1. PurchasesInit => PurchasesInv
    BY PurchasesInvInit
  <1>2. PurchasesInv /\ [PurchasesNext]_purchaseVars => PurchasesInv'
    BY PurchasesInvNext
  <1>. QED
    BY <1>1, <1>2, PTL DEF PurchasesSpec

-----------------------------------------------------------------------------
(* What the runs check, for every workload                                  *)

\* An event Stripe will not send again has its ledger entry, however often it
\* was delivered, whatever ran beside it and whichever statement threw
\* (handleWebhookEvent marks it last).
THEOREM AnsweredIsPosted == PurchasesSpec => []SeenIsPosted
  <1>1. PurchasesInv => SeenIsPosted
    BY DEF PurchasesInv
  <1>. QED
    BY <1>1, PurchasesInvHolds, PTL

\* The bonus follows the first purchase, the referrer is paid for at most the
\* capped number of referrals and the unique code pays once, unless a grant was
\* cut off or overlapped another of its kind.
THEOREM GrantsAreSound == PurchasesSpec => []GrantsFollowPurchases
  <1>1. PurchasesInv => GrantsFollowPurchases
    BY CodePays DEF PurchasesInv, GrantsFollowPurchases
  <1>. QED
    BY <1>1, PurchasesInvHolds, PTL

-----------------------------------------------------------------------------
(* Crypto charges: the inductive invariant                                  *)

ChainKinds == {"evm", "eth", "btc"}
ChargeRows == [kind : {"evm", "eth", "btc", "hosted"}, status : {"New", "Processing", "Settled"}, credited : BOOLEAN]

Calls == [at : ChargeCallStates, kind : ChainKinds \cup {"none", "hosted"}, id : Nat \cup Hosted,
          transfer : Transfers \cup {"none"}, credited : BOOLEAN, enough : BOOLEAN,
          status : {"none", "New", "Processing", "Settled"}, attempt : 0..MaxRetries]

\* The rows, and what the transfers on the chain are for.
RowsOK ==
    /\ scenario \in Scenarios
    /\ Stored \subseteq ChargeIds /\ charge \in [Stored -> ChargeRows]
    /\ credits \in [ChargeIds -> Nat] /\ exposed \subseteq ChargeIds
    /\ answered \subseteq Transfers /\ deaths \in 0..MaxDeaths
    /\ \A x \in Transfers : sent[x] # NotSent => sent[x].to \in Stored \cap Nat

Settling == {"status", "reference", "post", "mark"}
Hooking == {"progress", "legacy", "seen"}

\* What a call has at hand where it waits.
CallFits(h, rows) ==
    /\ h.at \in {"derive", "insert"} => h.kind \in ChainKinds
    /\ h.at = "insert" => h.id \in Nat
    /\ h.at \in Settling \cup Hooking => h.id \in rows /\ (h.kind = "hosted" <=> h.id \in Hosted)
    /\ h.at = "status" => h.kind # "hosted"
    /\ h.at \in Settling /\ h.kind # "hosted" => h.transfer \in Transfers
    /\ h.at \in Hooking => h.kind = "hosted"
    /\ h.at \in {"progress", "legacy"} => h.status # "none"

CallsOK == ccall \in [ChargeCalls -> Calls] /\ \A c \in ChargeCalls : CallFits(ccall[c], Stored)

\* The indexes are issued without a gap, and there is room for every checkout.
Issued(k) ==
    /\ Stored \cap Nat = 0..k - 1
    /\ k + Cardinality(CheckingOut) <= scenario.charges
    /\ \A c \in ChargeCalls : ccall[c].at = "insert" => ccall[c].id <= k

IndexesIssued == \E k \in Nat : Issued(k)

Settles(d, i) == ccall[d].at \in Settling /\ ccall[d].id = i

\* A charge is credited at most once; what stops the second credit is the row
\* on the chain's side, which one settlement at a time has read, and the
\* reference on the key server's.
CreditedOnce(i) ==
    /\ credits[i] > 0 =>
         /\ i \in Stored
         /\ \/ i \in exposed
            \/ charge[i].credited
            \/ \E d \in ChargeCalls : ccall[d].at = "mark" /\ ccall[d].id = i
    /\ i \in Hosted /\ credits[i] > 0 => i \in cryptoRefs
    /\ i \in Hosted \/ i \notin exposed => credits[i] <= 1
    /\ i \notin Hosted /\ i \notin exposed =>
         /\ \A d, o \in ChargeCalls : Settles(d, i) /\ Settles(o, i) => d = o
         /\ \A d \in ChargeCalls : Settles(d, i) =>
              /\ ccall[d].at = "status" => ccall[d].credited = charge[i].credited
              /\ ccall[d].at \in {"reference", "post"} => ~charge[i].credited

CryptoInv == RowsOK /\ CallsOK /\ IndexesIssued /\ \A i \in ChargeIds : CreditedOnce(i)

\* The bounds are numbers, and a charge of the key server has no index.
LEMMA CryptoBounds ==
    /\ MaxCharges \in Nat /\ MaxRetries \in Nat /\ MaxDeaths \in Nat
    /\ Hosted \cap Nat = {} /\ IsFiniteSet(ChargeCalls)
    /\ \A s \in Scenarios : s.charges \in 0..MaxCharges
  <1>1. {MaxCharges, MaxRetries, MaxDeaths} \subseteq Nat
    BY CryptoAssumption
  <1>. QED
    BY <1>1, CryptoAssumption

\* Initially there is no charge and no call.
LEMMA CryptoInvInit == CryptoInit => CryptoInv
  <1>. SUFFICES ASSUME CryptoInit PROVE CryptoInv
    OBVIOUS
  <1>1. Stored = {} /\ charge \in [Stored -> ChargeRows]
    BY DEF CryptoInit, Stored
  <1>2. RowsOK
    BY <1>1, CryptoBounds DEF CryptoInit, RowsOK
  <1>3. NoCall \in Calls
    BY CryptoBounds DEF NoCall, Calls, ChargeCallStates
  <1>4. CallsOK
    BY <1>3 DEF CryptoInit, CallsOK, CallFits, NoCall, Settling, Hooking
  <1>5. Issued(0)
    <2>1. CheckingOut = {}
      BY DEF CryptoInit, CheckingOut, NoCall
    <2>. QED
      BY <1>1, <2>1, CryptoBounds, FS_EmptySet DEF CryptoInit, Issued, NoCall
  <1>6. \A i \in ChargeIds : CreditedOnce(i)
    BY DEF CryptoInit, CreditedOnce, Settles, Settling, NoCall
  <1>. QED
    BY <1>2, <1>4, <1>5, <1>6 DEF CryptoInv, IndexesIssued

-----------------------------------------------------------------------------
(* What a step may do                                                       *)

\* One call moves.
OneCall(c) == ccall' \in [ChargeCalls -> Calls] /\ \A o \in ChargeCalls \ {c} : ccall'[o] = ccall[o]

\* A call that moves to where it fits leaves the calls in order.
LEMMA CallMoves ==
    ASSUME CallsOK, NEW c \in ChargeCalls, NEW h \in Calls, ccall' = [ccall EXCEPT ![c] = h],
           Stored \subseteq Stored', CallFits(h, Stored')
    PROVE  OneCall(c) /\ ccall'[c] = h /\ CallsOK'
  <1>1. OneCall(c) /\ ccall'[c] = h
    BY DEF CallsOK, OneCall
  <1>2. ASSUME NEW o \in ChargeCalls PROVE CallFits(ccall'[o], Stored')
    <2>1. CASE o = c
      BY <1>1, <2>1
    <2>2. CASE o # c
      <3>1. ccall'[o] = ccall[o] /\ CallFits(ccall[o], Stored)
        BY <1>1, <2>2 DEF OneCall, CallsOK
      <3>. QED
        BY <3>1 DEF CallFits
    <2>. QED
      BY <2>1, <2>2
  <1>. QED
    BY <1>1, <1>2 DEF OneCall, CallsOK

\* The calls stay in order while the table grows.
LEMMA CallsStay ==
    ASSUME CallsOK, UNCHANGED ccall, Stored \subseteq Stored'
    PROVE  CallsOK'
  BY DEF CallsOK, CallFits

\* What a step of a call does to the credits of the charges: it posts one for
\* the charge it settles, and it settles a charge only along the function.
Credits(c, i) ==
    /\ credits'[i] = credits[i] + 1
    /\ ccall[c].at = "post" /\ ccall[c].id = i
    /\ ccall'[c].at = "mark" /\ ccall'[c].id = i
    /\ i \in Hosted => i \notin cryptoRefs /\ i \in cryptoRefs'

Opens(c, i) ==
    /\ ccall'[c].at = "status" /\ ccall'[c].credited = charge[i].credited
    /\ UNCHANGED charge /\ ccall[c].at = "idle"
    /\ Overlaps(i) => i \in exposed'

Continues(c, i) ==
    /\ Settles(c, i)
    /\ \/ ccall[c].at = "status" /\ ccall'[c].at = "reference" /\ ~ccall[c].credited
       \/ ccall[c].at = "reference" /\ ccall'[c].at = "post"
       \/ ccall[c].at = "post" /\ ccall'[c].at = "mark"

SettlesNext(c, i) == ccall'[c].at \in Settling /\ ccall'[c].id = i

Grows ==
    /\ Stored \subseteq Stored' /\ cryptoRefs \subseteq cryptoRefs' /\ exposed \subseteq exposed'
    /\ credits' \in [ChargeIds -> Nat]

CreditStep(c) ==
    /\ OneCall(c) /\ Grows
    /\ \A i \in Stored :
         \/ charge'[i].credited = charge[i].credited
         \/ ccall[c].at = "mark" /\ ccall[c].id = i /\ charge'[i].credited
    /\ \A i \in ChargeIds : credits'[i] = credits[i] \/ Credits(c, i)
    /\ ccall[c].at = "mark" => charge'[ccall[c].id].credited \/ ccall[c].id \in exposed'
    /\ \A i \in ChargeIds \ Hosted : SettlesNext(c, i) => Opens(c, i) \/ Continues(c, i)

\* A settlement's charge is in the table.
LEMMA SettlesStored ==
    ASSUME CallsOK, NEW c \in ChargeCalls, NEW i, Settles(c, i)
    PROVE  i \in Stored /\ (ccall[c].kind = "hosted" <=> i \in Hosted)
  BY DEF CallsOK, CallFits, Settles

\* What the ledger holds of a charge after a step of a call.
LEMMA CreditShown ==
    ASSUME RowsOK, CallsOK, NEW c \in ChargeCalls, CreditStep(c), NEW i \in ChargeIds, CreditedOnce(i),
           credits'[i] > 0
    PROVE  /\ i \in Stored
           /\ \/ i \in exposed'
              \/ charge'[i].credited
              \/ \E d \in ChargeCalls : ccall'[d].at = "mark" /\ ccall'[d].id = i
  <1>1. CASE Credits(c, i)
    <2>1. Settles(c, i)
      BY <1>1 DEF Credits, Settles, Settling
    <2>. QED
      BY <1>1, <2>1, SettlesStored DEF Credits
  <1>2. CASE credits'[i] = credits[i]
    <2>1. /\ i \in Stored
          /\ \/ i \in exposed
             \/ charge[i].credited
             \/ \E d \in ChargeCalls : ccall[d].at = "mark" /\ ccall[d].id = i
      BY <1>2 DEF CreditedOnce
    <2>2. CASE i \in exposed
      BY <2>1, <2>2 DEF CreditStep, Grows
    <2>3. CASE charge[i].credited
      BY <2>1, <2>3 DEF CreditStep
    <2>4. ASSUME NEW d \in ChargeCalls, ccall[d].at = "mark", ccall[d].id = i
          PROVE  \/ i \in exposed'
                 \/ charge'[i].credited
                 \/ \E o \in ChargeCalls : ccall'[o].at = "mark" /\ ccall'[o].id = i
      <3>1. CASE d = c
        BY <2>4, <3>1 DEF CreditStep
      <3>2. CASE d # c
        BY <2>4, <3>2 DEF CreditStep, OneCall
      <3>. QED
        BY <3>1, <3>2
    <2>. QED
      BY <2>1, <2>2, <2>3, <2>4
  <1>. QED
    BY <1>1, <1>2 DEF CreditStep

\* On the key server's side the reference stops the second credit.
LEMMA HostedOnce ==
    ASSUME RowsOK, NEW c \in ChargeCalls, CreditStep(c), NEW i \in Hosted, CreditedOnce(i)
    PROVE  (credits'[i] > 0 => i \in cryptoRefs') /\ credits'[i] <= 1
  <1>0. i \in ChargeIds /\ credits[i] \in Nat
    BY DEF ChargeIds, RowsOK
  <1>1. CASE Credits(c, i)
    <2>1. credits[i] = 0
      BY <1>0, <1>1 DEF Credits, CreditedOnce
    <2>. QED
      BY <1>1, <2>1 DEF Credits
  <1>2. CASE credits'[i] = credits[i]
    BY <1>0, <1>2 DEF CreditedOnce, CreditStep, Grows
  <1>. QED
    BY <1>0, <1>1, <1>2 DEF CreditStep

\* One settlement at a time has read the row of a chain's charge that is not
\* exposed, and what it has read stays true.
Read(d, i) ==
    /\ ccall[d].at = "status" => ccall[d].credited = charge[i].credited
    /\ ccall[d].at \in {"reference", "post"} => ~charge[i].credited
Alone(i) == \A d, o \in ChargeCalls : Settles(d, i) /\ Settles(o, i) => d = o

\* A settlement that begins meets no other, or exposes the charge.
LEMMA ChainAlone ==
    ASSUME CallsOK, NEW c \in ChargeCalls, CreditStep(c),
           NEW i \in ChargeIds \ Hosted, CreditedOnce(i), i \notin exposed'
    PROVE  \A d, o \in ChargeCalls : SettlesNext(d, i) /\ SettlesNext(o, i) => d = o
  <1>0. i \notin exposed /\ Alone(i)
    BY DEF CreditStep, Grows, CreditedOnce, Alone
  <1>. SUFFICES ASSUME NEW d \in ChargeCalls, NEW o \in ChargeCalls, SettlesNext(d, i), SettlesNext(o, i), d # o
                PROVE  FALSE
    OBVIOUS
  <1>1. ASSUME NEW p \in ChargeCalls, p # c, SettlesNext(p, i) PROVE Settles(p, i)
    BY <1>1 DEF CreditStep, OneCall, Settles, SettlesNext
  <1>2. CASE d # c /\ o # c
    BY <1>0, <1>1, <1>2 DEF Alone
  <1>3. ASSUME NEW p \in ChargeCalls, p # c, SettlesNext(p, i), SettlesNext(c, i) PROVE FALSE
    <2>1. Settles(p, i)
      BY <1>1, <1>3
    <2>2. Overlaps(i)
      BY <2>1 DEF Settles, Settling, Overlaps
    <2>3. ~Opens(c, i)
      BY <2>2 DEF Opens
    <2>4. Continues(c, i)
      BY <1>3, <2>3 DEF CreditStep
    <2>. QED
      BY <1>0, <1>3, <2>1, <2>4 DEF Continues, Alone
  <1>. QED
    BY <1>2, <1>3

\* creditedAt, read once by a settlement, is written by no other settlement.
LEMMA ChainRead ==
    ASSUME CallsOK, NEW c \in ChargeCalls, CreditStep(c), NEW i \in ChargeIds \ Hosted, CreditedOnce(i),
           i \notin exposed', NEW d \in ChargeCalls, SettlesNext(d, i)
    PROVE  /\ ccall'[d].at = "status" => ccall'[d].credited = charge'[i].credited
           /\ ccall'[d].at \in {"reference", "post"} => ~charge'[i].credited
  <1>0. i \notin exposed /\ Alone(i) /\ \A p \in ChargeCalls : Settles(p, i) => Read(p, i)
    BY DEF CreditStep, Grows, CreditedOnce, Alone, Read
  <1>1. CASE d # c
    <2>1. ccall'[d] = ccall[d] /\ Settles(d, i) /\ Read(d, i)
      BY <1>0, <1>1 DEF CreditStep, OneCall, Settles, SettlesNext
    <2>2. i \in Stored
      BY <2>1, SettlesStored
    <2>3. ~(ccall[c].at = "mark" /\ ccall[c].id = i)
      BY <1>0, <1>1, <2>1 DEF Settles, Settling, Alone
    <2>4. charge'[i].credited = charge[i].credited
      BY <2>2, <2>3 DEF CreditStep
    <2>. QED
      BY <2>1, <2>4 DEF Read
  <1>2. CASE d = c /\ Opens(c, i)
    BY <1>2 DEF Opens
  <1>3. CASE d = c /\ Continues(c, i)
    <2>1. Settles(c, i) /\ Read(c, i)
      BY <1>0, <1>3 DEF Continues
    <2>2. i \in Stored
      BY <2>1, SettlesStored
    <2>3. charge'[i].credited = charge[i].credited
      BY <1>3, <2>2 DEF CreditStep, Continues
    <2>. QED
      BY <1>3, <2>1, <2>3 DEF Read, Continues
  <1>. QED
    BY <1>1, <1>2, <1>3 DEF CreditStep

\* A charge of the chain that is not exposed is credited once.
LEMMA ChainOnce ==
    ASSUME RowsOK, CallsOK, NEW c \in ChargeCalls, CreditStep(c), NEW i \in ChargeIds \ Hosted, CreditedOnce(i),
           i \notin exposed'
    PROVE  credits'[i] <= 1
  <1>0. i \notin exposed /\ credits[i] \in Nat /\ Alone(i) /\ \A p \in ChargeCalls : Settles(p, i) => Read(p, i)
    BY DEF CreditStep, Grows, CreditedOnce, RowsOK, Alone, Read
  <1>1. CASE Credits(c, i)
    <2>1. Settles(c, i) /\ ~charge[i].credited
      BY <1>0, <1>1 DEF Credits, Settles, Settling, Read
    <2>2. ASSUME NEW d \in ChargeCalls, ccall[d].at = "mark", ccall[d].id = i PROVE FALSE
      <3>1. Settles(d, i)
        BY <2>2 DEF Settles, Settling
      <3>2. d = c
        BY <1>0, <2>1, <3>1 DEF Alone
      <3>. QED
        BY <1>1, <2>2, <3>2 DEF Credits
    <2>3. ~(credits[i] > 0)
      BY <1>0, <2>1, <2>2 DEF CreditedOnce
    <2>. QED
      BY <1>0, <1>1, <2>3 DEF Credits
  <1>2. CASE credits'[i] = credits[i]
    BY <1>0, <1>2 DEF CreditedOnce
  <1>. QED
    BY <1>1, <1>2 DEF CreditStep

\* A step of a call leaves every charge credited once.
LEMMA CreditNext ==
    ASSUME RowsOK, CallsOK, NEW c \in ChargeCalls, CreditStep(c), NEW i \in ChargeIds, CreditedOnce(i)
    PROVE  CreditedOnce(i)'
  <1>1. credits'[i] > 0 =>
          /\ i \in Stored'
          /\ \/ i \in exposed'
             \/ charge'[i].credited
             \/ \E d \in ChargeCalls : ccall'[d].at = "mark" /\ ccall'[d].id = i
    BY CreditShown DEF CreditStep, Grows
  <1>2. i \in Hosted => (credits'[i] > 0 => i \in cryptoRefs') /\ credits'[i] <= 1
    BY HostedOnce
  <1>3. i \notin Hosted /\ i \notin exposed' => credits'[i] <= 1
    BY ChainOnce
  <1>4. i \notin Hosted /\ i \notin exposed' =>
         /\ \A d, o \in ChargeCalls : SettlesNext(d, i) /\ SettlesNext(o, i) => d = o
         /\ \A d \in ChargeCalls : SettlesNext(d, i) =>
              /\ ccall'[d].at = "status" => ccall'[d].credited = charge'[i].credited
              /\ ccall'[d].at \in {"reference", "post"} => ~charge'[i].credited
    BY ChainAlone, ChainRead
  <1>. QED
    BY <1>1, <1>2, <1>3, <1>4 DEF CreditedOnce, Settles, SettlesNext
-----------------------------------------------------------------------------
(* The actions are such steps                                               *)

\* The next index is the number of indexes issued.
LEMMA NextIndexIs ==
    ASSUME NEW k \in Nat, Stored \cap Nat = 0..k - 1
    PROVE  NextIndex = k
  <1>. DEFINE S == {-1} \cup (0..k - 1)
  <1>1. k - 1 \in S /\ \A y \in S : y \in Int /\ k - 1 >= y
    OBVIOUS
  <1>2. \A x \in S : (\A y \in S : x >= y) => x = k - 1
    BY <1>1
  <1>3. Max(S) = k - 1
    BY <1>1, <1>2 DEF Max
  <1>. QED
    BY <1>3 DEF NextIndex

\* A step that leaves the table, the ledger and the exposed charges alone.
Quiet == UNCHANGED <<scenario, charge, cryptoRefs, sent, credits, exposed>>

\* What it leaves alone stays in order.
LEMMA QuietRows ==
    ASSUME RowsOK, Quiet, answered' \subseteq Transfers, deaths' \in 0..MaxDeaths
    PROVE  RowsOK' /\ Stored' = Stored /\ Grows
  BY DEF RowsOK, Quiet, Stored, Grows

\* It credits nothing, and settles only along the function.
LEMMA QuietStep ==
    ASSUME RowsOK, NEW c \in ChargeCalls, Quiet, OneCall(c), Grows,
           ccall[c].at # "mark", \A i \in ChargeIds \ Hosted : SettlesNext(c, i) => Continues(c, i)
    PROVE  CreditStep(c)
  BY DEF RowsOK, Quiet, CreditStep, Stored

\* The waiting call, and the empty one, are calls.
LEMMA CallKinds ==
    ASSUME CallsOK, NEW c \in ChargeCalls
    PROVE  /\ ccall[c] \in Calls /\ CallFits(ccall[c], Stored)
           /\ NoCall \in Calls /\ \A rows : CallFits(NoCall, rows)
  <1>1. NoCall \in Calls
    BY CryptoBounds DEF NoCall, Calls, ChargeCallStates
  <1>2. \A rows : CallFits(NoCall, rows)
    BY DEF NoCall, CallFits, Settling, Hooking
  <1>. QED
    BY <1>1, <1>2 DEF CallsOK

\* What a step has to show beside the indexes.
Sound(c) == RowsOK' /\ CallsOK' /\ CreditStep(c)

\* A checkout begins.
LEMMA CheckoutSound ==
    ASSUME CryptoInv, NEW c \in ChargeCalls, NEW kind \in ChainKinds, BeginCheckout(c, kind)
    PROVE  Sound(c)
  <1>. DEFINE h == [NoCall EXCEPT !.at = "derive", !.kind = kind]
  <1>1. RowsOK /\ CallsOK
    BY DEF CryptoInv
  <1>2. h \in Calls /\ h.at = "derive" /\ h.kind = kind
    BY <1>1, CallKinds DEF Calls, NoCall, ChargeCallStates
  <1>3. CallFits(h, Stored)
    BY <1>2 DEF CallFits, Settling, Hooking
  <1>4. Quiet /\ RowsOK' /\ Stored' = Stored /\ Grows
    BY <1>1, QuietRows DEF BeginCheckout, Quiet, RowsOK
  <1>5. OneCall(c) /\ ccall'[c] = h /\ CallsOK'
    BY <1>1, <1>2, <1>3, <1>4, CallMoves DEF BeginCheckout
  <1>6. CreditStep(c)
    BY <1>1, <1>2, <1>4, <1>5, QuietStep DEF BeginCheckout, SettlesNext, Settling
  <1>. QED
    BY <1>4, <1>5, <1>6 DEF Sound

\* A checkout derives its index.
LEMMA DeriveSound ==
    ASSUME CryptoInv, NEW c \in ChargeCalls, getNextDerivationIndex(c)
    PROVE  Sound(c)
  <1>. DEFINE h == [ccall[c] EXCEPT !.at = "insert", !.id = NextIndex]
  <1>1. RowsOK /\ CallsOK /\ NextIndex \in Nat
    BY NextIndexIs DEF CryptoInv, IndexesIssued, Issued
  <1>2. h \in Calls /\ h.at = "insert" /\ h.id = NextIndex /\ h.kind = ccall[c].kind
    BY <1>1, CallKinds DEF Calls, ChargeCallStates
  <1>3. CallFits(h, Stored)
    BY <1>1, <1>2, CallKinds DEF CallFits, Settling, Hooking, getNextDerivationIndex
  <1>4. Quiet /\ RowsOK' /\ Stored' = Stored /\ Grows
    BY <1>1, QuietRows DEF getNextDerivationIndex, Quiet, RowsOK
  <1>5. ccall' = [ccall EXCEPT ![c] = h]
    BY <1>1 DEF getNextDerivationIndex, CallsOK
  <1>6. OneCall(c) /\ ccall'[c] = h /\ CallsOK'
    BY <1>1, <1>2, <1>3, <1>4, <1>5, CallMoves
  <1>7. CreditStep(c)
    BY <1>1, <1>2, <1>4, <1>6, QuietStep DEF getNextDerivationIndex, SettlesNext, Settling
  <1>. QED
    BY <1>4, <1>6, <1>7 DEF Sound

\* Adding a row to the table.
AddsRow(i, kind) ==
    charge' = [j \in Stored \cup {i} |->
                 IF j = i THEN [kind |-> kind, status |-> "New", credited |-> FALSE] ELSE charge[j]]

\* The new row leaves the others as they are.
LEMMA RowAdded ==
    ASSUME RowsOK, NEW i \in ChargeIds \ Stored, NEW kind \in ChainKinds \cup {"hosted"}, AddsRow(i, kind),
           UNCHANGED <<scenario, cryptoRefs, sent, answered, credits, exposed, deaths>>
    PROVE  /\ RowsOK' /\ Grows /\ Stored' = Stored \cup {i}
           /\ \A j \in Stored : charge'[j].credited = charge[j].credited
  <1>1. Stored' = Stored \cup {i} /\ charge' \in [Stored' -> ChargeRows]
    BY DEF RowsOK, AddsRow, ChargeRows, ChainKinds, Stored
  <1>2. RowsOK' /\ Grows
    BY <1>1 DEF RowsOK, Grows
  <1>. QED
    BY <1>1, <1>2 DEF AddsRow

\* A checkout inserts its row, or loses the index and derives again.
LEMMA InsertSound ==
    ASSUME CryptoInv, NEW c \in ChargeCalls, createStablecoinCharge(c), ccall[c].id \in ChargeIds
    PROVE  Sound(c)
  <1>. DEFINE i == ccall[c].id
  <1>1. RowsOK /\ CallsOK /\ ccall[c] \in Calls /\ CallFits(ccall[c], Stored) /\ ccall[c].at = "insert"
    BY CallKinds DEF CryptoInv, createStablecoinCharge
  <1>2. CASE i \notin Stored
    <2>1. AddsRow(i, ccall[c].kind) /\ ccall[c].kind \in ChainKinds /\ ccall' = [ccall EXCEPT ![c] = NoCall]
      BY <1>1, <1>2 DEF createStablecoinCharge, AddsRow, CallFits
    <2>2. /\ RowsOK' /\ Grows /\ Stored' = Stored \cup {i}
          /\ \A j \in Stored : charge'[j].credited = charge[j].credited
      BY <1>1, <1>2, <2>1, RowAdded DEF createStablecoinCharge
    <2>3. OneCall(c) /\ ccall'[c] = NoCall /\ CallsOK'
      BY <1>1, <2>1, <2>2, CallKinds, CallMoves
    <2>4. CreditStep(c)
      BY <1>1, <2>2, <2>3 DEF CreditStep, createStablecoinCharge, SettlesNext, Settling, NoCall
    <2>. QED
      BY <2>2, <2>3, <2>4 DEF Sound
  <1>3. CASE i \in Stored
    <2>. DEFINE h == IF ccall[c].attempt = MaxRetries THEN NoCall
                     ELSE [ccall[c] EXCEPT !.at = "derive", !.attempt = @ + 1]
    <2>1. Quiet /\ RowsOK' /\ Stored' = Stored /\ Grows
      BY <1>1, <1>3, QuietRows DEF createStablecoinCharge, Quiet, RowsOK
    <2>2. ccall' = [ccall EXCEPT ![c] = h]
      BY <1>3 DEF createStablecoinCharge
    <2>3. h \in Calls /\ CallFits(h, Stored') /\ h.at \in {"idle", "derive"}
      <3>1. CASE ccall[c].attempt = MaxRetries
        BY <1>1, <3>1, CallKinds DEF NoCall
      <3>2. CASE ccall[c].attempt # MaxRetries
        <4>1. ccall[c].attempt + 1 \in 0..MaxRetries
          BY <1>1, <3>2, CryptoBounds DEF Calls
        <4>2. h \in Calls /\ h.at = "derive" /\ h.kind = ccall[c].kind
          BY <1>1, <3>2, <4>1 DEF Calls, ChargeCallStates
        <4>. QED
          BY <1>1, <4>2 DEF CallFits, Settling, Hooking
      <3>. QED
        BY <3>1, <3>2
    <2>4. OneCall(c) /\ ccall'[c] = h /\ CallsOK'
      BY <1>1, <2>1, <2>2, <2>3, CallMoves
    <2>5. CreditStep(c)
      BY <1>1, <2>1, <2>3, <2>4, QuietStep DEF SettlesNext, Settling
    <2>. QED
      BY <2>1, <2>4, <2>5 DEF Sound
  <1>. QED
    BY <1>2, <1>3
\* A settler looks its charge up by the deposit address.
LEMMA SettleBegins ==
    ASSUME CryptoInv, NEW c \in ChargeCalls, NEW x \in Transfers, NEW kind \in ChainKinds, NEW sizes,
           BeginSettle(c, x, kind, sizes)
    PROVE  Sound(c)
  <1>. DEFINE i == sent[x].to
              h == [NoCall EXCEPT !.at = "status", !.kind = kind, !.id = i, !.transfer = x,
                                  !.credited = CreditedAtRead(i), !.enough = sent[x].size \in sizes]
  <1>1. RowsOK /\ CallsOK /\ ccall[c].at = "idle"
    BY DEF CryptoInv, BeginSettle
  <1>2. i \in Stored \cap Nat /\ i \in ChargeIds /\ i \notin Hosted
    BY <1>1, CryptoBounds DEF RowsOK, BeginSettle
  <1>3. CreditedAtRead(i) \in BOOLEAN
    BY <1>1, <1>2 DEF RowsOK, ChargeRows, CreditedAtRead
  <1>4. (sent[x].size \in sizes) \in BOOLEAN
    OBVIOUS
  <1>5. /\ h \in Calls
        /\ h.at = "status" /\ h.kind = kind /\ h.id = i /\ h.transfer = x /\ h.credited = charge[i].credited
    BY ZenonT(60), <1>1, <1>2, <1>3, <1>4, CallKinds DEF Calls, NoCall, ChargeCallStates, CreditedAtRead
  <1>6. UNCHANGED <<scenario, charge, cryptoRefs, sent, answered, credits, deaths>> /\ Stored' = Stored
    BY DEF BeginSettle, Stored
  <1>7. exposed' = exposed \cup (IF Overlaps(i) THEN {i} ELSE {})
    BY DEF BeginSettle
  <1>8. RowsOK' /\ Grows
    BY <1>1, <1>2, <1>6, <1>7 DEF RowsOK, Grows
  <1>9. CallFits(h, Stored')
    BY <1>2, <1>5, <1>6 DEF CallFits, Settling, Hooking, ChainKinds
  <1>10. OneCall(c) /\ ccall'[c] = h /\ CallsOK'
    <2>1. ccall' = [ccall EXCEPT ![c] = h]
      BY DEF BeginSettle
    <2>. QED
      BY <1>1, <1>5, <1>6, <1>9, <2>1, CallMoves
  <1>11. Opens(c, i)
    BY <1>1, <1>5, <1>6, <1>7, <1>10 DEF Opens
  <1>12. CreditStep(c)
    BY <1>1, <1>5, <1>6, <1>8, <1>10, <1>11 DEF CreditStep, SettlesNext
  <1>. QED
    BY <1>8, <1>10, <1>12 DEF Sound

\* Writing one field of a row of the table.
LEMMA RowWritten ==
    ASSUME RowsOK, NEW i \in Stored, NEW row \in ChargeRows, charge' = [charge EXCEPT ![i] = row],
           answered' \subseteq Transfers, UNCHANGED <<scenario, cryptoRefs, sent, credits, exposed, deaths>>
    PROVE  /\ RowsOK' /\ Grows /\ Stored' = Stored
           /\ charge'[i] = row /\ \A j \in Stored \ {i} : charge'[j] = charge[j]
  <1>1. charge \in [Stored -> ChargeRows]
    BY DEF RowsOK
  <1>2. Stored' = Stored /\ charge' \in [Stored' -> ChargeRows]
    BY <1>1 DEF Stored
  <1>. QED
    BY <1>1, <1>2 DEF RowsOK, Grows

\* The settler's answer frees the call.
LEMMA Answers ==
    ASSUME RowsOK, CallsOK, NEW c \in ChargeCalls, ccall[c].at \in Settling, ccall[c].kind # "hosted",
           Stored \subseteq Stored', Answer(c)
    PROVE  OneCall(c) /\ ccall'[c] = NoCall /\ CallsOK' /\ answered' \subseteq Transfers
  <1>1. OneCall(c) /\ ccall'[c] = NoCall /\ CallsOK'
    BY CallKinds, CallMoves DEF Answer
  <1>2. ccall[c].transfer \in Transfers
    BY CallKinds DEF CallFits
  <1>. QED
    BY <1>1, <1>2 DEF Answer, RowsOK

\* A settler writes the status and acts on the row it has read.
LEMMA StatusSound ==
    ASSUME CryptoInv, NEW c \in ChargeCalls, settleStatus(c)
    PROVE  Sound(c)
  <1>. DEFINE i == ccall[c].id
              row == [charge[i] EXCEPT !.status = "Settled"]
              h == [ccall[c] EXCEPT !.at = "reference"]
  <1>1. RowsOK /\ CallsOK /\ ccall[c].at = "status" /\ ccall[c] \in Calls /\ CallFits(ccall[c], Stored)
    BY CallKinds DEF CryptoInv, settleStatus
  <1>2. i \in Stored /\ ccall[c].kind # "hosted"
    BY <1>1 DEF CallFits, Settling
  <1>3. charge[i] \in ChargeRows /\ row \in ChargeRows /\ row.credited = charge[i].credited
    BY <1>1, <1>2 DEF RowsOK, ChargeRows
  <1>4. charge' = [charge EXCEPT ![i] = row]
    BY DEF settleStatus
  <1>5. /\ UNCHANGED <<scenario, cryptoRefs, sent, credits, exposed, deaths>>
        /\ Stored \subseteq Stored'
    BY <1>1, <1>4 DEF settleStatus, Stored
  <1>6. \/ /\ OneCall(c) /\ ccall'[c] = NoCall /\ CallsOK' /\ answered' \subseteq Transfers
        \/ /\ OneCall(c) /\ ccall'[c] = h /\ CallsOK' /\ answered' \subseteq Transfers /\ ~ccall[c].credited
    <2>1. CASE Answer(c)
      BY <1>1, <1>2, <1>5, <2>1, Answers DEF Settling
    <2>2. CASE ~Answer(c)
      <3>1. ccall' = [ccall EXCEPT ![c] = h] /\ answered' = answered /\ ~ccall[c].credited
        BY <2>2, <1>1 DEF settleStatus, CallsOK
      <3>2. h \in Calls /\ CallFits(h, Stored')
        BY <1>1, <1>5 DEF Calls, ChargeCallStates, CallFits, Settling, Hooking
      <3>. QED
        BY <1>1, <1>5, <3>1, <3>2, CallMoves DEF RowsOK
    <2>. QED
      BY <2>1, <2>2
  <1>7. /\ RowsOK' /\ Grows /\ Stored' = Stored
        /\ \A j \in Stored : charge'[j].credited = charge[j].credited
    <2>1. answered' \subseteq Transfers
      BY <1>6
    <2>2. /\ RowsOK' /\ Grows /\ Stored' = Stored
          /\ charge'[i] = row /\ \A j \in Stored \ {i} : charge'[j] = charge[j]
      BY <1>1, <1>2, <1>3, <1>4, <1>5, <2>1, RowWritten
    <2>. QED
      BY <1>3, <2>2
  <1>8. CreditStep(c)
    <2>1. ASSUME NEW j \in ChargeIds \ Hosted, SettlesNext(c, j) PROVE Continues(c, j)
      BY <1>1, <1>6, <2>1 DEF SettlesNext, Continues, Settles, Settling, NoCall, Calls
    <2>. QED
      BY <1>1, <1>5, <1>6, <1>7, <2>1 DEF CreditStep
  <1>. QED
    BY <1>6, <1>7, <1>8 DEF Sound

\* A settler checks the reference of its transfer and the amount.
LEMMA ReferenceSound ==
    ASSUME CryptoInv, NEW c \in ChargeCalls, settleReference(c)
    PROVE  Sound(c)
  <1>. DEFINE h == [ccall[c] EXCEPT !.at = "post"]
  <1>1. RowsOK /\ CallsOK /\ ccall[c].at = "reference" /\ ccall[c].kind # "hosted"
        /\ ccall[c] \in Calls /\ CallFits(ccall[c], Stored)
    BY CallKinds DEF CryptoInv, settleReference
  <1>2. UNCHANGED <<scenario, charge, cryptoRefs, sent, credits, exposed, deaths>> /\ Stored' = Stored
    BY DEF settleReference, Stored
  <1>3. /\ OneCall(c) /\ ccall'[c] \in {NoCall, h} /\ CallsOK' /\ answered' \subseteq Transfers
    <2>1. CASE Answer(c)
      BY <1>1, <1>2, <2>1, Answers DEF Settling
    <2>2. CASE ~Answer(c)
      <3>1. ccall' = [ccall EXCEPT ![c] = h] /\ answered' = answered
        BY <2>2, <1>1 DEF settleReference, CallsOK
      <3>2. h \in Calls /\ CallFits(h, Stored')
        BY <1>1, <1>2 DEF Calls, ChargeCallStates, CallFits, Settling, Hooking
      <3>. QED
        BY <1>1, <1>2, <3>1, <3>2, CallMoves DEF RowsOK
    <2>. QED
      BY <2>1, <2>2
  <1>4. RowsOK' /\ Grows /\ Quiet
    BY <1>1, <1>2, <1>3, QuietRows DEF RowsOK, Quiet
  <1>5. ASSUME NEW j \in ChargeIds \ Hosted, SettlesNext(c, j) PROVE Continues(c, j)
    BY <1>1, <1>3, <1>5 DEF SettlesNext, Continues, Settles, Settling, NoCall, Calls
  <1>6. CreditStep(c)
    BY <1>1, <1>3, <1>4, <1>5, QuietStep
  <1>. QED
    BY <1>3, <1>4, <1>6 DEF Sound

\* The ledger is credited once per reference.
LEMMA CreditSound ==
    ASSUME CryptoInv, NEW c \in ChargeCalls, creditCharge(c)
    PROVE  Sound(c)
  <1>. DEFINE i == ccall[c].id
              h == [ccall[c] EXCEPT !.at = "mark"]
  <1>1. RowsOK /\ CallsOK /\ ccall[c].at = "post" /\ ccall[c] \in Calls /\ CallFits(ccall[c], Stored)
    BY CallKinds DEF CryptoInv, creditCharge
  <1>2. UNCHANGED <<scenario, charge, sent, answered, exposed, deaths>> /\ Stored' = Stored
    BY DEF creditCharge, Stored
  <1>3. i \in Stored /\ i \in ChargeIds /\ credits \in [ChargeIds -> Nat]
    BY <1>1 DEF CallFits, RowsOK, Settling
  <1>4. CASE Reference(c) \in cryptoRefs
    <2>1. ccall' = [ccall EXCEPT ![c] = NoCall] /\ Quiet
      BY <1>2, <1>4 DEF creditCharge, Quiet
    <2>2. OneCall(c) /\ ccall'[c] = NoCall /\ CallsOK'
      BY <1>1, <1>2, <2>1, CallKinds, CallMoves
    <2>3. RowsOK' /\ Grows
      BY <1>1, <1>2, <2>1, QuietRows DEF RowsOK
    <2>4. CreditStep(c)
      BY <1>1, <2>1, <2>2, <2>3, QuietStep DEF SettlesNext, Settling, NoCall
    <2>. QED
      BY <2>2, <2>3, <2>4 DEF Sound
  <1>5. CASE Reference(c) \notin cryptoRefs
    <2>1. /\ cryptoRefs' = cryptoRefs \cup {Reference(c)}
          /\ credits' = [credits EXCEPT ![i] = @ + 1]
          /\ ccall' = [ccall EXCEPT ![c] = h]
      BY <1>1, <1>5 DEF creditCharge, CallsOK
    <2>2. h \in Calls /\ CallFits(h, Stored') /\ h.at = "mark" /\ h.id = i
      BY <1>1, <1>2 DEF Calls, ChargeCallStates, CallFits, Settling, Hooking
    <2>3. OneCall(c) /\ ccall'[c] = h /\ CallsOK'
      BY <1>1, <1>2, <2>1, <2>2, CallMoves
    <2>4. RowsOK' /\ Grows
      BY <1>1, <1>2, <1>3, <2>1 DEF RowsOK, Grows
    <2>5. i \in Hosted => Reference(c) = i
      BY <1>1 DEF CallFits, Reference, Settling
    <2>6. Credits(c, i) /\ \A j \in ChargeIds \ {i} : credits'[j] = credits[j]
      BY <1>1, <1>3, <1>5, <2>1, <2>2, <2>3, <2>5 DEF Credits
    <2>7. Continues(c, i)
      BY <1>1, <2>2, <2>3 DEF Continues, Settles, Settling
    <2>8. CreditStep(c)
      BY <1>1, <1>2, <2>2, <2>3, <2>4, <2>6, <2>7 DEF CreditStep, SettlesNext
    <2>. QED
      BY <2>3, <2>4, <2>8 DEF Sound
  <1>. QED
    BY <1>4, <1>5
\* The charge is marked credited.
LEMMA MarkSound ==
    ASSUME CryptoInv, NEW c \in ChargeCalls, markCredited(c)
    PROVE  Sound(c)
  <1>. DEFINE i == ccall[c].id
              row == [charge[i] EXCEPT !.credited = TRUE]
              h == [ccall[c] EXCEPT !.at = "seen"]
  <1>1. RowsOK /\ CallsOK /\ ccall[c].at = "mark" /\ ccall[c] \in Calls /\ CallFits(ccall[c], Stored)
    BY CallKinds DEF CryptoInv, markCredited
  <1>2. i \in Stored
    BY <1>1 DEF CallFits, Settling
  <1>3. row \in ChargeRows /\ row.credited
    <2>. DEFINE old == charge[i]
    <2>1. old \in ChargeRows
      BY <1>1, <1>2 DEF RowsOK
    <2>. HIDE DEF old
    <2>2. [old EXCEPT !.credited = TRUE] \in ChargeRows /\ [old EXCEPT !.credited = TRUE].credited
      BY <2>1 DEF ChargeRows
    <2>. QED
      BY <2>2 DEF old
  <1>4. charge' = [charge EXCEPT ![i] = row]
    BY DEF markCredited
  <1>5. UNCHANGED <<scenario, cryptoRefs, sent, credits, exposed, deaths>> /\ Stored \subseteq Stored'
    BY <1>1, <1>4 DEF markCredited, Stored
  <1>6. OneCall(c) /\ ccall'[c].at \notin Settling /\ CallsOK' /\ answered' \subseteq Transfers
    <2>1. CASE Answer(c) /\ ccall[c].kind # "hosted"
      BY <1>1, <1>5, <2>1, Answers DEF Settling, NoCall
    <2>2. CASE ~(Answer(c) /\ ccall[c].kind # "hosted")
      <3>1. ccall' = [ccall EXCEPT ![c] = h] /\ answered' = answered /\ ccall[c].kind = "hosted"
        BY <2>2, <1>1 DEF markCredited, CallsOK
      <3>2. h \in Calls /\ h.at = "seen" /\ CallFits(h, Stored')
        BY <1>1, <1>5, <3>1 DEF Calls, ChargeCallStates, CallFits, Settling, Hooking
      <3>. QED
        BY <1>1, <1>5, <3>1, <3>2, CallMoves DEF RowsOK, Settling
    <2>. QED
      BY <2>1, <2>2
  <1>7. /\ RowsOK' /\ Grows /\ Stored' = Stored
        /\ charge'[i] = row /\ \A j \in Stored \ {i} : charge'[j] = charge[j]
    BY <1>1, <1>2, <1>3, <1>4, <1>5, <1>6, RowWritten
  <1>8. CreditStep(c)
    BY <1>1, <1>3, <1>5, <1>6, <1>7 DEF CreditStep, SettlesNext
  <1>. QED
    BY <1>6, <1>7, <1>8 DEF Sound

\* A payload of the key server arrives.
LEMMA HookBegins ==
    ASSUME CryptoInv, NEW c \in ChargeCalls, NEW i \in Hosted, NEW raw \in RawStatuses,
           handleKeyServerWebhook(c, i, raw)
    PROVE  Sound(c)
  <1>. DEFINE s == normalizeStatus(raw)
              h == [NoCall EXCEPT !.at = "progress", !.kind = "hosted", !.id = i, !.status = s]
  <1>1. RowsOK /\ CallsOK /\ ccall[c].at = "idle" /\ i \in Stored
    BY DEF CryptoInv, handleKeyServerWebhook
  <1>2. s \in {"New", "Processing", "Settled"}
    BY DEF normalizeStatus
  <1>3. h \in Calls /\ h.at = "progress" /\ h.kind = "hosted" /\ h.id = i /\ h.status = s
    BY <1>1, <1>2, CallKinds DEF Calls, NoCall, ChargeCallStates
  <1>4. Quiet /\ RowsOK' /\ Stored' = Stored /\ Grows
    BY <1>1, QuietRows DEF handleKeyServerWebhook, Quiet, RowsOK
  <1>5. CallFits(h, Stored')
    BY <1>1, <1>2, <1>3, <1>4 DEF CallFits, Settling, Hooking
  <1>6. ccall' = [ccall EXCEPT ![c] = h]
    BY DEF handleKeyServerWebhook
  <1>7. OneCall(c) /\ ccall'[c] = h /\ CallsOK'
    BY <1>1, <1>3, <1>4, <1>5, <1>6, CallMoves
  <1>8. CreditStep(c)
    BY <1>1, <1>3, <1>4, <1>7, QuietStep DEF SettlesNext, Settling
  <1>. QED
    BY <1>4, <1>7, <1>8 DEF Sound

\* The webhook writes the progress, then the status, of its charge.
LEMMA ProgressSound ==
    ASSUME CryptoInv, NEW c \in ChargeCalls, writeProgress(c)
    PROVE  Sound(c)
  <1>. DEFINE i == ccall[c].id
              row == [charge[i] EXCEPT !.status = ccall[c].status]
              to == CASE ccall[c].at = "progress" -> "legacy"
                      [] ccall[c].at = "legacy" /\ ccall[c].status = "Settled" -> "reference"
                      [] OTHER -> "seen"
              h == [ccall[c] EXCEPT !.at = to]
  <1>1. RowsOK /\ CallsOK /\ ccall[c].at \in {"progress", "legacy"}
        /\ ccall[c] \in Calls /\ CallFits(ccall[c], Stored)
    BY CallKinds DEF CryptoInv, writeProgress
  <1>2. i \in Stored /\ ccall[c].kind = "hosted" /\ i \in Hosted /\ ccall[c].status # "none"
    BY <1>1 DEF CallFits, Hooking
  <1>3. row \in ChargeRows /\ row.credited = charge[i].credited
    BY <1>1, <1>2 DEF RowsOK, ChargeRows, Calls
  <1>4. charge' = [charge EXCEPT ![i] = row]
    BY DEF writeProgress
  <1>5. UNCHANGED <<scenario, cryptoRefs, sent, answered, credits, exposed, deaths>>
    BY DEF writeProgress
  <1>6. /\ RowsOK' /\ Grows /\ Stored' = Stored
        /\ charge'[i] = row /\ \A j \in Stored \ {i} : charge'[j] = charge[j]
    BY <1>1, <1>2, <1>3, <1>4, <1>5, RowWritten DEF RowsOK
  <1>7. to \in {"legacy", "reference", "seen"}
    OBVIOUS
  <1>8. h \in Calls /\ h.at = to /\ h.id = i /\ h.kind = "hosted" /\ h.status # "none"
    BY <1>1, <1>2, <1>7 DEF Calls, ChargeCallStates
  <1>9. CallFits(h, Stored')
    BY <1>2, <1>6, <1>7, <1>8 DEF CallFits, Settling, Hooking
  <1>10. ccall' = [ccall EXCEPT ![c] = h]
    BY <1>1 DEF writeProgress, CallsOK
  <1>11. OneCall(c) /\ ccall'[c] = h /\ CallsOK'
    BY <1>1, <1>6, <1>8, <1>9, <1>10, CallMoves
  <1>12. CreditStep(c)
    BY ZenonT(60), <1>1, <1>2, <1>3, <1>5, <1>6, <1>8, <1>11 DEF CreditStep, SettlesNext
  <1>. QED
    BY <1>6, <1>11, <1>12 DEF Sound

\* The webhook checks the reference of its charge.
LEMMA HookReferenceSound ==
    ASSUME CryptoInv, NEW c \in ChargeCalls, hookReference(c)
    PROVE  Sound(c)
  <1>. DEFINE to == IF Reference(c) \in cryptoRefs THEN "seen" ELSE "post"
              h == [ccall[c] EXCEPT !.at = to]
  <1>1. RowsOK /\ CallsOK /\ ccall[c].at = "reference" /\ ccall[c].kind = "hosted"
        /\ ccall[c] \in Calls /\ CallFits(ccall[c], Stored)
    BY CallKinds DEF CryptoInv, hookReference
  <1>2. Quiet /\ RowsOK' /\ Stored' = Stored /\ Grows
    BY <1>1, QuietRows DEF hookReference, Quiet, RowsOK
  <1>3. to \in {"seen", "post"}
    OBVIOUS
  <1>4. h \in Calls /\ h.at = to /\ h.id = ccall[c].id /\ h.kind = "hosted" /\ CallFits(h, Stored')
    BY <1>1, <1>2, <1>3 DEF Calls, ChargeCallStates, CallFits, Settling, Hooking
  <1>5. ccall' = [ccall EXCEPT ![c] = h]
    BY DEF hookReference
  <1>6. OneCall(c) /\ ccall'[c] = h /\ CallsOK'
    BY <1>1, <1>2, <1>4, <1>5, CallMoves
  <1>7. CreditStep(c)
    <2>1. ccall[c].id \in Hosted
      BY <1>1 DEF CallFits, Settling
    <2>. QED
      BY <1>1, <1>2, <1>4, <1>6, <2>1, QuietStep DEF SettlesNext
  <1>. QED
    BY <1>2, <1>6, <1>7 DEF Sound

\* A call that ends: the delivery is marked seen.
LEMMA SeenSound ==
    ASSUME CryptoInv, NEW c \in ChargeCalls, markHookSeen(c)
    PROVE  Sound(c)
  <1>1. RowsOK /\ CallsOK /\ ccall[c].at = "seen"
    BY DEF CryptoInv, markHookSeen
  <1>2. Quiet /\ RowsOK' /\ Stored' = Stored /\ Grows
    BY <1>1, QuietRows DEF markHookSeen, Quiet, RowsOK
  <1>3. OneCall(c) /\ ccall'[c] = NoCall /\ CallsOK'
    BY <1>1, <1>2, CallKinds, CallMoves DEF markHookSeen
  <1>4. CreditStep(c)
    BY <1>1, <1>2, <1>3, QuietStep DEF SettlesNext, Settling, NoCall
  <1>. QED
    BY <1>2, <1>3, <1>4 DEF Sound

\* A call that dies before its mark leaves the charge exposed.
LEMMA DieSound ==
    ASSUME CryptoInv, NEW c \in ChargeCalls, Die(c)
    PROVE  Sound(c)
  <1>1. RowsOK /\ CallsOK /\ CallFits(ccall[c], Stored)
    BY CallKinds DEF CryptoInv
  <1>2. UNCHANGED <<scenario, charge, cryptoRefs, sent, answered, credits>> /\ Stored' = Stored
    BY DEF Die, Stored
  <1>3. exposed' = exposed \cup (IF ccall[c].at = "mark" THEN {ccall[c].id} ELSE {})
    BY DEF Die
  <1>4. ccall[c].at = "mark" => ccall[c].id \in ChargeIds
    BY <1>1 DEF CallFits, Settling, RowsOK
  <1>5. deaths' \in 0..MaxDeaths
    BY <1>1, CryptoBounds DEF Die, RowsOK
  <1>6. RowsOK' /\ Grows
    BY <1>1, <1>2, <1>3, <1>4, <1>5 DEF RowsOK, Grows
  <1>7. OneCall(c) /\ ccall'[c] = NoCall /\ CallsOK'
    BY <1>1, <1>2, CallKinds, CallMoves DEF Die
  <1>8. CreditStep(c)
    BY <1>1, <1>2, <1>3, <1>6, <1>7 DEF CreditStep, SettlesNext, Settling, NoCall
  <1>. QED
    BY <1>6, <1>7, <1>8 DEF Sound
-----------------------------------------------------------------------------
(* The indexes                                                              *)

\* The calls that check out are finitely many.
LEMMA CheckingFinite ==
    /\ IsFiniteSet(CheckingOut) /\ Cardinality(CheckingOut) \in Nat
    /\ \A s \in SUBSET CheckingOut : Cardinality(s) \in Nat /\ Cardinality(s) <= Cardinality(CheckingOut)
    /\ \A c \in CheckingOut : Cardinality(CheckingOut \ {c}) = Cardinality(CheckingOut) - 1
    /\ \A c \in ChargeCalls \ CheckingOut : Cardinality(CheckingOut \cup {c}) = Cardinality(CheckingOut) + 1
  <1>1. CheckingOut \subseteq ChargeCalls
    BY DEF CheckingOut
  <1>2. IsFiniteSet(CheckingOut)
    BY <1>1, CryptoBounds, FS_Subset
  <1>3. \A s \in SUBSET CheckingOut : IsFiniteSet(s) /\ Cardinality(s) <= Cardinality(CheckingOut)
    BY <1>2, FS_Subset
  <1>4. \A s \in SUBSET CheckingOut : Cardinality(s) \in Nat
    BY <1>3, FS_CardinalityType
  <1>5. \A c \in CheckingOut : Cardinality(CheckingOut \ {c}) = Cardinality(CheckingOut) - 1
    BY <1>2, FS_RemoveElement
  <1>6. \A c \in ChargeCalls \ CheckingOut : Cardinality(CheckingOut \cup {c}) = Cardinality(CheckingOut) + 1
    BY <1>2, FS_AddElement
  <1>. QED
    BY <1>2, <1>3, <1>4, <1>5, <1>6

\* The number of indexes issued.
LEMMA IssuedCount ==
    ASSUME NEW k \in Nat, Stored \cap Nat = 0..k - 1
    PROVE  Cardinality(Stored \cap Nat) = k
  <1>1. Cardinality(0..k - 1) = IF 0 > k - 1 THEN 0 ELSE (k - 1) - 0 + 1
    BY FS_Interval
  <1>2. (IF 0 > k - 1 THEN 0 ELSE (k - 1) - 0 + 1) = k
    OBVIOUS
  <1>. QED
    BY <1>1, <1>2

\* A step that neither issues an index nor lets a call into a checkout.
LEMMA IndexesKept ==
    ASSUME RowsOK, IndexesIssued, UNCHANGED scenario, Stored' \cap Nat = Stored \cap Nat,
           \A d \in ChargeCalls : /\ ccall'[d].at \in {"derive", "insert"} => ccall[d].at \in {"derive", "insert"}
                                  /\ ccall'[d].at = "insert" => ccall'[d] = ccall[d]
    PROVE  IndexesIssued'
  <1>. PICK k \in Nat : Issued(k)
    BY DEF IndexesIssued
  <1>1. CheckingOut' \in SUBSET CheckingOut
    BY DEF CheckingOut
  <1>2. scenario.charges \in Nat
    BY CryptoBounds DEF RowsOK
  <1>3. k + Cardinality(CheckingOut') <= scenario.charges
    BY <1>1, <1>2, CheckingFinite DEF Issued
  <1>4. Issued(k)'
    BY <1>3 DEF Issued
  <1>. QED
    BY <1>4 DEF IndexesIssued

\* A checkout begins while there is room for one more.
LEMMA BeginIssues ==
    ASSUME CryptoInv, NEW c \in ChargeCalls, NEW kind \in ChainKinds, BeginCheckout(c, kind)
    PROVE  IndexesIssued'
  <1>. PICK k \in Nat : Issued(k)
    BY DEF CryptoInv, IndexesIssued
  <1>1. /\ c \notin CheckingOut /\ Stored' = Stored /\ scenario' = scenario
        /\ scenario.charges \in Nat
    BY CryptoBounds DEF CryptoInv, RowsOK, BeginCheckout, CheckingOut, Stored
  <1>2. k + Cardinality(CheckingOut) < scenario.charges
    BY IssuedCount DEF BeginCheckout, Issued
  <1>3. CheckingOut' = CheckingOut \cup {c}
    BY DEF CryptoInv, CallsOK, BeginCheckout, CheckingOut, NoCall
  <1>4. k + Cardinality(CheckingOut') <= scenario.charges
    BY <1>1, <1>2, <1>3, CheckingFinite
  <1>5. \A d \in ChargeCalls : ccall'[d].at = "insert" => ccall'[d] = ccall[d]
    BY DEF CryptoInv, CallsOK, BeginCheckout, NoCall
  <1>6. Issued(k)'
    BY <1>1, <1>4, <1>5 DEF Issued
  <1>. QED
    BY <1>6 DEF IndexesIssued

\* A checkout derives the number of indexes issued.
LEMMA DeriveIssues ==
    ASSUME CryptoInv, NEW c \in ChargeCalls, getNextDerivationIndex(c)
    PROVE  IndexesIssued'
  <1>. PICK k \in Nat : Issued(k)
    BY DEF CryptoInv, IndexesIssued
  <1>1. NextIndex = k /\ Stored' = Stored /\ scenario' = scenario
    BY NextIndexIs DEF Issued, getNextDerivationIndex, Stored
  <1>2. CheckingOut' = CheckingOut
    BY DEF CryptoInv, CallsOK, Calls, getNextDerivationIndex, CheckingOut
  <1>3. \A d \in ChargeCalls : ccall'[d].at = "insert" => ccall'[d].id = k \/ ccall'[d] = ccall[d]
    BY <1>1 DEF CryptoInv, CallsOK, Calls, getNextDerivationIndex
  <1>4. Issued(k)'
    BY <1>1, <1>2, <1>3 DEF Issued
  <1>. QED
    BY <1>4 DEF IndexesIssued

\* A waiting insert's index is one of those that were counted for.
LEMMA InsertIndex ==
    ASSUME CryptoInv, NEW c \in ChargeCalls, ccall[c].at = "insert"
    PROVE  ccall[c].id \in Indexes
  <1>. PICK k \in Nat : Issued(k)
    BY DEF CryptoInv, IndexesIssued
  <1>1. scenario.charges \in 0..MaxCharges
    BY CryptoBounds DEF CryptoInv, RowsOK
  <1>2. c \in CheckingOut
    BY DEF CheckingOut
  <1>3. Cardinality(CheckingOut) - 1 \in Nat
    BY <1>2, CheckingFinite
  <1>4. ccall[c].id \in Nat /\ ccall[c].id <= k
    BY DEF CryptoInv, CallsOK, CallFits, Issued
  <1>. QED
    BY <1>1, <1>3, <1>4, CryptoBounds, CheckingFinite DEF Indexes, Issued

\* The insert of the next index issues it; of an earlier one, it fails.
LEMMA InsertIssues ==
    ASSUME CryptoInv, NEW c \in ChargeCalls, createStablecoinCharge(c)
    PROVE  IndexesIssued'
  <1>. DEFINE i == ccall[c].id
  <1>. PICK k \in Nat : Issued(k)
    BY DEF CryptoInv, IndexesIssued
  <1>1. /\ ccall[c].at = "insert" /\ i \in Nat /\ i <= k /\ c \in CheckingOut
        /\ scenario.charges \in Nat /\ scenario' = scenario
    BY CryptoBounds DEF CryptoInv, RowsOK, CallsOK, CallFits, Issued, createStablecoinCharge, CheckingOut
  <1>2. CASE i \notin Stored
    <2>1. i = k
      BY <1>1, <1>2 DEF Issued
    <2>2. Stored' = Stored \cup {k} /\ ccall' = [ccall EXCEPT ![c] = NoCall]
      BY <1>2, <2>1 DEF createStablecoinCharge, Stored
    <2>3. Stored' \cap Nat = 0..(k + 1) - 1
      BY <2>2 DEF Issued
    <2>4. CheckingOut' = CheckingOut \ {c}
      BY <2>2 DEF CryptoInv, CallsOK, CheckingOut, NoCall
    <2>5. (k + 1) + Cardinality(CheckingOut') <= scenario.charges
      BY <1>1, <2>4, CheckingFinite DEF Issued
    <2>6. \A d \in ChargeCalls : ccall'[d].at = "insert" => ccall'[d] = ccall[d]
      BY <2>2 DEF CryptoInv, CallsOK, NoCall
    <2>7. \A d \in ChargeCalls : ccall'[d].at = "insert" => ccall'[d].id <= k + 1
      <3>1. \A d \in ChargeCalls : ccall[d].at = "insert" => ccall[d].id \in Nat /\ ccall[d].id <= k
        BY DEF CryptoInv, CallsOK, CallFits, Issued
      <3>. QED
        BY <2>6, <3>1
    <2>8. Issued(k + 1)'
      BY <1>1, <2>3, <2>5, <2>7 DEF Issued
    <2>. QED
      BY <2>8 DEF IndexesIssued
  <1>3. CASE i \in Stored
    <2>1. Stored' = Stored
      BY <1>3 DEF createStablecoinCharge, Stored
    <2>2. \A d \in ChargeCalls : /\ ccall'[d].at \in {"derive", "insert"} => ccall[d].at \in {"derive", "insert"}
                                 /\ ccall'[d].at = "insert" => ccall'[d] = ccall[d]
      <3>1. \A d \in ChargeCalls \ {c} : ccall'[d] = ccall[d]
        BY <1>1, <1>3 DEF CryptoInv, CallsOK, createStablecoinCharge
      <3>2. ccall'[c].at # "insert"
        <4>1. ccall[c] \in Calls
          BY DEF CryptoInv, CallsOK
        <4>2. \/ ccall' = [ccall EXCEPT ![c] = NoCall]
              \/ ccall' = [ccall EXCEPT ![c] = [ccall[c] EXCEPT !.at = "derive", !.attempt = ccall[c].attempt + 1]]
          BY <1>3 DEF createStablecoinCharge
        <4>3. CASE ccall' = [ccall EXCEPT ![c] = NoCall]
          BY <4>3 DEF CryptoInv, CallsOK, NoCall
        <4>4. CASE ccall' = [ccall EXCEPT ![c] = [ccall[c] EXCEPT !.at = "derive", !.attempt = ccall[c].attempt + 1]]
          BY <4>1, <4>4 DEF CryptoInv, CallsOK, Calls
        <4>. QED
          BY <4>2, <4>3, <4>4
      <3>. QED
        BY <1>1, <3>1, <3>2
    <2>. QED
      BY <1>1, <2>1, <2>2, IndexesKept DEF CryptoInv
  <1>. QED
    BY <1>2, <1>3
\* The steps behind a checkout leave the indexes alone.
LEMMA OtherIssues ==
    ASSUME CryptoInv, NEW c \in ChargeCalls, Sound(c), UNCHANGED scenario, Stored' = Stored,
           ccall'[c].at \notin {"derive", "insert"}
    PROVE  IndexesIssued'
  BY IndexesKept DEF CryptoInv, Sound, CreditStep, OneCall

SettlingStep(c) ==
    \/ settleStatus(c) \/ settleReference(c) \/ creditCharge(c) \/ markCredited(c)
    \/ writeProgress(c) \/ hookReference(c) \/ markHookSeen(c)

\* Every step behind a checkout is sound.
LEMMA SettlingSound ==
    ASSUME CryptoInv, NEW c \in ChargeCalls, SettlingStep(c) \/ Die(c)
    PROVE  Sound(c)
  BY StatusSound, ReferenceSound, CreditSound, MarkSound, ProgressSound, HookReferenceSound, SeenSound, DieSound
     DEF SettlingStep

\* Every step behind a checkout leaves the indexes alone.
LEMMA SettlingIssues ==
    ASSUME CryptoInv, NEW c \in ChargeCalls, SettlingStep(c) \/ Die(c)
    PROVE  IndexesIssued'
  <1>1. ccall \in [ChargeCalls -> Calls] /\ charge \in [Stored -> ChargeRows]
    BY DEF CryptoInv, CallsOK, RowsOK
  <1>2. scenario' = scenario /\ Stored' = Stored
    BY <1>1 DEF SettlingStep, settleStatus, settleReference, creditCharge, markCredited, writeProgress,
             hookReference, markHookSeen, Die, Stored
  <1>3. \E to \in ChargeCallStates \ {"derive", "insert"} :
           ccall' = [ccall EXCEPT ![c].at = to] \/ ccall' = [ccall EXCEPT ![c] = NoCall]
    <2>. DEFINE Goes == \E to \in ChargeCallStates \ {"derive", "insert"} :
                           ccall' = [ccall EXCEPT ![c].at = to] \/ ccall' = [ccall EXCEPT ![c] = NoCall]
    <2>1. {"idle", "legacy", "reference", "post", "mark", "seen"} \subseteq ChargeCallStates \ {"derive", "insert"}
      BY DEF ChargeCallStates
    <2>2. CASE settleStatus(c)
      BY <2>1, <2>2 DEF settleStatus, Answer
    <2>3. CASE settleReference(c)
      BY <2>1, <2>3 DEF settleReference, Answer
    <2>4. CASE creditCharge(c)
      BY <2>1, <2>4 DEF creditCharge
    <2>5. CASE markCredited(c)
      BY <2>1, <2>5 DEF markCredited, Answer
    <2>6. CASE writeProgress(c)
      <3>. DEFINE to == CASE ccall[c].at = "progress" -> "legacy"
                          [] ccall[c].at = "legacy" /\ ccall[c].status = "Settled" -> "reference"
                          [] OTHER -> "seen"
      <3>1. to \in {"legacy", "reference", "seen"}
        OBVIOUS
      <3>2. ccall' = [ccall EXCEPT ![c].at = to]
        BY <2>6 DEF writeProgress
      <3>. QED
        BY <2>1, <3>1, <3>2
    <2>7. CASE hookReference(c)
      <3>. DEFINE to == IF Reference(c) \in cryptoRefs THEN "seen" ELSE "post"
      <3>1. to \in {"seen", "post"}
        OBVIOUS
      <3>2. ccall' = [ccall EXCEPT ![c].at = to]
        BY <2>7 DEF hookReference
      <3>. QED
        BY <2>1, <3>1, <3>2
    <2>8. CASE markHookSeen(c) \/ Die(c)
      BY <2>1, <2>8 DEF markHookSeen, Die
    <2>. QED
      BY <2>2, <2>3, <2>4, <2>5, <2>6, <2>7, <2>8 DEF SettlingStep
  <1>4. ccall'[c].at \notin {"derive", "insert"}
    BY <1>1, <1>3 DEF NoCall, Calls
  <1>. QED
    BY <1>2, <1>4, SettlingSound, OtherIssues

\* A call comes in from outside: a transfer's settler or the key server's webhook.
LEMMA EntryIssues ==
    ASSUME CryptoInv, NEW c \in ChargeCalls,
           \/ \E x \in Transfers : settlePayment(c, x)
           \/ \E i \in Hosted, raw \in RawStatuses : handleKeyServerWebhook(c, i, raw)
    PROVE  Sound(c) /\ IndexesIssued'
  <1>1. {"evm", "eth", "btc"} \subseteq ChainKinds
    BY DEF ChainKinds
  <1>2. CASE \E x \in Transfers : settlePayment(c, x)
    <2>1. PICK x \in Transfers, kind \in ChainKinds, sizes \in {{"full"}, {"drift", "full"}} :
             BeginSettle(c, x, kind, sizes)
      BY <1>1, <1>2 DEF settlePayment, settleEvmPayment, settleEthPayment, settleBtcPayment
    <2>2. Sound(c)
      BY <2>1, SettleBegins
    <2>3. scenario' = scenario /\ Stored' = Stored /\ ccall'[c].at = "status"
      BY <2>1 DEF BeginSettle, Stored, CryptoInv, CallsOK, NoCall
    <2>. QED
      BY <2>2, <2>3, OtherIssues
  <1>3. CASE \E i \in Hosted, raw \in RawStatuses : handleKeyServerWebhook(c, i, raw)
    <2>1. Sound(c)
      BY <1>3, HookBegins
    <2>2. scenario' = scenario /\ Stored' = Stored /\ ccall'[c].at = "progress"
      BY ZenonT(60), <1>3 DEF handleKeyServerWebhook, Stored, CryptoInv, CallsOK, NoCall
    <2>. QED
      BY <2>1, <2>2, OtherIssues
  <1>. QED
    BY <1>2, <1>3

\* A checkout's steps.
LEMMA CheckoutIssues ==
    ASSUME CryptoInv, NEW c \in ChargeCalls,
           \/ createStablecoinCheckout(c) \/ createEthCheckout(c) \/ createBtcCheckout(c)
           \/ getNextDerivationIndex(c) \/ createStablecoinCharge(c)
    PROVE  Sound(c) /\ IndexesIssued'
  <1>1. CASE createStablecoinCheckout(c) \/ createEthCheckout(c) \/ createBtcCheckout(c)
    <2>1. PICK kind \in ChainKinds : BeginCheckout(c, kind)
      BY <1>1 DEF createStablecoinCheckout, createEthCheckout, createBtcCheckout, ChainKinds
    <2>. QED
      BY <2>1, CheckoutSound, BeginIssues
  <1>2. CASE getNextDerivationIndex(c)
    BY <1>2, DeriveSound, DeriveIssues
  <1>3. CASE createStablecoinCharge(c)
    <2>1. ccall[c].id \in ChargeIds
      BY <1>3, InsertIndex DEF createStablecoinCharge, ChargeIds
    <2>. QED
      BY <1>3, <2>1, InsertSound, InsertIssues
  <1>. QED
    BY <1>1, <1>2, <1>3

\* The key server's charge is stored, or a customer sends a transfer.
LEMMA OutsideNext ==
    ASSUME CryptoInv, (\E i \in Hosted : createHosted(i)) \/ (\E x \in Transfers : Send(x))
    PROVE  CryptoInv'
  <1>0. RowsOK /\ CallsOK /\ IndexesIssued /\ \A i \in ChargeIds : CreditedOnce(i)
    BY DEF CryptoInv
  <1>1. CASE \E i \in Hosted : createHosted(i)
    <2>1. PICK i \in Hosted : createHosted(i)
      BY <1>1
    <2>2. AddsRow(i, "hosted") /\ i \in ChargeIds \ Stored /\ i \notin Nat
      BY <2>1, CryptoBounds DEF createHosted, AddsRow, ChargeIds
    <2>3. UNCHANGED <<scenario, cryptoRefs, sent, answered, ccall, credits, exposed, deaths>>
      BY <2>1 DEF createHosted
    <2>4. /\ RowsOK' /\ Grows /\ Stored' = Stored \cup {i}
          /\ \A j \in Stored : charge'[j].credited = charge[j].credited
      BY <1>0, <2>2, <2>3, RowAdded
    <2>5. CallsOK'
      BY <1>0, <2>3, <2>4, CallsStay
    <2>6. IndexesIssued'
      BY <1>0, <2>2, <2>3, <2>4, IndexesKept
    <2>7. ASSUME NEW j \in ChargeIds PROVE CreditedOnce(j)'
      <3>1. CreditedOnce(j) /\ credits[j] \in Nat
        BY <1>0 DEF RowsOK
      <3>2. CASE j \in Stored
        BY <2>3, <2>4, <3>1, <3>2 DEF CreditedOnce, Settles
      <3>3. CASE j \notin Stored
        <4>1. ~(credits[j] > 0) /\ \A d \in ChargeCalls : ~Settles(d, j)
          BY <1>0, <3>1, <3>3, SettlesStored DEF CreditedOnce
        <4>. QED
          BY <2>3, <3>1, <4>1 DEF CreditedOnce, Settles
      <3>. QED
        BY <3>2, <3>3
    <2>. QED
      BY <2>4, <2>5, <2>6, <2>7 DEF CryptoInv
  <1>2. CASE \E x \in Transfers : Send(x)
    <2>1. UNCHANGED <<scenario, charge, cryptoRefs, answered, ccall, credits, exposed, deaths>> /\ Stored' = Stored
      BY <1>2 DEF Send, Stored
    <2>2. RowsOK'
      <3>1. PICK y \in Transfers, i \in Stored \cap Nat, s \in Sizes : sent' = [sent EXCEPT ![y] = [to |-> i, size |-> s]]
        BY <1>2 DEF Send
      <3>2. \A x \in Transfers : sent'[x] = sent[x] \/ sent'[x] = [to |-> i, size |-> s]
        BY <3>1
      <3>. QED
        BY <1>0, <2>1, <3>2 DEF RowsOK
    <2>3. CallsOK'
      BY <1>0, <2>1, CallsStay
    <2>4. IndexesIssued'
      BY <1>0, <2>1, IndexesKept
    <2>5. \A j \in ChargeIds : CreditedOnce(j)'
      BY <1>0, <2>1 DEF CreditedOnce, Settles
    <2>. QED
      BY <2>2, <2>3, <2>4, <2>5 DEF CryptoInv
  <1>. QED
    BY <1>1, <1>2

\* Nothing changes in a step of the rest of the system.
LEMMA CryptoStutter == CryptoInv /\ UNCHANGED cryptoVars => CryptoInv'
  <1>. SUFFICES ASSUME CryptoInv, UNCHANGED cryptoVars PROVE CryptoInv'
    OBVIOUS
  <1>0. RowsOK /\ CallsOK /\ IndexesIssued /\ \A i \in ChargeIds : CreditedOnce(i)
    BY DEF CryptoInv
  <1>1. Stored' = Stored /\ CheckingOut' = CheckingOut
    BY DEF cryptoVars, Stored, CheckingOut
  <1>2. RowsOK'
    BY <1>0, <1>1 DEF RowsOK, cryptoVars
  <1>3. CallsOK'
    BY <1>0, <1>1, CallsStay DEF cryptoVars
  <1>4. IndexesIssued'
    BY <1>0, <1>1, IndexesKept DEF cryptoVars
  <1>5. \A j \in ChargeIds : CreditedOnce(j)'
    BY <1>0, <1>1 DEF CreditedOnce, Settles, cryptoVars
  <1>. QED
    BY <1>2, <1>3, <1>4, <1>5 DEF CryptoInv

\* Every step keeps the charges in order.
LEMMA CryptoInvNext == CryptoInv /\ [CryptoNext]_cryptoVars => CryptoInv'
  <1>. SUFFICES ASSUME CryptoInv, [CryptoNext]_cryptoVars PROVE CryptoInv'
    OBVIOUS
  <1>1. ASSUME NEW c \in ChargeCalls, Sound(c), IndexesIssued' PROVE CryptoInv'
    <2>1. \A i \in ChargeIds : CreditedOnce(i)'
      BY <1>1, CreditNext DEF CryptoInv, Sound
    <2>. QED
      BY <1>1, <2>1 DEF CryptoInv, Sound
  <1>2. ASSUME NEW c \in ChargeCalls,
               \/ createStablecoinCheckout(c) \/ createEthCheckout(c) \/ createBtcCheckout(c)
               \/ CallStep(c) \/ Die(c)
               \/ \E x \in Transfers : settlePayment(c, x)
               \/ \E i \in Hosted, raw \in RawStatuses : handleKeyServerWebhook(c, i, raw)
        PROVE  Sound(c) /\ IndexesIssued'
    <2>1. CallStep(c) => getNextDerivationIndex(c) \/ createStablecoinCharge(c) \/ SettlingStep(c)
      BY DEF CallStep, SettlingStep
    <2>. QED
      BY <1>2, <2>1, CheckoutIssues, EntryIssues, SettlingSound, SettlingIssues
  <1>. QED
    BY <1>1, <1>2, OutsideNext, CryptoStutter DEF CryptoNext

\* The charges are in order in every state.
LEMMA CryptoInvHolds == CryptoSpec => []CryptoInv
  BY CryptoInvInit, CryptoInvNext, PTL DEF CryptoSpec

\* A charge paid in crypto is credited once, and shown as settled once it is:
\* for any number of concurrent checkouts, settlers and webhook deliveries,
\* repeated transfers and deaths, but for the charges a death before
\* markCredited or two overlapping settlements have exposed.
THEOREM ChargesAreSafe == CryptoSpec => []ChargesSafe
  <1>1. CryptoInv => ChargesSafe
    <2>. SUFFICES ASSUME CryptoInv PROVE ChargesSafe
      OBVIOUS
    <2>0. RowsOK /\ CallsOK /\ \A i \in ChargeIds : CreditedOnce(i)
      BY DEF CryptoInv
    <2>1. CryptoTypeOK
      <3>1. \A i \in Stored : charge[i] \in [kind : {"evm", "eth", "btc", "hosted"},
                                             status : {"New", "Processing", "Settled"}, credited : BOOLEAN]
        BY <2>0 DEF RowsOK, ChargeRows
      <3>2. \A c \in ChargeCalls : ccall[c].at \in ChargeCallStates /\ ccall[c].attempt \in 0..MaxRetries
        BY <2>0 DEF CallsOK, Calls
      <3>. QED
        BY <2>0, <3>1, <3>2 DEF CryptoTypeOK, RowsOK
    <2>2. ChargeCreditedOnce
      <3>. SUFFICES ASSUME NEW i \in ChargeIds, credits[i] > 1 PROVE i \in exposed
        BY DEF ChargeCreditedOnce
      <3>1. credits[i] \in Nat
        BY <2>0 DEF RowsOK
      <3>. QED
        BY <2>0, <3>1 DEF CreditedOnce
    <2>3. CreditedIsShown
      <3>1. Stored \subseteq ChargeIds
        BY <2>0 DEF RowsOK
      <3>. QED
        BY <2>0, <3>1 DEF CreditedIsShown, CreditedOnce, Shown
    <2>. QED
      BY <2>1, <2>2, <2>3 DEF ChargesSafe
  <1>. QED
    BY <1>1, CryptoInvHolds, PTL

===============================================================================
