----------------------------- MODULE MCPayments -----------------------------
(* The ways money comes in from outside: Stripe's events and crypto charges.  *)
(* They share no row but the ledger's, which each sees through its references, *)
(* so a behaviour has a workload for the first or a scenario for the second.   *)
EXTENDS Purchases, CryptoCharges

Event(id, type, tenant) ==
    [id |-> id, type |-> type, tenant |-> tenant, object |-> id, amount |-> 1, won |-> TRUE, status |-> "active"]

Checkout(id, tenant) == Event(id, "checkout.session.completed", tenant)
Dispute(id, type) == [Event(id, type, "d") EXCEPT !.object = "dispute"]

\* One tenant with a flag, one that is blocked, two without a signal.
MCSignals == [t \in Tenants |-> CASE t = "c" -> {"same_ip"}
                                  [] t = "d" -> {"same_ip", "email_alias"}
                                  [] OTHER -> {}]

MCWorkloads == {
    {},
    {Checkout("s1", "a"), Checkout("s2", "c")},
    {Checkout("s1", "a"), Checkout("s2", "a")},
    {Event("k1", "coupon_redeem", "a"), Event("k2", "coupon_redeem", "b"), Event("p1", "plan.created", "a")},
    {Checkout("s1", "b"), Event("i1", "invoice.payment_succeeded", "b"), Event("i2", "invoice.payment_failed", "b")},
    {Checkout("s1", "b"), Event("r1", "charge.refunded", "b")},
    {Checkout("s1", "d"), Dispute("dc", "charge.dispute.created"), Dispute("dw", "charge.dispute.closed")},
    {Event("v1", "customer.subscription.updated", "a"), Event("v3", "customer.subscription.deleted", "a"),
     [Event("v2", "customer.subscription.updated", "a") EXCEPT !.status = "canceling"]},
    {[Checkout("s1", "a") EXCEPT !.amount = 0], [Event("dl", "charge.dispute.closed", "a") EXCEPT !.won = FALSE]}}

NoCrypto == [charges |-> 0, transfers |-> {}, hosted |-> {}]

\* Two checkouts that race for an index; transfers to one address; a charge
\* on the key server.
MCScenarios == {
    NoCrypto,
    [charges |-> 2, transfers |-> {}, hosted |-> {}],
    [charges |-> 1, transfers |-> Transfers, hosted |-> {}],
    [charges |-> 0, transfers |-> {}, hosted |-> Hosted]}

Init ==
    /\ PurchasesInit /\ CryptoInit
    /\ (workload = {}) # (scenario = NoCrypto)

Next ==
    \/ PurchasesNext /\ UNCHANGED cryptoVars
    \/ CryptoNext /\ UNCHANGED purchaseVars

vars == <<purchaseVars, cryptoVars>>

Spec == Init /\ [][Next]_vars /\ PurchasesFairness /\ CryptoFairness

\* Everybody who paid is credited in the end: each event of Stripe is answered,
\* whatever cut its handler off before, and each transfer that the watcher
\* sees credits its charge.
PaymentsSettle == EveryEventAnswered /\ TransferCredits
=============================================================================
