------------------------------- MODULE MCFleet ------------------------------
(* API calls on bots, rollouts among them, the hot pool, the billing crons, and *)
(* notifications: a behaviour is about one of them.                             *)
EXTENDS Rollouts, HotPool, Billing, Notifications

Calls(j1, j2) == [c \in Callers |-> CASE c = "c1" -> j1 [] c = "c2" -> j2 [] OTHER -> NoJob]

World(has, up, j1, j2) == [NoWorld EXCEPT !.has = has, !.up = up, !.jobs = Calls(j1, j2)]

\* Two calls on one bot, which exists or not, runs or not, is local or remote;
\* two calls on the two bots of a tenant with a network of its own; a bot and
\* no calls but the rollout's.
MCWorlds ==
    {NoWorld}
    \cup {World(has, up, Job(op1, "b1", 2), Job(op2, "b1", 0)) :
            has \in {{}, {"b1"}}, up \in {{}, {"b1"}}, op1 \in ApiOps, op2 \in {"create", "remove", "update", "start", "setupProxy"}}
    \cup {[World(has, {}, Job("remove", "b1", 0), Job("create", "b1", 0)) EXCEPT !.remote = {"b1"}] : has \in {{}, {"b1"}}}
    \cup {[World({"b1", "b2"}, {"b1"}, Job("remove", "b1", 0), Job(op, "b2", 0)) EXCEPT !.isolated = TRUE] :
            op \in {"start", "update", "remove", "restart"}}
    \cup {World({"b1", "b2"}, {"b1"}, NoJob, Job(op, "b2", 0)) : op \in {"remove", "start"}}

Plan(strategy, manual, configManual, pinned) ==
    [NoPlan EXCEPT !.strategy = strategy, !.manual = manual, !.configManual = configManual, !.pinned = pinned, !.maxFailures = 2]

MCPlans == {NoPlan,
    Plan("rolling-wave", {}, {}, {"b2"}), Plan("single-bot", {}, {"b2"}, {}), Plan("immediate", {}, {}, {}),
    Plan("immediate", {"b1"}, {}, {})}

MCOwner == [b \in BotIds |-> IF b = "i3" THEN "b" ELSE "a"]

Of(x, y) == [t \in Tenants |-> IF t = "a" THEN x ELSE y]
Fee(r, t, s, a) == [runtime |-> r, tier |-> t, storage |-> s, addon |-> a]
Era(acts, p) == [NoEra EXCEPT !.acts = acts, !.purse = p,
                              !.state = [b \in BotIds |-> IF b = "i2" THEN "inactive" ELSE "active"]]

\* Daily charges while a bot is started, the tenant pays, or the gateway
\* spends; grants and their expiry; a dividend date; reports; reconciliations.
MCEras ==
    {NoEra}
    \cup {[Era({"runtime"}, Of(2, 0)) EXCEPT !.fee = Fee(1, t, 1, 0), !.hook = h, !.started = {"i2"}] :
             t \in {0, 1}, h \in BOOLEAN}
    \cup {[Era({"runtime", "reaper"}, Of(1, 0)) EXCEPT !.fee = Fee(1, 0, 0, 0), !.hook = TRUE, !.buyers = {"a"}],
          [Era({"runtime"}, Of(2, 0)) EXCEPT !.fee = Fee(1, 1, 0, 0), !.hook = TRUE, !.buyers = {"a"}],
          [Era({"runtime"}, Of(1, 2)) EXCEPT !.fee = Fee(1, 0, 1, 1), !.hook = TRUE],
          [Era({"signup", "expiry", "gateway"}, Of(0, 1)) EXCEPT !.grant = 2],
          Era({"report"}, Of(0, 0))}
    \cup {[Era({"runtime", "gateway"}, Of(3, 0)) EXCEPT !.fee = Fee(1, 1, 1, s), !.hook = TRUE] : s \in {0, 1}}
    \cup {[Era({"dividend", "signup"}, Of(0, 0)) EXCEPT !.bought = Of(x, y)] : x \in {0, 1}, y \in {1, 3}}
    \cup {[Era({"reconcile"}, Of(0, 0)) EXCEPT !.metered = Of(<<1, x>>, <<3, 2>>), !.debited = Of(1 + x, y)] :
             x \in {0, 2}, y \in {1, 5}}

\* Each mail alone; one that nothing renders and one with database templates;
\* two rows; mails that are suppressed, and a server without a transport; bot
\* events and preferences; the mails that go out at once.
Posts(a, m, n, e) == [acts |-> a, mails |-> m, rows |-> n, env |-> e]
MCInboxes ==
    {NoInbox,
     Posts({"templates"}, {"dispute-won", "custom"}, 1, {"AWS_SES_REGION", "RESEND_API_KEY"}),
     Posts({}, {"low-balance"}, 2, {"POSTMARK_API_KEY"}),
     Posts({"preferences", "fleet"}, {}, 0, {"RESEND_API_KEY"}),
     Posts({"billing"}, {}, 0, {"RESEND_API_KEY"}),
     Posts({}, {"low-balance"}, 1, {"EMAIL_DISABLED", "RESEND_API_KEY"}),
     Posts({}, {"low-balance"}, 1, {})}
    \cup {Posts({}, {m}, 1, {"RESEND_API_KEY"}) : m \in Mails}

\* The worlds that a plan is rolled out in: a bot is started while all are
\* updated at once, or removed while they are updated one after the other.
Rolled == {w \in Worlds : w.has = {"b1", "b2"} /\ ~w.isolated}

Init ==
    /\ \E subject \in {"fleet", "rollout", "pool", "billing", "mail"} :
          /\ world \in CASE subject = "fleet" -> Worlds \ (Rolled \cup {NoWorld})
                         [] subject = "rollout" -> Rolled
                         [] OTHER -> {NoWorld}
          /\ plan \in IF subject = "rollout" THEN Plans \ {NoPlan} ELSE {NoPlan}
          /\ poolSize \in IF subject = "pool" THEN PoolSizes \ {0} ELSE {0}
          /\ era \in IF subject = "billing" THEN Eras \ {NoEra} ELSE {NoEra}
          /\ inbox \in IF subject = "mail" THEN Inboxes \ {NoInbox} ELSE {NoInbox}
          /\ subject = "rollout" => (plan.strategy = "immediate") = (world.jobs["c2"].op = "start")
    /\ RolloutsInit /\ PoolInit /\ BillingInit /\ NotifyInit

Next ==
    \/ world # NoWorld /\ RolloutsNext /\ UNCHANGED <<poolVars, billingVars, notifyVars>>
    \/ poolSize # 0 /\ PoolNext /\ UNCHANGED <<fleetVars, rolloutVars, billingVars, notifyVars>>
    \/ era # NoEra /\ BillingNext /\ UNCHANGED <<fleetVars, rolloutVars, poolVars, notifyVars>>
    \/ inbox # NoInbox /\ NotifyNext /\ UNCHANGED <<fleetVars, rolloutVars, poolVars, billingVars>>

Spec == Init /\ [][Next]_<<fleetVars, rolloutVars, poolVars, billingVars, notifyVars>>
=============================================================================
