----------------------------- MODULE MCAccounts -----------------------------
(* Organizations and accounts, the keys they hold, who may act in them, how   *)
(* they get started, the instances and nodes they get, and their scheduled    *)
(* top-ups.  The six share no state, so a behaviour is about one of them: the *)
(* one whose situation is not the empty one, or the schedule.                 *)
EXTENDS Orgs, Vault, Access, Onboarding, Provisioning, ScheduleTopup

R(x, y, z) == [u \in Users |-> CASE u = "u1" -> x [] u = "u2" -> y [] OTHER -> z]
Founded(x, y, z, acts) == [NoCompany EXCEPT !.owner = "u1", !.role = R(x, y, z), !.acts = acts]

\* A team that changes hands, one that loses members, an empty platform with
\* users that come and go, a personal organization that is shared, an account
\* that is closed.
MCCompanies == {
    NoCompany,
    Founded("owner", "admin", "none", {"member", "transfer", "invite"}),
    [Founded("owner", "admin", "member", {"member", "delete", "card"}) EXCEPT !.cards = 2],
    [NoCompany EXCEPT !.acts = {"create", "update", "personal", "delete"}],
    [NoCompany EXCEPT !.acts = {"personal", "transfer", "member", "invite"}],
    [NoCompany EXCEPT !.leaving = {"u1"}]}

MCKeyOrg == [t \in KeyTenants |-> "k2"]
Keys(acts, plain, held, pooled) == [acts |-> acts, plain |-> plain, sealed |-> held, pooled |-> pooled]
MCSafes == {
    NoSafe,
    Keys({"rotation", "vault", "byok"}, {}, {"p1", "k1"}, TRUE),
    Keys({"rotation", "migration", "byok"}, {"p1", "k1"}, {"k2"}, FALSE),
    Keys({"rotation", "switch", "seed"}, {}, {"p1", "p2", "k1"}, FALSE)}

Ask(by, who, scope, d, want, org) == [by |-> by, who |-> who, scope |-> scope, door |-> d, want |-> want, org |-> org]
MCAsks ==
    {Ask("session", u, "user", d, w, "t1") :
        u \in {"a", "b"}, w \in {"none", "t1", "b"},
        d \in {"protected", "tenant", "admin", "orgMember", "orgAdmin", "sessionOrToken"}}
    \cup {Ask("session", "c", "platform_admin", d, "t1", "t1") : d \in {"protected", "admin", "orgMember"}}
    \cup {Ask(by, "t1", s, d, w, "none") :
            by \in {"operator", "tenant"}, s \in {"read", "admin"}, d \in {"owned", "sessionOrToken"}, w \in {"t1", "a"}}
    \cup {Ask(by, "b", "user", "dual", "none", "none") : by \in {"session", "key", "tenant"}}

MCDoors == {
    NoDoor,
    [NoDoor EXCEPT !.acts = {"signup"}],
    [NoDoor EXCEPT !.acts = {"signup"}, !.skip = TRUE, !.admins = {"c"}],
    [NoDoor EXCEPT !.acts = {"roles"}, !.admins = {"a", "b"}],
    [NoDoor EXCEPT !.acts = {"signup", "roles"}, !.skip = TRUE, !.calls = 1, !.newcomers = {"a", "b"}],
    [NoDoor EXCEPT !.acts = {"requests"}, !.members = {<<"a", "t1", "member">>}],
    [NoDoor EXCEPT !.acts = {"requests"}, !.members = {<<"a", "t1", "admin">>}]}

MCBudgetCaps == [anonymous |-> 1, free |-> 2]
Guest == [NoTalk EXCEPT !.anon = TRUE, !.status = "active"]
MCTours == {
    NoTour,
    [NoTour EXCEPT !.acts = {"create", "handoff", "graduate"}, !.talk = Guest, !.bots = TRUE],
    [NoTour EXCEPT !.acts = {"create", "inject", "handoff"}, !.talk = Guest, !.ready = TRUE],
    [NoTour EXCEPT !.acts = {"daemon", "inject"}, !.talk = Guest],
    [NoTour EXCEPT !.acts = {"setup"}]}

Wopr(t, s, n, acts) == [prefix |-> "wopr", dns |-> {}, tenants |-> t, subs |-> s, most |-> n, acts |-> acts]
Other(dns) == [Wopr({"l1"}, {"s1"}, 3, {"create", "claim", "destroy", "restart"}) EXCEPT !.prefix = "other", !.dns = dns]
MCSites == {
    NoSite,
    Wopr({"l1"}, {"s1", "s2", "s3"}, 3, {"create"}),
    Wopr(Landlords, {"s1"}, 3, {"create", "destroy", "restart"}),
    Wopr({"l1"}, {"s1", "s2"}, 2, {"claim", "destroy", "restart"}),
    Other({}), Other({"docker4"}), Other({"docker4", "private6"}), Other({"public4", "private4"}),
    [NoSite EXCEPT !.acts = {"register"}]}

Subjects == <<company # NoCompany, safe # NoSafe, door # NoDoor, tour # NoTour, site # NoSite>>
Idle == \A i \in DOMAIN Subjects : ~Subjects[i]

Init ==
    /\ OrgInit /\ VaultInit /\ AccessInit /\ OnboardingInit /\ ProvisioningInit /\ ScheduleInit
    /\ Cardinality({i \in DOMAIN Subjects : Subjects[i]}) <= 1
Next ==
    \/ company # NoCompany /\ OrgNext /\ UNCHANGED <<vaultVars, accessVars, onboardingVars, provisioningVars, scheduleVars>>
    \/ safe # NoSafe /\ VaultNext /\ UNCHANGED <<orgVars, accessVars, onboardingVars, provisioningVars, scheduleVars>>
    \/ door # NoDoor /\ AccessNext /\ UNCHANGED <<orgVars, vaultVars, onboardingVars, provisioningVars, scheduleVars>>
    \/ tour # NoTour /\ OnboardingNext /\ UNCHANGED <<orgVars, vaultVars, accessVars, provisioningVars, scheduleVars>>
    \/ site # NoSite /\ ProvisioningNext /\ UNCHANGED <<orgVars, vaultVars, accessVars, onboardingVars, scheduleVars>>
    \/ Idle /\ ScheduleNext /\ UNCHANGED <<orgVars, vaultVars, accessVars, onboardingVars, provisioningVars>>
Spec == Init /\ [][Next]_<<orgVars, vaultVars, accessVars, onboardingVars, provisioningVars, scheduleVars>>
=============================================================================
