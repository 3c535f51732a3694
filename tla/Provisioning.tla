---------------------------- MODULE Provisioning ----------------------------
(***************************************************************************)
(* How an instance and a self-hosted node come into being: the provision   *)
(* webhook (src/src/server/routes/provision-webhook.ts), the claim of a    *)
(* pool container, the proxy's route table and what it pushes to Caddy     *)
(* (src/src/proxy/), the tenant proxy that serves a subdomain              *)
(* (src/src/server/middleware/tenant-proxy.ts), the gateway's service      *)
(* keys, and registration by a one-time token                              *)
(* (src/src/api/routes/internal-nodes.ts).                                 *)
(*                                                                         *)
(* A handler waits at one await.  Docker knows a container by its name,    *)
(* which is a prefix and the subdomain; the fleet manager's prefix is      *)
(* always "wopr", the webhook's and the pool's is configured.  Container   *)
(* ids are the instance ids.                                               *)
(***************************************************************************)
EXTENDS Naturals, FiniteSets, FiniteSetsExt

CONSTANTS
    Landlords,              \* tenants
    Subdomains,
    Desks,                  \* handlers that may run together
    RegTokens, Agents,      \* registration tokens, and node agents with a call
    Sites,                  \* records [prefix, dns, tenants, subs, most, acts]
    MaxInstancesPerTenant,
    MaxSiteFaults           \* bound on failing statements and restarts

ASSUME ProvisioningAssumption ==
    /\ IsFiniteSet(Desks) /\ Desks # {}
    /\ MaxInstancesPerTenant \in Nat /\ MaxSiteFaults \in Nat
    /\ \A s \in Sites : s.tenants \subseteq Landlords /\ s.subs \subseteq Subdomains /\ s.most \in Nat

VARIABLES
    site,           \* the prefix and what its names resolve to outside Docker, the
                    \* tenants with credit that act, the subdomains asked for, the
                    \* bound on instances made, what happens
    profiles,       \* the profile store: records [id, tenant, sub, made]
    boxes,          \* Docker's containers: records [prefix, sub, id]
    routes,         \* the proxy's table: records [id, sub, prefix, healthy]
    caddy,          \* what Caddy was last given, and whether it was reached
    keys,           \* gateway_service_keys: instance id -> revoked
    desk,           \* the handlers
    made,           \* instances made so far
    regTokens, selfNodes, agent,
    siteFaults

fleetState == <<profiles, boxes, routes, caddy, keys, desk, made>>
nodeState == <<regTokens, selfNodes, agent>>
provisioningVars == <<site, fleetState, nodeState, siteFaults>>

NoSite == [prefix |-> "wopr", dns |-> {}, tenants |-> {}, subs |-> {}, most |-> 0, acts |-> {}]
FreeDesk == [at |-> "idle", op |-> "none", tenant |-> "none", sub |-> "none", id |-> 0]
NoCall == [at |-> "idle", token |-> "none"]

ProvisioningInit ==
    /\ site \in Sites
    /\ profiles = {} /\ boxes = {} /\ routes = {} /\ made = 0
    /\ caddy = {}
    /\ keys = [i \in {} |-> FALSE]
    /\ desk = [d \in Desks |-> FreeDesk]
    /\ regTokens = [k \in RegTokens |-> "none"]
    /\ selfNodes = {} /\ agent = [a \in Agents |-> NoCall]
    /\ siteFaults = 0

DeskGoes(d, from, to) == desk[d].at = from /\ desk' = [desk EXCEPT ![d].at = to]
DeskEnds(d) == desk' = [desk EXCEPT ![d] = FreeDesk]
Named(prefix, s) == {b \in boxes : b.prefix = prefix /\ b.sub = s}

-----------------------------------------------------------------------------
(* POST /create                                                             *)

\* The secret is checked and the balance is positive.
provisionCreate(d, t, s) ==
    /\ "create" \in site.acts /\ desk[d].at = "idle"
    /\ desk' = [desk EXCEPT ![d] = [at |-> "limit", op |-> "create", tenant |-> t, sub |-> s, id |-> 0]]
    /\ UNCHANGED <<profiles, boxes, routes, caddy, keys, made>>

\* The tenant's profiles are listed and counted.
LimitReached(t) == Cardinality({p \in profiles : p.tenant = t}) >= MaxInstancesPerTenant

limitGate(d) ==
    /\ desk[d].at = "limit"
    /\ IF LimitReached(desk[d].tenant) THEN DeskEnds(d) ELSE DeskGoes(d, "limit", "save")
    /\ UNCHANGED <<profiles, boxes, routes, caddy, keys, made>>

\* fleet.create saves the profile first; a name may be taken by another one.
saveProfile(d) ==
    /\ desk[d].at = "save" /\ made < site.most
    /\ made' = made + 1
    /\ profiles' = profiles \cup
         {[id |-> made + 1, tenant |-> desk[d].tenant, sub |-> desk[d].sub, made |-> desk[d].op]}
    /\ desk' = [desk EXCEPT ![d].at = "container", ![d].id = made + 1]
    /\ UNCHANGED <<boxes, routes, caddy, keys>>

\* Docker refuses a name that is taken; the profile is rolled back.
createContainer(d) ==
    LET s == desk[d].sub IN
    /\ desk[d].at = "container"
    /\ \/ /\ Named("wopr", s) = {}
          /\ boxes' = boxes \cup {[prefix |-> "wopr", sub |-> s, id |-> desk[d].id]}
          /\ desk' = [desk EXCEPT ![d].at = "route"]
          /\ UNCHANGED profiles
       \/ /\ Named("wopr", s) # {}
          /\ profiles' = {p \in profiles : p.id # desk[d].id}
          /\ DeskEnds(d) /\ UNCHANGED boxes
    /\ UNCHANGED <<routes, caddy, keys, made>>

-----------------------------------------------------------------------------
(* The proxy                                                                *)

\* Which hosts may be an upstream: the kind of an address, or of a name and
\* what it resolves to.
isTrustedInternalIPv4(kind) == kind \in {"loopback4", "docker4"}
isPrivateIPv4(kind) == kind \in {"loopback4", "docker4", "private4"}
isPrivateIPv6(kind) == kind \in {"loopback6", "private6"} \/ kind = "mapped_private4"
Refused(kind) == (isPrivateIPv4(kind) /\ ~isTrustedInternalIPv4(kind)) \/ isPrivateIPv6(kind)
validateUpstreamHost(name, resolved) ==
    CASE name \in {"localhost", "local", "internal"} -> FALSE
      [] name = "wopr" -> TRUE
      [] OTHER -> resolved # {} /\ \A kind \in resolved : ~Refused(kind)

\* addRoute: the table's entry for the instance is set, or the call throws.
\* The claim of a pool container goes on without a route, the webhook answers
\* with an error and leaves the instance it made.
addRoute(d) ==
    /\ desk[d].at = "route"
    /\ routes' =
         IF validateUpstreamHost(site.prefix, site.dns)
         THEN {r \in routes : r.id # desk[d].id} \cup
              {[id |-> desk[d].id, sub |-> desk[d].sub, prefix |-> site.prefix, healthy |-> TRUE]}
         ELSE routes
    /\ DeskEnds(d)
    /\ UNCHANGED <<profiles, boxes, caddy, keys, made>>

\* One entry for the subdomain, one for the instance's path; an unhealthy
\* route answers 503 on both.
buildProxyRoute(r) ==
    {[match |-> m, upstream |-> IF r.healthy THEN <<r.prefix, r.sub>> ELSE <<"503", r.sub>>] :
        m \in {<<"host", r.sub>>, <<"path", r.id>>}}

generateCaddyConfig(table) == UNION {buildProxyRoute(r) : r \in table}

\* start at boot: Caddy is given the table, or cannot be reached and is left
\* alone; nothing pushes a route that is added later.
proxyStart ==
    /\ "restart" \in site.acts
    /\ caddy' = generateCaddyConfig(routes)
    /\ UNCHANGED <<profiles, boxes, routes, keys, desk, made>>

\* A restart loses the table and every handler.
restart ==
    /\ "restart" \in site.acts
    /\ routes' = {} /\ desk' = [d \in Desks |-> FreeDesk]
    /\ UNCHANGED <<profiles, boxes, caddy, keys, made>>

-----------------------------------------------------------------------------
(* The claim of a pool container                                            *)

\* The container is renamed, which fails if the name is taken, and its key is
\* generated.
claimPoolInstance(d, t, s) ==
    /\ "claim" \in site.acts /\ desk[d].at = "idle" /\ made < site.most
    /\ Named(site.prefix, s) = {}
    /\ made' = made + 1
    /\ boxes' = boxes \cup {[prefix |-> site.prefix, sub |-> s, id |-> made + 1]}
    /\ desk' = [desk EXCEPT ![d] = [at |-> "key", op |-> "claim", tenant |-> t, sub |-> s, id |-> made + 1]]
    /\ UNCHANGED <<profiles, routes, caddy, keys>>

generate(d) ==
    /\ DeskGoes(d, "key", "claimSave")
    /\ keys' = [i \in DOMAIN keys \cup {desk[d].id} |-> IF i = desk[d].id THEN FALSE ELSE keys[i]]
    /\ UNCHANGED <<profiles, boxes, routes, caddy, made>>

claimProfile(d) ==
    /\ DeskGoes(d, "claimSave", "route")
    /\ profiles' = profiles \cup
         {[id |-> desk[d].id, tenant |-> desk[d].tenant, sub |-> desk[d].sub, made |-> "claim"]}
    /\ UNCHANGED <<boxes, routes, caddy, keys, made>>

-----------------------------------------------------------------------------
(* POST /destroy                                                            *)

\* The instance's key is revoked first.  Only an instance whose making has
\* ended is destroyed: its id was answered.
revokeByInstance(d, p) ==
    /\ "destroy" \in site.acts /\ desk[d].at = "idle" /\ p \in profiles
    /\ \A o \in Desks : desk[o].id # p.id
    /\ keys' = [i \in DOMAIN keys |-> keys[i] \/ i = p.id]
    /\ desk' = [desk EXCEPT ![d] = [at |-> "remove", op |-> "destroy", tenant |-> p.tenant, sub |-> p.sub, id |-> p.id]]
    /\ UNCHANGED <<profiles, boxes, routes, caddy, made>>

\* fleet.remove: a container that cannot be removed is taken for gone.
fleetRemove(d) ==
    /\ DeskGoes(d, "remove", "unroute")
    /\ \/ /\ boxes' = {b \in boxes : b.id # desk[d].id} /\ UNCHANGED siteFaults
       \/ /\ siteFaults < MaxSiteFaults /\ siteFaults' = siteFaults + 1 /\ UNCHANGED boxes
    /\ profiles' = {p \in profiles : p.id # desk[d].id}
    /\ UNCHANGED <<routes, caddy, keys, made>>

removeRoute(d) ==
    /\ desk[d].at = "unroute"
    /\ routes' = {r \in routes : r.id # desk[d].id}
    /\ DeskEnds(d)
    /\ UNCHANGED <<profiles, boxes, caddy, keys, made>>

-----------------------------------------------------------------------------
(* Serving a subdomain                                                      *)

\* Mutation: only the table is asked.
RouteTableOnly(s) == {[prefix |-> r.prefix, sub |-> s] : r \in {x \in routes : x.sub = s /\ x.healthy}}

\* The table's healthy route for the subdomain, else the name derived from
\* the profile, whatever prefix the container has.
resolveContainerUrl(s) ==
    LET hits == {r \in routes : r.sub = s /\ r.healthy} IN
    IF hits # {} THEN {[prefix |-> r.prefix, sub |-> s] : r \in hits} ELSE {[prefix |-> "wopr", sub |-> s]}

\* Where a member's request for the subdomain may arrive: nowhere without a
\* profile of that name.
tenantProxy(s) ==
    {b \in boxes : (\E p \in profiles : p.sub = s) /\ [prefix |-> b.prefix, sub |-> b.sub] \in resolveContainerUrl(s)}

-----------------------------------------------------------------------------
(* Registration of a self-hosted node                                       *)

createToken(k) ==
    /\ "register" \in site.acts /\ regTokens[k] = "none"
    /\ regTokens' = [regTokens EXCEPT ![k] = "fresh"]
    /\ UNCHANGED <<selfNodes, agent>>

\* 15 minutes pass.
expireToken(k) ==
    /\ regTokens[k] = "fresh" /\ regTokens' = [regTokens EXCEPT ![k] = "expired"]
    /\ UNCHANGED <<selfNodes, agent>>

\* Only tokens nobody used are purged.
purgeExpired ==
    /\ \E k \in RegTokens : regTokens[k] = "expired"
    /\ regTokens' = [k \in RegTokens |-> IF regTokens[k] = "expired" THEN "purged" ELSE regTokens[k]]
    /\ UNCHANGED <<selfNodes, agent>>

\* An agent, or the same one again, comes with a token.
registerNode(a, k) ==
    /\ agent[a].at = "idle" /\ regTokens[k] # "none"
    /\ agent' = [agent EXCEPT ![a] = [at |-> "consume", token |-> k]]
    /\ UNCHANGED <<regTokens, selfNodes>>

\* One UPDATE with every precondition in its WHERE.
consume(a) ==
    LET k == agent[a].token IN
    /\ agent[a].at = "consume"
    /\ IF regTokens[k] = "fresh"
       THEN /\ regTokens' = [regTokens EXCEPT ![k] = "used"]
            /\ agent' = [agent EXCEPT ![a].at = "insert"]
       ELSE agent' = [agent EXCEPT ![a] = NoCall] /\ UNCHANGED regTokens
    /\ UNCHANGED selfNodes

\* The row is inserted with the secret's hash and goes to active.
registerSelfHosted(a) ==
    /\ agent[a].at = "insert"
    /\ selfNodes' = selfNodes \cup {[by |-> agent[a].token, nth |-> Cardinality(selfNodes), host |-> a]}
    /\ agent' = [agent EXCEPT ![a] = NoCall]
    /\ UNCHANGED regTokens

\* An agent with the node's secret keeps the node, from whatever host.
getBySecret(n, a) ==
    /\ n \in selfNodes /\ agent[a].at = "idle" /\ n.host # a
    /\ selfNodes' = (selfNodes \ {n}) \cup {[n EXCEPT !.host = a]}
    /\ UNCHANGED <<regTokens, agent>>

-----------------------------------------------------------------------------
(* Faults                                                                   *)

\* A statement fails.  A container that was not made rolls its profile back;
\* the webhook's other statements leave what was done, and a token stays used.
deskFails(d) ==
    /\ desk[d].at \in {"limit", "save", "container", "route", "key", "claimSave"}
    /\ profiles' = IF desk[d].at = "container" THEN {p \in profiles : p.id # desk[d].id} ELSE profiles
    /\ DeskEnds(d)
    /\ UNCHANGED <<boxes, routes, caddy, keys, made>>

agentFails(a) ==
    /\ agent[a].at # "idle" /\ agent' = [agent EXCEPT ![a] = NoCall]
    /\ UNCHANGED <<regTokens, selfNodes>>

SiteFault ==
    /\ siteFaults < MaxSiteFaults /\ siteFaults' = siteFaults + 1
    /\ \/ ((\E d \in Desks : deskFails(d)) \/ restart) /\ UNCHANGED nodeState
       \/ (\E a \in Agents : agentFails(a)) /\ UNCHANGED fleetState

FleetSide ==
    \/ \E d \in Desks :
         \/ \E t \in site.tenants, s \in site.subs : provisionCreate(d, t, s) \/ claimPoolInstance(d, t, s)
         \/ limitGate(d) \/ saveProfile(d) \/ createContainer(d) \/ addRoute(d)
         \/ generate(d) \/ claimProfile(d)
         \/ (\E p \in profiles : revokeByInstance(d, p)) \/ removeRoute(d)
    \/ proxyStart

NodeSide ==
    \/ \E k \in RegTokens : createToken(k) \/ expireToken(k)
    \/ purgeExpired
    \/ \E a \in Agents :
         \/ \E k \in RegTokens : registerNode(a, k)
         \/ consume(a) \/ registerSelfHosted(a)
         \/ \E n \in selfNodes : getBySecret(n, a)

ProvisioningNext ==
    /\ UNCHANGED site
    /\ \/ FleetSide /\ UNCHANGED <<nodeState, siteFaults>>
       \/ (\E d \in Desks : fleetRemove(d)) /\ UNCHANGED nodeState
       \/ NodeSide /\ UNCHANGED <<fleetState, siteFaults>>
       \/ SiteFault

ProvisioningSpec == ProvisioningInit /\ [][ProvisioningNext]_provisioningVars

-----------------------------------------------------------------------------
(* Properties                                                               *)

\* A tenant exceeds its limit of created instances by at most the creations
\* that ran together: the count is taken before the profile is saved, and
\* nothing counts again.
LimitBounded ==
    \A t \in Landlords :
        Cardinality({p \in profiles : p.tenant = t /\ p.made = "create"}) <= MaxInstancesPerTenant + Cardinality(Desks) - 1

\* With the default prefix, an instance that has its profile and its container
\* is found by its subdomain, whether its route was added, failed to be added
\* or was lost in a restart, and whoever had the subdomain before.
RoutingSurvivesRestart ==
    \A p \in profiles, b \in boxes :
        (site.prefix = "wopr" /\ b.id = p.id) => tenantProxy(p.sub) = {b}

\* A route belongs to an instance that was not destroyed: neither a crash nor
\* a removal Docker refused leaves one behind.
RoutedIsKept ==
    \A r \in routes :
        \/ \E p \in profiles : p.id = r.id
        \/ \E d \in Desks : desk[d].id = r.id

\* A one-time token makes at most one node, however many agents present it
\* together and however often a call that failed is repeated.
OneNodePerToken == \A m, n \in selfNodes : m.by = n.by => m = n

\* An instance within the limit is reached by its name, a destroyed one is not,
\* and a token is good for one node.
ProvisioningSafe == LimitBounded /\ RoutingSurvivesRestart /\ RoutedIsKept /\ OneNodePerToken
=============================================================================
