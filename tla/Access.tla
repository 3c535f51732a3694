------------------------------- MODULE Access -------------------------------
(***************************************************************************)
(* Sign-up, platform administrators, and who may act in which tenant.      *)
(*                                                                         *)
(* The hook that better-auth runs after a sign-up may make the user the    *)
(* first platform administrator, calls the product, and sends a mail with  *)
(* a token.  The admin routes read user_roles and then write them.  A      *)
(* request is authenticated by a session or a token, is checked against    *)
(* the memberships, and acts: each of the three at a time of its own.      *)
(***************************************************************************)
EXTENDS Integers, Sequences, FiniteSets

CONSTANTS
    Persons, Clerks, Asking,
    Asks,           \* the requests that may be made
    Doors,          \* situations to start from, NoDoor among them
    MaxAccessFaults

NoDoor == [acts |-> {}, admins |-> {}, members |-> {}, skip |-> FALSE, calls |-> 3, newcomers |-> Persons]

ASSUME AccessAssumption ==
    /\ NoDoor \in Doors /\ MaxAccessFaults \in Nat /\ IsFiniteSet(Persons)
    /\ \A d \in Doors : d.admins \subseteq Persons /\ d.calls \in Nat

VARIABLES
    door,
    person,         \* better-auth's user row
    grants,         \* user_roles: the role of a user in a realm, "*" is the platform
    creator,        \* the process' user creator
    signup,         \* where the hook of a sign-up is
    clerk,          \* admin routes that have checked and will write
    member,         \* organization_members: <<user, tenant, role>>
    asking,         \* requests under way
    touched,        \* <<who, tenant>>: who acted where
    promoted,       \* ghost: who was promoted while the platform had an administrator
    had,            \* ghost: there has been an administrator
    outrun,         \* ghost: the routes appointed one while the hook was about to
    lapse,          \* ghost: a removal overlapped another, or went by the tenants' routes
    roleCalls, accessFaults

accessVars == <<door, person, grants, creator, signup, clerk, member, asking, touched, promoted, had, outrun, lapse, roleCalls, accessFaults>>
signups == <<person, creator, signup, promoted>>
desks == <<clerk, outrun, lapse, roleCalls>>
requests == <<member, asking, touched>>

Realms == {"*", "t1"}
NoPerson == [via |-> "none", emailVerified |-> FALSE, email_verified |-> FALSE, token |-> "none", credit |-> "none"]
NoClerk == [do |-> "none", p |-> "none", realm |-> "*", to |-> "none"]
NoAsk == [by |-> "none", who |-> "none", scope |-> "none", door |-> "none", want |-> "none", org |-> "none"]
Allows(act) == act \in door.acts

AccessInit ==
    /\ door \in Doors
    /\ person = [p \in Persons |-> NoPerson]
    /\ grants = [p \in Persons |-> [r \in Realms |-> IF r = "*" /\ p \in door.admins THEN "platform_admin" ELSE "none"]]
    /\ creator = "unset" /\ signup = [p \in Persons |-> "none"]
    /\ clerk = [c \in Clerks |-> NoClerk]
    /\ member = door.members
    /\ asking = [q \in Asking |-> [pc |-> "none", ask |-> NoAsk]]
    /\ touched = {} /\ promoted = {} /\ had = (door.admins # {}) /\ outrun = FALSE /\ lapse = FALSE
    /\ roleCalls = 0 /\ accessFaults = 0

AccessWorks == UNCHANGED accessFaults
AccessFails == accessFaults < MaxAccessFaults /\ accessFaults' = accessFaults + 1

-----------------------------------------------------------------------------
\* RoleStore
isPlatformAdmin(p) == grants[p]["*"] = "platform_admin"
countPlatformAdmins == Cardinality({p \in Persons : isPlatformAdmin(p)})
getRole(p, realm) == grants[p][realm]
setRole(p, realm, r) ==
    /\ grants' = [grants EXCEPT ![p][realm] = r]
    /\ had' = (had \/ (realm = "*" /\ r = "platform_admin"))
removeRole(p, realm) == grants' = [grants EXCEPT ![p][realm] = "none"] /\ UNCHANGED had

-----------------------------------------------------------------------------
\* databaseHooks.user.create.after

SignUp(p, via) ==
    /\ Allows("signup") /\ p \in door.newcomers /\ person[p] = NoPerson
    /\ person' = [person EXCEPT ![p] = [NoPerson EXCEPT !.via = via, !.emailVerified = via = "oauth"]]
    /\ signup' = [signup EXCEPT ![p] = "creator"]
    /\ UNCHANGED <<door, grants, creator, promoted, had, desks, requests, accessFaults>>

\* getUserCreator: the first call counts the administrators; when the query
\* fails the next one asks again.  An error is logged and the hook goes on.
getUserCreator(p) ==
    /\ signup[p] = "creator"
    /\ \/ /\ creator = "unset" /\ AccessFails
          /\ signup' = [signup EXCEPT ![p] = "verify"] /\ UNCHANGED creator
       \/ /\ AccessWorks
          /\ creator' = IF creator # "unset" THEN creator ELSE IF countPlatformAdmins = 0 THEN "admin" ELSE "plain"
          /\ signup' = [signup EXCEPT ![p] = "create"]
    /\ UNCHANGED <<door, person, grants, promoted, had, desks, requests>>

\* Mutation: the creator is replaced when the role has been written.
SwapLate(p) ==
    /\ signup[p] = "create"
    /\ signup' = [signup EXCEPT ![p] = IF creator = "admin" THEN "promote" ELSE "verify"]
    /\ UNCHANGED <<door, person, grants, creator, promoted, had, desks, requests, accessFaults>>

\* AdminUserCreator.createUser puts the plain creator in its place before it
\* writes the role.
createUser(p) ==
    /\ signup[p] = "create"
    /\ IF creator = "admin" THEN creator' = "plain" /\ signup' = [signup EXCEPT ![p] = "promote"]
                            ELSE UNCHANGED creator /\ signup' = [signup EXCEPT ![p] = "verify"]
    /\ UNCHANGED <<door, person, grants, promoted, had, desks, requests, accessFaults>>

promote(p) ==
    /\ signup[p] = "promote"
    /\ \/ /\ AccessWorks /\ setRole(p, "*", "platform_admin") /\ creator' = "plain"
          /\ promoted' = IF countPlatformAdmins > 0 THEN promoted \cup {p} ELSE promoted
       \/ AccessFails /\ creator' = "admin" /\ UNCHANGED <<grants, had, promoted>>
    /\ signup' = [signup EXCEPT ![p] = "verify"]
    /\ UNCHANGED <<door, person, desks, requests>>

\* The product's onUserCreated, whose errors are logged, changes nothing here.
\* Then the token, unless the provider vouched for the address.  Without the
\* verification only better-auth's own column is set.
sendVerification(p) ==
    /\ signup[p] = "verify"
    /\ \/ person[p].emailVerified /\ UNCHANGED person /\ AccessWorks
       \/ /\ ~person[p].emailVerified /\ AccessWorks
          /\ person' = [person EXCEPT ![p].emailVerified = door.skip, ![p].token = IF door.skip THEN "none" ELSE "live"]
       \/ /\ ~person[p].emailVerified /\ ~door.skip /\ AccessFails    \* the token is stored, or not even that
          /\ \E t \in {"none", "live"} : person' = [person EXCEPT ![p].token = t]
    /\ signup' = [signup EXCEPT ![p] = "done"]
    /\ UNCHANGED <<door, grants, creator, promoted, had, desks, requests>>

tokenExpires(p) ==
    /\ person[p].token = "live"
    /\ person' = [person EXCEPT ![p].token = "late"]
    /\ UNCHANGED <<door, grants, creator, signup, promoted, had, desks, requests, accessFaults>>

verifyToken(p) ==
    /\ person[p].token = "live" /\ ~person[p].email_verified
    /\ person' = [person EXCEPT ![p].token = "none", ![p].emailVerified = TRUE, ![p].email_verified = TRUE,
                                ![p].credit = "due"]
    /\ UNCHANGED <<door, grants, creator, signup, promoted, had, desks, requests, accessFaults>>

\* The verify route goes on with the credit and the welcome mail; their errors
\* are logged.  A second click finds no token and ends before this.
grantSignupCredits(p) ==
    /\ person[p].credit = "due"
    /\ \/ AccessWorks /\ person' = [person EXCEPT ![p].credit = "granted"]
       \/ AccessFails /\ person' = [person EXCEPT ![p].credit = "missed"]
    /\ UNCHANGED <<door, grants, creator, signup, promoted, had, desks, requests>>

Reboot ==
    /\ Allows("signup") /\ AccessFails /\ creator # "unset"
    /\ creator' = "unset" /\ signup' = [p \in Persons |-> IF signup[p] = "none" THEN "none" ELSE "done"]
    /\ UNCHANGED <<door, person, grants, promoted, had, desks, requests>>

-----------------------------------------------------------------------------
\* The admin routes: the middleware reads the caller's role, the handler
\* checks, and the write follows.

\* An operator's token carries the role "admin".
requirePlatformAdmin(u) == u \in {"operator"} \cup {p \in Persons : isPlatformAdmin(p)}
requireTenantAdmin(u, realm) ==
    u \in {"operator"} \cup {p \in Persons : isPlatformAdmin(p) \/ getRole(p, realm) = "tenant_admin"}

Intend(c, do, p, realm, to) ==
    /\ Allows("roles") /\ clerk[c] = NoClerk
    /\ roleCalls < door.calls /\ roleCalls' = roleCalls + 1
    /\ clerk' = [clerk EXCEPT ![c] = [do |-> do, p |-> p, realm |-> realm, to |-> to]]
    \* The tenants' routes take "*" for a tenant, and know no last administrator.
    /\ lapse' = (lapse \/ (realm = "*" /\ to # "platform_admin"
                              /\ (do # "dismiss" \/ ~had \/ \E d \in Clerks : clerk[d] # NoClerk)))
    /\ UNCHANGED <<door, grants, had, outrun, signups, requests, accessFaults>>

setTenantRole(c, u, realm, p, r) == requireTenantAdmin(u, realm) /\ Intend(c, "set", p, realm, r)
removeTenantRole(c, u, realm, p) == requireTenantAdmin(u, realm) /\ Intend(c, "remove", p, realm, "none")
addPlatformAdmin(c, u, p) == requirePlatformAdmin(u) /\ Intend(c, "set", p, "*", "platform_admin")

removePlatformAdmin(c, u, p) ==
    /\ requirePlatformAdmin(u)
    /\ ~(countPlatformAdmins <= 1 /\ isPlatformAdmin(p))
    /\ Intend(c, "dismiss", p, "*", "none")

Bootstrapping == creator = "admin" \/ \E p \in Persons : signup[p] = "promote"

writeRole(c) ==
    /\ clerk[c] # NoClerk
    /\ outrun' = (outrun \/ (clerk[c].to = "platform_admin" /\ Bootstrapping))
    /\ IF clerk[c].do = "set" THEN setRole(clerk[c].p, clerk[c].realm, clerk[c].to)
                              ELSE removeRole(clerk[c].p, clerk[c].realm)
    /\ clerk' = [clerk EXCEPT ![c] = NoClerk]
    /\ UNCHANGED <<door, signups, lapse, roleCalls, requests, accessFaults>>

-----------------------------------------------------------------------------
\* Requests.  by: a session, an operator's or a tenant's token, a user's API key.

Level(s) == CASE s = "admin" -> 2 [] s = "write" -> 1 [] OTHER -> 0
scopeSatisfies(have, need) == Level(have) >= Level(need)

\* buildTokenMetadataMap: a token's tenant; an operator's token has none.
tokenTenantId(a) == IF a.by = "tenant" THEN a.who ELSE "none"
isOperatorToken(a) == a.by = "operator"

scopedBearerAuthWithTenant(a, need) == a.by \in {"operator", "tenant"} /\ scopeSatisfies(a.scope, need)

\* A session passes whatever scope the route asks for.
requireSessionOrToken(a, need) == a.by = "session" \/ (a.by = "operator" /\ scopeSatisfies(a.scope, need))

\* dualAuth: the session, or a key whose hash is in the table
dualAuth(a) == a.by \in {"session", "key"}

\* createTRPCContext: sessions only, and the tenant of the x-tenant-id header
\* or the user's own
hasSession(a) == a.by = "session"
tenantOf(a) == IF a.want = "none" THEN a.who ELSE a.want

authenticate(a) ==
    CASE a.door \in {"protected", "admin", "tenant", "orgMember", "orgAdmin"} -> hasSession(a)
      [] a.door = "sessionOrToken" -> requireSessionOrToken(a, "write")
      [] a.door = "dual" -> dualAuth(a)
      [] a.door = "owned" -> scopedBearerAuthWithTenant(a, "write")
      [] OTHER -> FALSE

findMembership(u, t) == {m \in member : m[1] = u /\ m[2] = t}
validateTenantAccess(u, t) == t = u \/ findMembership(u, t) # {}

isAuthed(a) == a.scope = "platform_admin" \/ validateTenantAccess(a.who, tenantOf(a))
isAuthedWithTenant(a) == tenantOf(a) # "none" /\ isAuthed(a)
isAdmin(a) == a.scope = "platform_admin"
isOrgMember(a) == findMembership(a.who, a.org) # {}
isOrgAdmin(a) == \A m \in findMembership(a.who, a.org) : m[3] # "member"

\* An operator's token is let through; the resource is compared by the handler.
requireTenantOwnership(a) == isOperatorToken(a) \/ tokenTenantId(a) # "none"
validateTenantOwnership(a) == isOperatorToken(a) \/ (tokenTenantId(a) # "none" /\ tokenTenantId(a) = a.want)

authorize(a) ==
    CASE a.door = "protected" -> isAuthed(a)
      [] a.door = "tenant" -> isAuthedWithTenant(a)
      [] a.door = "admin" -> isAuthed(a) /\ isAdmin(a)
      [] a.door = "orgMember" -> isAuthed(a) /\ isOrgMember(a)
      [] a.door = "orgAdmin" -> isAuthed(a) /\ isOrgMember(a) /\ isOrgAdmin(a)
      [] a.door = "owned" -> requireTenantOwnership(a) /\ validateTenantOwnership(a)
      [] OTHER -> TRUE

\* Where the handler acts.  Behind sessionOrToken and dual it has no tenant.
Subject(a) == CASE a.door \in {"orgMember", "orgAdmin"} -> a.org
                [] a.door = "owned" -> a.want
                [] a.door \in {"sessionOrToken", "dual"} -> "none"
                [] OTHER -> tenantOf(a)

arrive(q, a) ==
    /\ Allows("requests") /\ asking[q].pc = "none"
    /\ authenticate(a)
    /\ asking' = [asking EXCEPT ![q] = [pc |-> "check", ask |-> a]]
    /\ UNCHANGED <<door, grants, had, signups, desks, member, touched, accessFaults>>

checkRequest(q) ==
    /\ asking[q].pc = "check"
    /\ asking' = [asking EXCEPT ![q].pc = IF authorize(asking[q].ask) THEN "act" ELSE "refused"]
    /\ UNCHANGED <<door, grants, had, signups, desks, member, touched, accessFaults>>

act(q) ==
    /\ asking[q].pc = "act"
    /\ touched' = touched \cup {<<asking[q].ask.by, asking[q].ask.who, Subject(asking[q].ask)>>}
    /\ asking' = [asking EXCEPT ![q].pc = "done"]
    /\ UNCHANGED <<door, grants, had, signups, desks, member, accessFaults>>

leave(m) ==
    /\ Allows("requests") /\ m \in member
    /\ member' = member \ {m}
    /\ UNCHANGED <<door, grants, had, signups, desks, asking, touched, accessFaults>>

AccessNext ==
    \/ \E p \in Persons :
         \/ \E via \in {"password", "oauth"} : SignUp(p, via)
         \/ getUserCreator(p) \/ createUser(p) \/ promote(p) \/ sendVerification(p) \/ tokenExpires(p)
         \/ verifyToken(p) \/ grantSignupCredits(p)
    \/ Reboot
    \/ \E c \in Clerks :
         \/ writeRole(c)
         \/ \E u \in Persons \cup {"operator"}, p \in Persons :
              \/ addPlatformAdmin(c, u, p) \/ removePlatformAdmin(c, u, p)
              \/ \E r \in Realms : \/ removeTenantRole(c, u, r, p)
                                   \/ \E to \in {"tenant_admin", "user"} : setTenantRole(c, u, r, p, to)
    \/ \E q \in Asking : checkRequest(q) \/ act(q) \/ \E a \in Asks : arrive(q, a)
    \/ \E m \in door.members : leave(m)

AccessSpec == AccessInit /\ [][AccessNext]_accessVars

-----------------------------------------------------------------------------
\* Sign-ups that run side by side, and ones whose promotion fails, make one
\* platform administrator: nobody is promoted by the hook while there is one,
\* unless the admin routes appointed one after the hook had counted.
BootstrapOnce == outrun \/ promoted = {}

\* A platform that has had an administrator keeps one: unless a removal was
\* asked for while another call of the admin routes was under way or before
\* there was any, or the tenants' routes were called for "*".
AdminRemains == had /\ ~lapse => countPlatformAdmins > 0

InOwnTenant(x) ==
    \/ x[1] = "operator" \/ x[3] = "none"
    \/ x[2] = x[3]
    \/ \E m \in door.members : m[1] = x[2] /\ m[2] = x[3]
    \/ \E a \in Asks : a.who = x[2] /\ a.scope = "platform_admin"

\* Whichever way a request comes in, it acts in a tenant that is its sender's
\* own, that its token was made for, or that its sender was a member of;
\* only an operator's token and a platform administrator act elsewhere.
ActsInOwnTenant == \A x \in touched : InOwnTenant(x)

\* Who is an administrator, and where a request acts.
AccessSafe == BootstrapOnce /\ AdminRemains /\ ActsInOwnTenant
=============================================================================
