-------------------------------- MODULE Orgs --------------------------------
(***************************************************************************)
(* Organizations and accounts.                                             *)
(*                                                                         *)
(* OrgService keeps a tenants row with an owner, one membership row per    *)
(* user, and invites.  A call reads what it checks and then writes, one    *)
(* statement at a time; only deleteOrg has a transaction.  Two calls may   *)
(* be under way, a write may fail, a call may die between two writes.  The *)
(* reads of one call are taken together.                                   *)
(*                                                                         *)
(* An account's deletion is requested, cancelled or, after its grace       *)
(* period, carried out table by table; an export is worked on.  What calls *)
(* the two repositories is not in the source and is external here.         *)
(***************************************************************************)
EXTENDS Integers, Sequences, FiniteSets

CONSTANTS
    Users,
    Teams,          \* ids of organizations that are not a user's own
    Invites, OrgCallers,
    Companies,      \* situations to start from, NoCompany among them
    MaxOrgCalls, MaxOrgFaults

Nobody == "nobody"
NoCompany == [owner |-> Nobody, role |-> << >>, acts |-> {}, leaving |-> {}, cards |-> 0]

OrgRoles == {"none", "member", "admin", "owner"}

\* A company that exists has one member with the owner's membership, its owner.
ASSUME OrgsAssumption ==
    /\ Users \cap Teams = {} /\ Nobody \notin Users \cup Teams
    /\ NoCompany \in Companies /\ MaxOrgCalls \in Nat /\ MaxOrgFaults \in Nat
    /\ \A k \in Companies : k.owner # Nobody =>
         /\ k.owner \in Users /\ k.role \in [Users -> OrgRoles]
         /\ \A u \in Users : k.role[u] = "owner" <=> u = k.owner

VARIABLES
    company,
    tenant,         \* tenants: an organization's owner_id, and its slug
    role,           \* organization_members: the role of a user, or "none"
    invite,         \* organization_invites
    cards, topup,   \* an organization's payment methods; auto-topup is on
    orgCall,        \* what each call still has to write
    orgCalls, orgFaults,
    erasure,        \* a user's deletion request, and what its execution did
    holds,          \* tables that hold rows of a user
    export,         \* a user's export request
    loose           \* ghost: organizations where calls collided or one died

orgVars == <<company, tenant, role, invite, cards, topup, orgCall, orgCalls, orgFaults, erasure, holds, export, loose>>
orgRows == <<tenant, role, invite, cards, topup>>
accountRows == <<erasure, holds, export>>

OrgIds == Teams \cup Users
NoTenant == [owner |-> Nobody, slug |-> 0]
NoInvite == [org |-> Nobody, role |-> "none", state |-> "none"]
Rest == [org |-> Nobody, op |-> "none", todo |-> << >>]
Works(op) == op \in company.acts

\* What the executor's repository erases, a group of tables at a time
Tables == <<"bots", "credits", "metering", "mail", "records">>

OrgInit ==
    /\ company \in Companies
    /\ tenant = [o \in OrgIds |-> IF o \in Teams /\ company.owner # Nobody
                                  THEN [owner |-> company.owner, slug |-> 1] ELSE NoTenant]
    /\ role = [o \in OrgIds |-> [u \in Users |-> IF o \in Teams /\ company.owner # Nobody THEN company.role[u] ELSE "none"]]
    /\ invite = [i \in Invites |-> NoInvite]
    /\ cards = company.cards /\ topup = (company.cards > 0)
    /\ orgCall = [c \in OrgCallers |-> Rest]
    /\ orgCalls = 0 /\ orgFaults = 0 /\ loose = {}
    /\ erasure = [u \in Users |-> [status |-> "none", done |-> << >>]]
    /\ holds = [u \in Users |-> {Tables[i] : i \in DOMAIN Tables} \cup {"auth"}]
    /\ export = [u \in Users |-> "none"]

-----------------------------------------------------------------------------
\* DrizzleOrgRepository and DrizzleOrgMemberRepository: what a statement does
Exists(o) == tenant[o] # NoTenant
getBySlug(s) == {o \in OrgIds : tenant[o].slug = s}
findMember(o, u) == role[o][u] # "none"
countAdminsAndOwners(o) == Cardinality({u \in Users : role[o][u] \in {"admin", "owner"}})

addMember(o, u, r) == role' = [role EXCEPT ![o][u] = IF @ = "none" THEN r ELSE @]
updateMemberRole(o, u, r) == role' = [role EXCEPT ![o][u] = IF @ = "none" THEN @ ELSE r]
deleteMember(o, u) == role' = [role EXCEPT ![o][u] = "none"]
updateOwner(o, u) == tenant' = [tenant EXCEPT ![o].owner = IF Exists(o) THEN u ELSE @]
insertTenant(o, u, s) == tenant' = [tenant EXCEPT ![o] = IF Exists(o) THEN @ ELSE [owner |-> u, slug |-> s]]
setSlug(o, s) == tenant' = [tenant EXCEPT ![o].slug = IF Exists(o) THEN s ELSE @]
deleteInvite(i) == invite' = [invite EXCEPT ![i] = NoInvite]
createInvite(i, o, r) == invite' = [invite EXCEPT ![i] = [org |-> o, role |-> r, state |-> "open"]]
markInviteAccepted(i) == invite' = [invite EXCEPT ![i].state = IF @ = "none" THEN @ ELSE "accepted"]
deleteRows(o) ==
    /\ invite' = [i \in Invites |-> IF invite[i].org = o THEN NoInvite ELSE invite[i]]
    /\ role' = [role EXCEPT ![o] = [u \in Users |-> "none"]]
    /\ tenant' = [tenant EXCEPT ![o] = NoTenant]

requireAdminOrOwner(o, u) == role[o][u] \in {"admin", "owner"}

\* A call's writes, in their order
Write(do, user, to) == [do |-> do, user |-> user, to |-> to]

\* Calls that move the ownership, or that rest on who has it
MovesOwner(op) == op \in {"transfer", "delete", "create", "personal"}

Begin(c, op, o, writes) ==
    /\ Works(op) /\ orgCall[c] = Rest /\ orgCalls < MaxOrgCalls
    /\ orgCall' = [orgCall EXCEPT ![c] = [org |-> o, op |-> op, todo |-> writes]]
    /\ orgCalls' = orgCalls + 1
    /\ loose' = IF \E d \in OrgCallers : orgCall[d].org = o /\ (MovesOwner(orgCall[d].op) \/ MovesOwner(op))
                THEN loose \cup {o} ELSE loose
    /\ UNCHANGED <<company, orgRows, accountRows, orgFaults>>

-----------------------------------------------------------------------------
\* OrgService

getOrCreatePersonalOrg(c, u) ==
    Begin(c, "personal", u, <<Write("tenant", u, 0), Write("add", u, "owner")>>)

\* The id is fresh; the slug is looked up first.
createOrg(c, u, o, s) ==
    /\ ~Exists(o) /\ \A v \in Users : ~findMember(o, v)
    /\ getBySlug(s) = {}
    /\ Begin(c, "create", o, <<Write("insert", u, s), Write("first", u, "owner")>>)

updateOrg(c, o, u, s) ==
    /\ requireAdminOrOwner(o, u)
    /\ getBySlug(s) \subseteq {o}
    /\ Begin(c, "update", o, <<Write("slug", u, s)>>)

deleteOrg(c, o, u) ==
    /\ Exists(o) /\ tenant[o].owner = u
    /\ Begin(c, "delete", o, <<Write("delete", u, Nobody)>>)

inviteMember(c, o, u, i, r) ==
    /\ requireAdminOrOwner(o, u) /\ invite[i] = NoInvite
    /\ Begin(c, "invite", o, <<Write("invite", i, r)>>)

revokeInvite(c, o, u, i) ==
    /\ requireAdminOrOwner(o, u) /\ invite[i].org = o
    /\ Begin(c, "invite", o, <<Write("revoke", i, Nobody)>>)

changeRole(c, o, u, t, r) ==
    /\ requireAdminOrOwner(o, u) /\ Exists(o) /\ tenant[o].owner # t /\ findMember(o, t)
    /\ Begin(c, "member", o, <<Write("role", t, r)>>)

\* Mutation: the owner is a member like any other.
RemoveAnyone(c, o, u, t) ==
    /\ requireAdminOrOwner(o, u) /\ Exists(o) /\ findMember(o, t)
    /\ role[o][t] = "admin" => countAdminsAndOwners(o) > 1
    /\ Begin(c, "member", o, <<Write("remove", t, Nobody)>>)

removeMember(c, o, u, t) ==
    /\ requireAdminOrOwner(o, u) /\ Exists(o) /\ tenant[o].owner # t /\ findMember(o, t)
    /\ role[o][t] = "admin" => countAdminsAndOwners(o) > 1
    /\ Begin(c, "member", o, <<Write("remove", t, Nobody)>>)

\* The owner may name itself, and is then left as an admin.
transferOwnership(c, o, u, t) ==
    /\ Exists(o) /\ tenant[o].owner = u /\ findMember(o, t)
    /\ Begin(c, "transfer", o, <<Write("role", t, "owner"), Write("role", u, "admin"), Write("owner", t, Nobody)>>)

\* An invite that is past its date may not be accepted, and time passes.
acceptInvite(c, u, i) ==
    /\ invite[i].state = "open" /\ ~findMember(invite[i].org, u)
    /\ Begin(c, "invite", invite[i].org, <<Write("add", u, invite[i].role), Write("accepted", i, Nobody)>>)

\* orgRemovePaymentMethod: the last one stays while auto-topup is on.  It looks
\* again after the removal, and only warns.
orgRemovePaymentMethod(c, o, u) ==
    /\ requireAdminOrOwner(o, u)
    /\ cards > 0 /\ ~(cards <= 1 /\ topup)
    /\ Begin(c, "card", o, <<Write("detach", u, Nobody)>>)

\* Settles what the call wrote last; a transfer to oneself is on record.
Settled(c, rest) ==
    /\ orgCall' = [orgCall EXCEPT ![c] = IF rest = << >> THEN Rest ELSE [@ EXCEPT !.todo = rest]]
    /\ loose' = IF orgCall[c].op = "transfer" /\ rest = << >> /\ tenant[orgCall[c].org].owner = Head(orgCall[c].todo).user
                THEN loose \cup {orgCall[c].org} ELSE loose
    /\ UNCHANGED <<company, orgCalls, accountRows>>

\* One statement of a call.
Step(c) ==
    /\ orgCall[c] # Rest
    /\ LET o == orgCall[c].org
           w == Head(orgCall[c].todo)
           rest == Tail(orgCall[c].todo)
       IN \/ /\ w.do = "tenant" /\ insertTenant(o, w.user, w.to)
             /\ Settled(c, rest) /\ UNCHANGED <<role, invite, cards, topup, orgFaults>>
          \/ /\ w.do = "insert"        \* tenants.slug is unique
             /\ IF getBySlug(w.to) = {} THEN insertTenant(o, w.user, w.to) /\ Settled(c, rest)
                                        ELSE UNCHANGED tenant /\ Settled(c, << >>)
             /\ UNCHANGED <<role, invite, cards, topup, orgFaults>>
          \/ /\ w.do = "slug"
             /\ IF getBySlug(w.to) \subseteq {o} THEN setSlug(o, w.to) ELSE UNCHANGED tenant
             /\ Settled(c, rest) /\ UNCHANGED <<role, invite, cards, topup, orgFaults>>
          \/ /\ w.do = "owner" /\ updateOwner(o, w.user)
             /\ Settled(c, rest) /\ UNCHANGED <<role, invite, cards, topup, orgFaults>>
          \/ /\ w.do \in {"add", "first"} /\ addMember(o, w.user, w.to)
             /\ Settled(c, rest) /\ UNCHANGED <<tenant, invite, cards, topup, orgFaults>>
          \/ /\ w.do = "role" /\ updateMemberRole(o, w.user, w.to)
             /\ Settled(c, rest) /\ UNCHANGED <<tenant, invite, cards, topup, orgFaults>>
          \/ /\ w.do = "remove" /\ deleteMember(o, w.user)
             /\ Settled(c, rest) /\ UNCHANGED <<tenant, invite, cards, topup, orgFaults>>
          \/ /\ w.do = "delete" /\ deleteRows(o)
             /\ Settled(c, rest) /\ UNCHANGED <<cards, topup, orgFaults>>
          \/ /\ \/ w.do = "invite" /\ createInvite(w.user, o, w.to)
                \/ w.do = "revoke" /\ deleteInvite(w.user)
                \/ w.do = "accepted" /\ markInviteAccepted(w.user)
             /\ Settled(c, rest) /\ UNCHANGED <<tenant, role, cards, topup, orgFaults>>
          \/ /\ w.do = "detach" /\ cards' = IF cards > 0 THEN cards - 1 ELSE 0
             /\ Settled(c, rest) /\ UNCHANGED <<tenant, role, invite, topup, orgFaults>>

\* A write fails or the process dies: what was written stays, except that a
\* created organization whose first member was refused is deleted again.
StepFails(c) ==
    /\ orgCall[c] # Rest /\ orgFaults < MaxOrgFaults
    /\ orgFaults' = orgFaults + 1
    /\ LET o == orgCall[c].org IN
       \/ /\ Head(orgCall[c].todo).do = "first"
          /\ tenant' = [tenant EXCEPT ![o] = NoTenant] /\ UNCHANGED loose
       \/ UNCHANGED tenant /\ loose' = IF MovesOwner(orgCall[c].op) THEN loose \cup {o} ELSE loose
    /\ orgCall' = [orgCall EXCEPT ![c] = Rest]
    /\ UNCHANGED <<company, role, invite, cards, topup, orgCalls, accountRows>>

-----------------------------------------------------------------------------
\* DrizzleDeletionRepository, DrizzleDeletionExecutorRepository.  One executor
\* works on a request at a time.

AccountStep == UNCHANGED <<company, orgRows, orgCall, orgCalls, loose>>
Leaving(u) == u \in company.leaving

requestDeletion(u) ==
    /\ Leaving(u) /\ erasure[u].status \in {"none", "cancelled"}
    /\ erasure' = [erasure EXCEPT ![u] = [status |-> "pending", done |-> << >>]]
    /\ UNCHANGED <<holds, export, orgFaults>> /\ AccountStep

isPending(u) == erasure[u].status = "pending"

cancel(u) ==
    /\ Leaving(u) /\ isPending(u)
    /\ erasure' = [erasure EXCEPT ![u].status = "cancelled"]
    /\ UNCHANGED <<holds, export, orgFaults>> /\ AccountStep

\* findRipe found the request while it was pending; its status is not looked
\* at again before the last statement.
Erasing(u) == erasure[u].done # << >> \/ isPending(u)

erase(u) ==
    /\ Leaving(u) /\ Erasing(u) /\ Len(erasure[u].done) < Len(Tables)
    /\ LET t == Tables[Len(erasure[u].done) + 1] IN
          /\ holds' = [holds EXCEPT ![u] = @ \ {t}]
          /\ erasure' = [erasure EXCEPT ![u].done = Append(@, t)]
    /\ UNCHANGED <<export, orgFaults>> /\ AccountStep

\* The tables of better-auth come last, in a transaction of their own.
deleteAuthUser(u) ==
    /\ Leaving(u) /\ erasure[u].done = Tables
    /\ holds' = [holds EXCEPT ![u] = @ \ {"auth"}]
    /\ erasure' = [erasure EXCEPT ![u].done = Append(@, "auth")]
    /\ UNCHANGED <<export, orgFaults>> /\ AccountStep

\* A statement fails: the request is found again when the executor runs next.
eraseFails(u) ==
    /\ Leaving(u) /\ Erasing(u) /\ Len(erasure[u].done) <= Len(Tables)
    /\ orgFaults < MaxOrgFaults /\ orgFaults' = orgFaults + 1
    /\ erasure' = [erasure EXCEPT ![u].done = << >>]
    /\ UNCHANGED <<holds, export>> /\ AccountStep

markCompleted(u) ==
    /\ Leaving(u) /\ Len(erasure[u].done) > Len(Tables) /\ isPending(u)
    /\ erasure' = [erasure EXCEPT ![u].status = "completed"]
    /\ UNCHANGED <<holds, export, orgFaults>> /\ AccountStep

\* DrizzleExportRepository: a status moves on only from the one before it.
exportTo(from, to) ==
    \E u \in Users :
        /\ Leaving(u) /\ export[u] \in from
        /\ export' = [export EXCEPT ![u] = to]
        /\ UNCHANGED <<erasure, holds, orgFaults>> /\ AccountStep

insertExport == exportTo({"none", "failed"}, "pending")
markProcessing == exportTo({"pending"}, "processing")
markExported == exportTo({"processing"}, "completed")
markExportFailed == exportTo({"processing"}, "failed")

OrgNext ==
    \/ \E c \in OrgCallers :
         \/ Step(c) \/ StepFails(c)
         \/ \E u \in Users : \/ getOrCreatePersonalOrg(c, u)
                             \/ \E i \in Invites : acceptInvite(c, u, i)
         \/ \E o \in OrgIds, u \in Users :
              \/ deleteOrg(c, o, u) \/ orgRemovePaymentMethod(c, o, u)
              \/ \E s \in {1, 2} : (o \in Teams /\ createOrg(c, u, o, s)) \/ updateOrg(c, o, u, s)
              \/ \E t \in Users : \/ removeMember(c, o, u, t) \/ transferOwnership(c, o, u, t)
                                  \/ \E r \in {"admin", "member"} : changeRole(c, o, u, t, r)
              \/ \E i \in Invites : \/ revokeInvite(c, o, u, i)
                                    \/ \E r \in {"admin", "member"} : inviteMember(c, o, u, i, r)
    \/ \E u \in Users : requestDeletion(u) \/ cancel(u) \/ erase(u) \/ deleteAuthUser(u) \/ eraseFails(u) \/ markCompleted(u)
    \/ insertExport \/ markProcessing \/ markExported \/ markExportFailed

OrgSpec == OrgInit /\ [][OrgNext]_orgVars

-----------------------------------------------------------------------------
\* Whatever members are invited, promoted and removed side by side, a settled
\* organization's owner has the owner's membership, and in a team nobody else
\* has: unless a transfer, a creation or a deletion overlapped another call or
\* was cut off, or the owner transferred the team to itself.
OwnerIsMember ==
    \A o \in OrgIds \ loose :
        Exists(o) /\ (\A c \in OrgCallers : ~(orgCall[c].org = o /\ MovesOwner(orgCall[c].op))) =>
            /\ role[o][tenant[o].owner] = "owner"
            /\ o \in Teams => \A u \in Users : role[o][u] = "owner" => u = tenant[o].owner
=============================================================================
