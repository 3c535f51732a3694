-------------------------------- MODULE Vault -------------------------------
(***************************************************************************)
(* Encrypted secrets: the provider credentials of the platform, the API    *)
(* keys that tenants bring, and the rotation of the platform secret.       *)
(*                                                                         *)
(* A stored value is encrypted under a key that is derived from the        *)
(* platform secret and from what the row belongs to.  The server writes    *)
(* rows under its own secret while reEncryptAllCredentials or              *)
(* migratePlaintextCredentials works through rows it listed before; every  *)
(* write of theirs may fail, and they may die.  Who calls the two and      *)
(* restarts the server is external: the updates are visible one by one     *)
(* (the transaction that the comment asks for is the caller's), and the    *)
(* restart follows a pass whose writes all went well.                      *)
(***************************************************************************)
EXTENDS Integers, Sequences, FiniteSets, SequencesExt

CONSTANTS
    Creds,          \* ids of provider credentials
    KeyTenants,     \* tenants; a tenant has at most one key of the provider
    KeyOrg,         \* KeyOrg[t]: the organization t is a member of, or t itself
    KeyCallers,
    Safes,          \* situations to start from, NoSafe among them
    MaxKeyWrites, MaxKeyFaults

NoSafe == [acts |-> {}, plain |-> {}, sealed |-> {}, pooled |-> FALSE]

ASSUME VaultAssumption ==
    /\ NoSafe \in Safes /\ MaxKeyWrites \in Nat /\ MaxKeyFaults \in Nat
    /\ IsFiniteSet(Creds) /\ IsFiniteSet(KeyTenants) /\ Creds \cap KeyTenants = {}
    /\ KeyOrg \in [KeyTenants -> KeyTenants]

VARIABLES
    safe,
    sealed,         \* provider_credentials and tenant_api_keys: what a row holds
    inactive,       \* provider credentials that are switched off
    secret,         \* the platform secret of the running server
    seed,           \* secrets.enc of an instance
    pass,           \* the pass over the rows that is under way
    pen,            \* upserts that have looked for their row
    newest,         \* ghost: the value that was written last
    exposed,        \* ghost: rows written behind the back of a pass
    tidy,           \* every plaintext row was migrated
    keyWrites, keyFaults

vaultVars == <<safe, sealed, inactive, secret, seed, pass, pen, newest, exposed, tidy, keyWrites, keyFaults>>
calm == <<safe, seed, inactive>>

Rows == Creds \cup KeyTenants
Absent == [by |-> "absent", of |-> "none", val |-> 0]
Still == [kind |-> "none", todo |-> << >>, listed |-> {}, failed |-> {}, begun |-> FALSE]
NoPen == [t |-> "none", found |-> FALSE]

Lock(s, r) == [by |-> s, of |-> IF r \in Creds THEN "credential-vault" ELSE r]

\* encrypt; decrypt throws under any other key
encrypt(v, key) == [by |-> key.by, of |-> key.of, val |-> v]
opens(x, key) == x.by = key.by /\ x.of = key.of
Plaintext(v) == [by |-> "plain", of |-> "none", val |-> v]

VaultInit ==
    /\ safe \in Safes
    /\ sealed = [r \in Rows |-> IF r \in safe.plain THEN Plaintext(1)
                                ELSE IF r \in safe.sealed THEN encrypt(1, Lock("old", r)) ELSE Absent]
    /\ inactive = {} /\ secret = "old" /\ seed = Absent
    /\ pass = Still /\ pen = [c \in KeyCallers |-> NoPen]
    /\ newest = [r \in Rows |-> IF r \in safe.plain \cup safe.sealed THEN 1 ELSE 0]
    /\ exposed = {} /\ tidy = FALSE /\ keyWrites = 0 /\ keyFaults = 0

Stored(r) == sealed[r] # Absent
May(act) == act \in safe.acts
KeyWorks == UNCHANGED keyFaults
KeyFails == keyFaults < MaxKeyFaults /\ keyFaults' = keyFaults + 1

\* A pass that listed the row writes what it read, or has left it behind.
Behind(r) == r \in pass.listed \/ (pass.kind = "none" /\ pass.begun /\ secret = "old")

Put(r, x, v) ==
    /\ sealed' = [sealed EXCEPT ![r] = x]
    /\ newest' = [newest EXCEPT ![r] = v]
    /\ exposed' = IF Behind(r) THEN exposed \cup {r} ELSE exposed
    /\ keyWrites < MaxKeyWrites /\ keyWrites' = keyWrites + 1
    /\ UNCHANGED <<secret, pass, tidy, keyFaults>>

-----------------------------------------------------------------------------
\* CredentialVaultStore over DrizzleCredentialRepository.  A call looks for
\* the row and updates it by its id, which finds nothing when it is gone.

create(r) ==
    /\ May("vault") /\ r \in Creds /\ ~Stored(r)
    /\ Put(r, encrypt(keyWrites + 2, Lock(secret, r)), keyWrites + 2)
    /\ UNCHANGED <<calm, pen>>

rotate(r) ==
    /\ May("vault") /\ r \in Creds /\ Stored(r)
    /\ Put(r, encrypt(keyWrites + 2, Lock(secret, r)), keyWrites + 2)
    /\ UNCHANGED <<calm, pen>>

deleteCredential(r) ==
    /\ May("vault") /\ r \in Creds /\ Stored(r)
    /\ Put(r, Absent, 0)
    /\ UNCHANGED <<calm, pen>>

setActive(r, on) ==
    /\ May("switch") /\ r \in Creds /\ Stored(r) /\ (r \in inactive) = on
    /\ inactive' = IF on THEN inactive \ {r} ELSE inactive \cup {r}
    /\ UNCHANGED <<safe, sealed, secret, seed, pass, pen, newest, exposed, tidy, keyWrites, keyFaults>>

\* getActiveForProvider: one row that does not open and the call throws.
getActiveForProvider ==
    LET rows == {r \in Creds : Stored(r) /\ r \notin inactive} IN
    IF \A r \in rows : opens(sealed[r], Lock(secret, r)) THEN {sealed[r].val : r \in rows} ELSE {-1}

-----------------------------------------------------------------------------
\* TenantKeyRepository.  upsert looks for the row and then updates or inserts.

upsert(c, t) ==
    /\ May("byok") /\ pen[c] = NoPen /\ keyWrites < MaxKeyWrites
    /\ pen' = [pen EXCEPT ![c] = [t |-> t, found |-> Stored(t)]]
    /\ UNCHANGED <<calm, sealed, secret, pass, newest, exposed, tidy, keyWrites, keyFaults>>

\* An insert fails on the unique index when another one was first, an update
\* finds nothing when the row was deleted.
upsertWrite(c) ==
    /\ pen[c] # NoPen
    /\ LET t == pen[c].t IN
       IF pen[c].found = Stored(t)
       THEN Put(t, encrypt(keyWrites + 2, Lock(secret, t)), keyWrites + 2)
       ELSE UNCHANGED <<sealed, secret, pass, newest, exposed, tidy, keyWrites, keyFaults>>
    /\ pen' = [pen EXCEPT ![c] = NoPen]
    /\ UNCHANGED calm

deleteKey(t) ==
    /\ May("byok") /\ Stored(t)
    /\ Put(t, Absent, 0)
    /\ UNCHANGED <<calm, pen>>

\* resolveApiKey: the tenant's key, the organization's, the platform's
lookupKey(t) ==
    CASE ~Stored(t) -> << >>
      [] Stored(t) /\ opens(sealed[t], Lock(secret, t)) -> <<sealed[t].val>>
      [] OTHER -> <<-1>>

resolveApiKeyWithOrgFallback(t) ==
    CASE lookupKey(t) # << >> -> [source |-> "tenant", key |-> lookupKey(t)]
      [] lookupKey(t) = << >> /\ KeyOrg[t] # t /\ lookupKey(KeyOrg[t]) # << >> ->
            [source |-> "org", key |-> lookupKey(KeyOrg[t])]
      [] OTHER -> [source |-> IF safe.pooled THEN "pooled" ELSE "none", key |-> << >>]

-----------------------------------------------------------------------------
\* The secrets routes: a seed file under the instance's key, which no pass
\* knows of.

writeEncryptedSeed ==
    /\ May("seed")
    /\ \/ KeyWorks /\ seed' = encrypt(1, [by |-> secret, of |-> "instance"])
       \/ KeyFails /\ UNCHANGED seed
    /\ UNCHANGED <<safe, inactive, sealed, secret, pass, pen, newest, exposed, tidy, keyWrites>>

-----------------------------------------------------------------------------
\* reEncryptAllCredentials and migratePlaintextCredentials: the credentials are
\* listed and worked through, then the tenants' keys.

List(rows) == SetToSeq({[row |-> r, held |-> sealed[r]] : r \in {q \in rows : Stored(q)}})

beginPass(kind) ==
    /\ May(kind) /\ pass.kind = "none" /\ secret = "old"
    /\ pass' = [kind |-> kind, todo |-> List(Creds), listed |-> Creds, failed |-> {},
                begun |-> pass.begun \/ kind = "rotation"]
    /\ UNCHANGED <<calm, sealed, secret, pen, newest, exposed, tidy, keyWrites, keyFaults>>

listTenantKeys ==
    /\ pass.kind # "none" /\ pass.todo = << >> /\ pass.listed = Creds
    /\ pass' = [pass EXCEPT !.todo = List(KeyTenants), !.listed = Rows]
    /\ UNCHANGED <<calm, sealed, secret, pen, newest, exposed, tidy, keyWrites, keyFaults>>

\* Mutation: the tenant's key is derived from the old secret once more.
SameTenantKey(r, held) == encrypt(held.val, Lock(IF r \in Creds THEN "new" ELSE "old", r))

reEncrypted(r, held) == encrypt(held.val, Lock("new", r))

\* A row that the old key does not open is an error that is put on the list,
\* and is left as it is; a migration passes over what is encrypted.
Concerns(kind, r, held) ==
    IF kind = "rotation" THEN opens(held, Lock("old", r)) ELSE held.by = "plain"

nextRow ==
    /\ pass.todo # << >>
    /\ LET r == Head(pass.todo).row
           held == Head(pass.todo).held
           done == [pass EXCEPT !.todo = Tail(@)]
       IN IF ~Concerns(pass.kind, r, held)
          THEN pass' = done /\ UNCHANGED <<sealed, keyFaults>>
          ELSE \/ /\ KeyWorks /\ pass' = done
                  /\ sealed' = IF ~Stored(r) THEN sealed
                               ELSE [sealed EXCEPT ![r] = IF pass.kind = "rotation" THEN reEncrypted(r, held)
                                                          ELSE encrypt(held.val, Lock(secret, r))]
               \/ KeyFails /\ pass' = [done EXCEPT !.failed = @ \cup {r}] /\ UNCHANGED sealed
    /\ UNCHANGED <<calm, secret, pen, newest, exposed, tidy, keyWrites>>

endPass ==
    /\ pass.kind # "none" /\ pass.todo = << >> /\ pass.listed = Rows
    /\ tidy' = (tidy \/ (pass.kind = "migration" /\ pass.failed = {}))
    /\ secret' \in IF pass.kind = "rotation" /\ pass.failed = {} THEN {"old", "new"} ELSE {secret}
    /\ pass' = [Still EXCEPT !.begun = pass.begun]
    /\ UNCHANGED <<calm, sealed, pen, newest, exposed, keyWrites, keyFaults>>

passDies ==
    /\ pass.kind # "none" /\ KeyFails
    /\ pass' = [Still EXCEPT !.begun = pass.begun]
    /\ UNCHANGED <<calm, sealed, secret, pen, newest, exposed, tidy, keyWrites>>

\* auditCredentialEncryption
auditCredentialEncryption == {r \in Rows : sealed[r].by = "plain"}

VaultNext ==
    \/ \E r \in Creds : create(r) \/ rotate(r) \/ deleteCredential(r) \/ \E on \in BOOLEAN : setActive(r, on)
    \/ \E t \in KeyTenants : deleteKey(t) \/ \E c \in KeyCallers : upsert(c, t)
    \/ \E c \in KeyCallers : upsertWrite(c)
    \/ writeEncryptedSeed
    \/ \E kind \in {"rotation", "migration"} : beginPass(kind)
    \/ listTenantKeys \/ nextRow \/ endPass \/ passDies

VaultSpec == VaultInit /\ [][VaultNext]_vaultVars

-----------------------------------------------------------------------------
\* When no pass is under way, and the server runs on the new secret or no
\* rotation was begun, every row that was not written behind a pass opens and
\* holds what was written last: the tenant's own key wins over the
\* organization's and that one over the platform's, and every active
\* credential is there, also after a pass that died and one that went over
\* migrated rows again.  Rows that came as plaintext are there until a
\* migration went through.
KeysReadable ==
    pass.kind = "none" /\ (secret = "new" \/ ~pass.begun) /\ exposed = {} =>
        /\ tidy => auditCredentialEncryption = {}
        /\ \A t \in KeyTenants :
             LET owners == {o \in {t, KeyOrg[t]} : newest[o] # 0}
                 o == IF t \in owners THEN t ELSE KeyOrg[t]
             IN owners \cap auditCredentialEncryption = {} =>
                resolveApiKeyWithOrgFallback(t) =
                  IF owners = {} THEN [source |-> IF safe.pooled THEN "pooled" ELSE "none", key |-> << >>]
                  ELSE [source |-> IF o = t THEN "tenant" ELSE "org", key |-> <<newest[o]>>]
        /\ Creds \cap auditCredentialEncryption = {} =>
             getActiveForProvider = {newest[r] : r \in {q \in Creds : newest[q] # 0 /\ q \notin inactive}}
=============================================================================
