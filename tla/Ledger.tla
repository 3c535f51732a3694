------------------------------- MODULE Ledger -------------------------------
(***************************************************************************)
(* The double-entry credit ledger, src/src/credits/ledger.ts               *)
(* (DrizzleLedger), at the granularity of the SQL statements its           *)
(* transactions issue.  credit() and debit() are the only callers of       *)
(* post(), and give it one debit and one credit line of the same amount,   *)
(* so a journal entry is kept as [dr, cr, amount].                         *)
(*                                                                         *)
(* A transaction's uncommitted writes are invisible to the others, and the *)
(* rows it writes are locked, so its writes and its commit are one action. *)
(* A row lock on an account code stands for the unique-index wait of       *)
(* ensureTenantAccountLocked's upsert and for the two FOR UPDATE locks of  *)
(* resolveAccountLocked, which are always taken together.                  *)
(***************************************************************************)
EXTENDS Integers, Sequences, FiniteSets

CONSTANTS
    Callers,        \* concurrent database transactions (requests, cron jobs)
    Tenants,        \* tenant ids; t stands for the account code "2000:<t>"
    SysAccounts,    \* seeded system account codes
    DebitNormal,    \* the system accounts with normal_side = debit
    CreditSources,  \* accounts of CREDIT_TYPE_ACCOUNT
    DebitTargets,   \* accounts of DEBIT_TYPE_ACCOUNT
    Rank,           \* position of an account code in string order
    Amounts,        \* amounts callers ask for
    PostRefs,       \* reference ids given to credit() and debit()
    CappedRefs,     \* reference ids given to debitCapped()
    NoRef,          \* no reference id
    None,           \* nobody holds the lock
    MaxEntries      \* bound on the journal's length

Accounts == Tenants \cup SysAccounts
Refs == PostRefs \cup CappedRefs

ASSUME LedgerAssumption ==
    /\ Tenants \cap SysAccounts = {}
    /\ DebitNormal \subseteq SysAccounts
    /\ CreditSources \subseteq SysAccounts
    /\ DebitTargets \subseteq SysAccounts
    /\ Rank \in [Accounts -> Nat]
    /\ \A a, b \in Accounts : Rank[a] = Rank[b] => a = b
    /\ Amounts \subseteq Int
    /\ NoRef \notin Refs
    /\ None \notin Callers
    /\ IsFiniteSet(Callers)
    /\ PostRefs \cap CappedRefs = {}
    /\ MaxEntries \in Nat

(***************************************************************************)
(* What a caller asks for.  capped requests take their amount from a       *)
(* credit line already posted (credit-expiry-cron.ts), so it is positive;  *)
(* credit() and debit() are also called with amounts they refuse.          *)
(***************************************************************************)
Requests ==
    [op : {"credit"}, tenant : Tenants, account : CreditSources,
     amount : Amounts, ref : PostRefs \cup {NoRef}, allowNegative : {FALSE}]
    \cup
    [op : {"debit"}, tenant : Tenants, account : DebitTargets,
     amount : Amounts, ref : PostRefs \cup {NoRef}, allowNegative : BOOLEAN]
    \cup
    [op : {"capped"}, tenant : Tenants, account : DebitTargets,
     amount : {n \in Amounts : n > 0}, ref : CappedRefs, allowNegative : {FALSE}]

Entries == [op : {"credit", "debit", "capped"}, tenant : Tenants,
            dr : Accounts, cr : Accounts, amount : Int,
            ref : Refs \cup {NoRef}, allowNegative : BOOLEAN]

\* req[c] when caller c has no transaction open
NoRequest == [op |-> "none"]

VARIABLES
    journal,    \* committed journal entries, in commit order
    balance,    \* committed account_balances, in each account's normal direction
    holder,     \* which transaction holds the row lock of an account
    refHolder,  \* which open transaction has inserted a header with this reference
    pc,         \* what each caller's transaction does next
    req,        \* the call each caller is making
    locked,     \* how many of the sorted accounts it has locked
    amt         \* debitCapped's debitAmount, read under the lock

vars == <<journal, balance, holder, refHolder, pc, req, locked, amt>>
committed == <<journal, balance>>
locks == <<holder, refHolder>>

PCs == {"idle", "header", "lock", "check", "read", "write"}

Init ==
    /\ journal = << >>
    /\ balance = [a \in Accounts |-> 0]
    /\ holder = [a \in Accounts |-> None]
    /\ refHolder = [r \in Refs |-> None]
    /\ pc = [c \in Callers |-> "idle"]
    /\ req = [c \in Callers |-> NoRequest]
    /\ locked = [c \in Callers |-> 0]
    /\ amt = [c \in Callers |-> 0]

-----------------------------------------------------------------------------
(* The lines of an entry and their effect on the materialised balances.     *)

NormalSide(a) == IF a \in DebitNormal THEN "debit" ELSE "credit"

Delta(a, side, amount) == IF NormalSide(a) = side THEN amount ELSE -amount

EntryDelta(a, e) ==
    (IF a = e.dr THEN Delta(a, "debit", e.amount) ELSE 0)
      + (IF a = e.cr THEN Delta(a, "credit", e.amount) ELSE 0)

EntryOf(r, amount) ==
    [op |-> r.op, tenant |-> r.tenant,
     dr |-> IF r.op = "credit" THEN r.account ELSE r.tenant,
     cr |-> IF r.op = "credit" THEN r.tenant ELSE r.account,
     amount |-> amount, ref |-> r.ref, allowNegative |-> r.allowNegative]

\* Mutation: the condition on allowNegative is inverted.
CheckedInverted(r) == r.op = "debit" /\ r.allowNegative

\* balanceCheck: opts.allowNegative ? undefined : { tenantId, amount }
Checked(r) == r.op = "debit" /\ ~r.allowNegative

\* Mutation: the lines are locked in the order they are written, unsorted.
LockOrderAsWritten(r, i) == IF (r.op = "credit") = (i = 1) THEN r.account ELSE r.tenant

\* The two accounts of the call in accountCode order: the i-th to be locked.
LockOrder(r, i) ==
    LET low == IF Rank[r.tenant] < Rank[r.account] THEN r.tenant ELSE r.account
        high == IF Rank[r.tenant] < Rank[r.account] THEN r.account ELSE r.tenant
    IN  IF i = 1 THEN low ELSE high

\* hasReferenceId, and the unique index on reference_id
Posted(r) == \E i \in 1..Len(journal) : journal[i].ref = r

-----------------------------------------------------------------------------
\* End of a transaction, committed or rolled back: its locks are released.
Release(c) ==
    /\ holder' = [a \in Accounts |-> IF holder[a] = c THEN None ELSE holder[a]]
    /\ refHolder' = [r \in Refs |-> IF refHolder[r] = c THEN None ELSE refHolder[r]]
    /\ pc' = [pc EXCEPT ![c] = "idle"]
    /\ locked' = [locked EXCEPT ![c] = 0]
    /\ amt' = [amt EXCEPT ![c] = 0]
    /\ req' = [req EXCEPT ![c] = NoRequest]

Rollback(c) == Release(c) /\ UNCHANGED committed

\* credit(), debit(): a non-positive amount throws before the transaction
\* opens; post() then inserts the header first, debitCapped() locks first.
Call(c, r) ==
    /\ pc[c] = "idle"
    /\ Len(journal) < MaxEntries
    /\ r.amount > 0
    /\ req' = [req EXCEPT ![c] = r]
    /\ pc' = [pc EXCEPT ![c] = IF r.op = "capped" THEN "lock" ELSE "header"]
    /\ UNCHANGED <<committed, locks, locked, amt>>

\* INSERT INTO journal_entries: waits while an open transaction holds the
\* same reference id (no action is enabled), then fails if it committed.
InsertHeader(c) ==
    /\ pc[c] = "header"
    /\ req[c].ref # NoRef => refHolder[req[c].ref] = None /\ ~Posted(req[c].ref)
    /\ refHolder' = [r \in Refs |-> IF r = req[c].ref THEN c ELSE refHolder[r]]
    /\ pc' = [pc EXCEPT ![c] = IF req[c].op = "capped" THEN "write" ELSE "lock"]
    /\ UNCHANGED <<committed, holder, req, locked, amt>>

DuplicateReference(c) ==
    /\ pc[c] = "header"
    /\ req[c].ref # NoRef
    /\ Posted(req[c].ref)
    /\ Rollback(c)

\* Mutation: no FOR UPDATE, the row is taken whoever holds it.
LockNextWithoutWaiting(c) ==
    /\ pc[c] = "lock"
    /\ holder' = [holder EXCEPT ![LockOrder(req[c], locked[c] + 1)] = c]
    /\ locked' = [locked EXCEPT ![c] = locked[c] + 1]
    /\ pc' = [pc EXCEPT ![c] = CASE locked[c] = 0 -> "lock"
                                 [] locked[c] # 0 /\ req[c].op = "capped" -> "read"
                                 [] locked[c] # 0 /\ Checked(req[c]) -> "check"
                                 [] OTHER -> "write"]
    /\ UNCHANGED <<committed, refHolder, req, amt>>

\* resolveAccountLocked on the next account in sorted order.
LockNext(c) ==
    /\ pc[c] = "lock"
    /\ holder[LockOrder(req[c], locked[c] + 1)] = None
    /\ holder' = [holder EXCEPT ![LockOrder(req[c], locked[c] + 1)] = c]
    /\ locked' = [locked EXCEPT ![c] = locked[c] + 1]
    /\ pc' = [pc EXCEPT ![c] = CASE locked[c] = 0 -> "lock"
                                 [] locked[c] # 0 /\ req[c].op = "capped" -> "read"
                                 [] locked[c] # 0 /\ Checked(req[c]) -> "check"
                                 [] OTHER -> "write"]
    /\ UNCHANGED <<committed, refHolder, req, amt>>

\* Phase 2 of post(): the balance check under the locks.
BalanceOk(c) == balance[req[c].tenant] >= req[c].amount

CheckBalance(c) ==
    /\ pc[c] = "check"
    /\ BalanceOk(c)
    /\ pc' = [pc EXCEPT ![c] = "write"]
    /\ UNCHANGED <<committed, locks, req, locked, amt>>

\* Mutation: the error leaves the transaction open and its rows locked.
InsufficientBalanceKeepsLocks(c) ==
    /\ pc[c] = "check"
    /\ ~BalanceOk(c)
    /\ pc' = [pc EXCEPT ![c] = "idle"]
    /\ locked' = [locked EXCEPT ![c] = 0]
    /\ req' = [req EXCEPT ![c] = NoRequest]
    /\ UNCHANGED <<committed, locks, amt>>

\* InsufficientBalanceError rolls the transaction back.
InsufficientBalance(c) ==
    /\ pc[c] = "check"
    /\ ~BalanceOk(c)
    /\ Rollback(c)

\* Mutation: the amount is not capped at the balance.
CappedAmountUncapped(current, max) == max

\* Steps 2 and 3 of debitCapped(): read under the locks, cap.
CappedAmount(current, max) == IF current < max THEN current ELSE max

ReadBalance(c) ==
    /\ pc[c] = "read"
    /\ balance[req[c].tenant] # 0
    /\ amt' = [amt EXCEPT ![c] = CappedAmount(balance[req[c].tenant], req[c].amount)]
    /\ pc' = [pc EXCEPT ![c] = "header"]
    /\ UNCHANGED <<committed, locks, req, locked>>

NothingToDebit(c) ==
    /\ pc[c] = "read"
    /\ balance[req[c].tenant] = 0
    /\ Rollback(c)

\* Phase 3 of post(), steps 6 and 7 of debitCapped(), and COMMIT.
Written(c) == EntryOf(req[c], IF req[c].op = "capped" THEN amt[c] ELSE req[c].amount)

Commit(c) ==
    /\ pc[c] = "write"
    /\ journal' = Append(journal, Written(c))
    /\ balance' = [a \in Accounts |-> balance[a] + EntryDelta(a, Written(c))]
    /\ Release(c)

\* The connection or the process dies: Postgres rolls back.
ConnectionLost(c) == pc[c] # "idle" /\ Rollback(c)

Step(c) ==
    \/ InsertHeader(c)
    \/ DuplicateReference(c)
    \/ LockNext(c)
    \/ CheckBalance(c)
    \/ InsufficientBalance(c)
    \/ ReadBalance(c)
    \/ NothingToDebit(c)
    \/ Commit(c)

Next == \E c \in Callers :
    \/ \E r \in Requests : Call(c, r)
    \/ Step(c)
    \/ ConnectionLost(c)

Spec == Init /\ [][Next]_vars

\* Every open connection keeps executing its statements; a row lock or a
\* unique-index wait is granted to its waiters in turn (Postgres queues them).
Fairness == \A c \in Callers : SF_vars(Step(c))
FairSpec == Spec /\ Fairness

-----------------------------------------------------------------------------
TypeOK ==
    /\ journal \in Seq(Entries)
    /\ balance \in [Accounts -> Int]
    /\ holder \in [Accounts -> Callers \cup {None}]
    /\ refHolder \in [Refs -> Callers \cup {None}]
    /\ pc \in [Callers -> PCs]
    /\ req \in [Callers -> Requests \cup {NoRequest}]
    /\ \A c \in Callers : req[c] = NoRequest <=> pc[c] = "idle"
    /\ locked \in [Callers -> 0..2]
    /\ amt \in [Callers -> Int]

\* Transaction c has inserted its header and not ended yet.
HasHeader(c) ==
    \/ pc[c] = "write"
    \/ pc[c] \in {"lock", "check"} /\ req[c].op # "capped"

\* Transaction c holds both of its row locks.
HasLocks(c) ==
    \/ pc[c] \in {"check", "read", "write"}
    \/ pc[c] = "header" /\ req[c].op = "capped"

\* The row locks a transaction has taken are its own until it ends.
LockInv ==
    \A c \in Callers :
        /\ pc[c] = "idle" \/ (pc[c] = "header" /\ ~HasLocks(c)) => locked[c] = 0
        /\ pc[c] = "lock" => locked[c] \in {0, 1}
        /\ HasLocks(c) => locked[c] = 2
        /\ \A i \in 1..locked[c] : holder[LockOrder(req[c], i)] = c
        /\ pc[c] = "check" => Checked(req[c])
        /\ pc[c] = "read" => req[c].op = "capped"

\* An uncommitted header reserves its reference id, which nobody has posted.
RefInv ==
    /\ \A c \in Callers :
          HasHeader(c) /\ req[c].ref # NoRef => refHolder[req[c].ref] = c
    /\ \A r \in Refs : refHolder[r] # None => ~Posted(r)

\* What was decided under the locks still holds when it is written.
DecisionInv ==
    \A c \in Callers :
        /\ pc[c] # "idle" => req[c].amount > 0
        /\ pc[c] = "write" /\ Checked(req[c]) => BalanceOk(c)
        /\ pc[c] \in {"header", "write"} /\ req[c].op = "capped"
              => /\ balance[req[c].tenant] # 0
                 /\ amt[c] = CappedAmount(balance[req[c].tenant], req[c].amount)

\* A reference id is posted at most once, whatever number of callers use it
\* at the same time and however often a call is repeated after a failure:
\* the idempotency every webhook and cron job of the repository relies on.
UniqueReferences ==
    \A i, j \in 1..Len(journal) :
        journal[i].ref # NoRef /\ journal[i].ref = journal[j].ref => i = j

\* "TOCTOU-safe: prevents overdraft under concurrent debit operations": the
\* only step that takes a tenant's balance below zero is a debit made with
\* allowNegative.
OnlyUncheckedOverdraws ==
    [][\A t \in Tenants :
          balance'[t] < balance[t] /\ balance'[t] < 0
             => \E e \in {journal'[Len(journal')]} :
                    e.op = "debit" /\ e.tenant = t /\ e.allowNegative]_vars

\* What account a's balance must be according to a journal alone.
Replay(entries, a) ==
    LET sum[i \in 0..Len(entries)] ==
            IF i = 0 THEN 0 ELSE sum[i - 1] + EntryDelta(a, entries[i])
    IN  sum[Len(entries)]

\* account_balances "can always be reconstructed from journal_lines"
\* (src/src/db/schema/ledger.ts), after every transaction and for every account.
ReconstructsFromJournal == \A a \in Accounts : balance[a] = Replay(journal, a)

\* The inductive invariant of the proofs: a decision taken under the row locks
\* (sufficient balance, capped amount, fresh reference) cannot be invalidated
\* by another transaction before it is committed.
TransactionInv == LockInv /\ RefInv /\ DecisionInv /\ UniqueReferences

\* Transaction c waits for a lock or a unique-index entry that d holds.
WaitsFor(c, d) ==
    \/ /\ pc[c] = "lock"
       /\ holder[LockOrder(req[c], locked[c] + 1)] = d
    \/ /\ pc[c] = "header"
       /\ req[c].ref # NoRef
       /\ refHolder[req[c].ref] = d

\* "a consistent global lock ordering": no set of transactions in which each
\* waits for another, although post() takes the reference before the accounts
\* and debitCapped() after them.
NoWaitCycle ==
    \A S \in (SUBSET Callers) \ {{}} :
        \E c \in S : \A d \in S : ~WaitsFor(c, d)

\* The books as a whole: typed, reconstructible from the journal alone, and
\* kept by callers that never wait for one another in a circle.
BooksSound == TypeOK /\ ReconstructsFromJournal /\ NoWaitCycle

\* Every call of credit(), debit() or debitCapped() returns or throws.
EveryCallEnds == \A c \in Callers : pc[c] # "idle" ~> pc[c] = "idle"

\* "Amount is always positive; `side` determines the direction"
\* (src/src/db/schema/ledger.ts), for what is in journal_lines.
AmountsPositive == \A i \in 1..Len(journal) : journal[i].amount > 0

=============================================================================
