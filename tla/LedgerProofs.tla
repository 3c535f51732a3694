---------------------------- MODULE LedgerProofs ----------------------------
(***************************************************************************)
(* Proofs about Ledger for every number of callers, tenants, accounts,     *)
(* amounts and reference ids.                                              *)
(***************************************************************************)
EXTENDS Ledger, WellFoundedInduction, FiniteSetTheorems, TLAPS

-----------------------------------------------------------------------------
(* Type correctness                                                         *)

USE DEF Accounts, Refs

\* The entry a well-typed transaction writes is a journal entry.
LEMMA WrittenType ==
    ASSUME TypeOK, NEW c \in Callers, pc[c] # "idle"
    PROVE  Written(c) \in Entries
  <1>1. req[c] \in Requests
    BY DEF TypeOK, NoRequest
  <1>2. amt[c] \in Int
    BY DEF TypeOK
  <1>. QED
    BY <1>1, <1>2, LedgerAssumption DEF Written, EntryOf, Entries, Requests

\* What an entry does to an account is an integer.
LEMMA EntryDeltaType ==
    ASSUME NEW e \in Entries, NEW a
    PROVE  EntryDelta(a, e) \in Int
  BY DEF Entries, EntryDelta, Delta

\* A lock order position is an account.
LEMMA LockOrderType ==
    ASSUME NEW r \in Requests, NEW i
    PROVE  LockOrder(r, i) \in Accounts
  BY LedgerAssumption DEF LockOrder, Requests

\* Ending a transaction keeps the types.
LEMMA ReleaseType ==
    ASSUME TypeOK, NEW c \in Callers, Release(c)
    PROVE  /\ holder' \in [Accounts -> Callers \cup {None}]
           /\ refHolder' \in [Refs -> Callers \cup {None}]
           /\ pc' \in [Callers -> PCs]
           /\ req' \in [Callers -> Requests \cup {NoRequest}]
           /\ \A d \in Callers : req'[d] = NoRequest <=> pc'[d] = "idle"
           /\ locked' \in [Callers -> 0..2]
           /\ amt' \in [Callers -> Int]
  BY DEF TypeOK, Release, PCs

\* A request is never the record that stands for none.
LEMMA RequestsNotNone == NoRequest \notin Requests
  BY DEF NoRequest, Requests

-----------------------------------------------------------------------------
\* The initial state is well typed.
LEMMA InitType == Init => TypeOK
  BY LedgerAssumption DEF Init, TypeOK, PCs

\* Every step keeps the types.
LEMMA NextType == TypeOK /\ LockInv /\ [Next]_vars => TypeOK'
  <1>. SUFFICES ASSUME TypeOK, LockInv, [Next]_vars PROVE TypeOK'
    OBVIOUS
  <1>1. CASE UNCHANGED vars
    BY <1>1 DEF vars, TypeOK
  <1>2. ASSUME NEW c \in Callers, NEW r \in Requests, Call(c, r) PROVE TypeOK'
    BY <1>2, RequestsNotNone DEF Call, TypeOK, PCs, committed, locks
  <1>3. ASSUME NEW c \in Callers, Rollback(c) PROVE TypeOK'
    <2>1. journal' = journal /\ balance' = balance /\ Release(c)
      BY <1>3 DEF Rollback, committed
    <2>. QED
      BY <2>1, ReleaseType DEF TypeOK
  <1>4. ASSUME NEW c \in Callers, Commit(c) PROVE TypeOK'
    <2>1. Written(c) \in Entries
      BY <1>4, WrittenType DEF Commit
    <2>2. journal' \in Seq(Entries)
      BY <1>4, <2>1 DEF Commit, TypeOK
    <2>3. balance' \in [Accounts -> Int]
      BY <1>4, <2>1, EntryDeltaType DEF Commit, TypeOK
    <2>. QED
      BY <1>4, <2>2, <2>3, ReleaseType DEF Commit, TypeOK
  <1>5. ASSUME NEW c \in Callers, InsertHeader(c) PROVE TypeOK'
    BY <1>5 DEF InsertHeader, TypeOK, PCs, committed
  <1>6. ASSUME NEW c \in Callers, LockNext(c) PROVE TypeOK'
    <2>1. req[c] \in Requests
      BY <1>6 DEF LockNext, TypeOK
    <2>2. locked[c] + 1 \in 0..2
      BY <1>6 DEF LockNext, LockInv
    <2>3. pc'[c] # "idle" /\ pc'[c] \in PCs
      BY <1>6 DEF LockNext, TypeOK, PCs
    <2>4. UNCHANGED <<journal, balance, refHolder, req, amt>>
      BY <1>6 DEF LockNext, committed
    <2>5. pc' = [pc EXCEPT ![c] = pc'[c]]
      BY <1>6 DEF LockNext, TypeOK
    <2>6. pc[c] # "idle"
      BY <1>6 DEF LockNext
    <2>7. /\ holder' = [holder EXCEPT ![LockOrder(req[c], locked[c] + 1)] = c]
          /\ locked' = [locked EXCEPT ![c] = locked[c] + 1]
      BY <1>6 DEF LockNext
    <2>. QED
      BY <2>1, <2>2, <2>3, <2>4, <2>5, <2>6, <2>7, LockOrderType DEF TypeOK
  <1>7. ASSUME NEW c \in Callers, CheckBalance(c) PROVE TypeOK'
    BY <1>7 DEF CheckBalance, TypeOK, PCs, committed, locks
  <1>8. ASSUME NEW c \in Callers, ReadBalance(c) PROVE TypeOK'
    <2>1. req[c] \in Requests /\ balance[req[c].tenant] \in Int /\ req[c].amount \in Int
      BY <1>8, LedgerAssumption DEF ReadBalance, TypeOK, Requests
    <2>2. CappedAmount(balance[req[c].tenant], req[c].amount) \in Int
      BY <2>1 DEF CappedAmount
    <2>. QED
      BY <1>8, <2>2 DEF ReadBalance, TypeOK, PCs, committed, locks
  <1>. QED
    BY <1>1, <1>2, <1>3, <1>4, <1>5, <1>6, <1>7, <1>8
       DEF Next, Step, DuplicateReference, InsufficientBalance, NothingToDebit,
           ConnectionLost

-----------------------------------------------------------------------------
(* The row locks                                                            *)

\* Both accounts of a call are in its lock order, and they are different.
LEMMA LockOrderCovers ==
    ASSUME NEW r \in Requests
    PROVE  /\ r.tenant \in Accounts /\ r.account \in Accounts
           /\ {LockOrder(r, 1), LockOrder(r, 2)} = {r.tenant, r.account}
           /\ LockOrder(r, 1) # LockOrder(r, 2)
  <1>1. r.tenant \in Tenants /\ r.account \in SysAccounts
    BY LedgerAssumption DEF Requests
  <1>2. r.tenant # r.account
    BY <1>1, LedgerAssumption
  <1>3. CASE Rank[r.tenant] < Rank[r.account]
    BY <1>1, <1>2, <1>3 DEF LockOrder
  <1>4. CASE ~(Rank[r.tenant] < Rank[r.account])
    BY <1>1, <1>2, <1>4 DEF LockOrder
  <1>. QED
    BY <1>3, <1>4

\* Ending a transaction disturbs no lock of another one.
LEMMA ReleaseLocks ==
    ASSUME TypeOK, LockInv, NEW c \in Callers, Release(c)
    PROVE  LockInv'
  <1>. SUFFICES ASSUME NEW d \in Callers
                PROVE  /\ pc'[d] = "idle" \/ (pc'[d] = "header" /\ ~HasLocks(d)') => locked'[d] = 0
                       /\ pc'[d] = "lock" => locked'[d] \in {0, 1}
                       /\ HasLocks(d)' => locked'[d] = 2
                       /\ \A i \in 1..locked'[d] : holder'[LockOrder(req'[d], i)] = d
                       /\ pc'[d] = "check" => Checked(req'[d])
                       /\ pc'[d] = "read" => req'[d].op = "capped"
    BY DEF LockInv
  <1>1. CASE d = c
    <2>1. pc'[d] = "idle" /\ locked'[d] = 0
      BY <1>1 DEF Release, TypeOK
    <2>. QED
      BY <2>1 DEF HasLocks
  <1>2. CASE d # c
    <2>1. pc'[d] = pc[d] /\ req'[d] = req[d] /\ locked'[d] = locked[d]
      BY <1>2 DEF Release, TypeOK
    <2>2. ASSUME NEW i \in 1..locked[d] PROVE holder'[LockOrder(req[d], i)] = d
      <3>1. holder[LockOrder(req[d], i)] = d
        BY DEF LockInv
      <3>2. pc[d] # "idle"
        BY DEF LockInv
      <3>3. LockOrder(req[d], i) \in Accounts
        BY <3>2, LockOrderType DEF TypeOK
      <3>. QED
        BY <3>1, <3>3, <1>2 DEF Release
    <2>. QED
      BY <2>1, <2>2 DEF LockInv, HasLocks
  <1>. QED
    BY <1>1, <1>2

\* Every step keeps the row locks with the transactions that took them.
LEMMA NextLock == TypeOK /\ LockInv /\ [Next]_vars => LockInv'
  <1>. SUFFICES ASSUME TypeOK, LockInv, [Next]_vars PROVE LockInv'
    OBVIOUS
  <1>1. CASE UNCHANGED vars
    BY <1>1 DEF vars, LockInv, HasLocks
  <1>2. ASSUME NEW c \in Callers, NEW r \in Requests, Call(c, r) PROVE LockInv'
    BY <1>2 DEF Call, LockInv, HasLocks, TypeOK, locks, Checked
  <1>3. ASSUME NEW c \in Callers, Release(c) PROVE LockInv'
    BY <1>3, ReleaseLocks
  <1>4. ASSUME NEW c \in Callers, InsertHeader(c) PROVE LockInv'
    BY <1>4 DEF InsertHeader, LockInv, HasLocks, TypeOK, Checked
  <1>5. ASSUME NEW c \in Callers, LockNext(c) PROVE LockInv'
    <2>1. req[c] \in Requests /\ locked[c] \in {0, 1}
      BY <1>5 DEF LockNext, TypeOK, LockInv
    <2>2. LockOrder(req[c], locked[c] + 1) \in Accounts
      BY <2>1, LockOrderType
    <2>3. ASSUME NEW a \in Accounts, holder[a] # None PROVE holder'[a] = holder[a]
      BY <1>5, <2>2, <2>3 DEF LockNext, TypeOK
    <2>4. holder'[LockOrder(req[c], locked[c] + 1)] = c
      BY <1>5, <2>2 DEF LockNext, TypeOK
    <2>5. ASSUME NEW d \in Callers, NEW i \in 1..locked[d]
          PROVE  holder'[LockOrder(req[d], i)] = d
      <3>1. holder[LockOrder(req[d], i)] = d
        BY DEF LockInv
      <3>2. pc[d] # "idle"
        BY DEF LockInv
      <3>3. LockOrder(req[d], i) \in Accounts
        BY <3>2, LockOrderType DEF TypeOK
      <3>. QED
        BY <3>1, <3>3, <2>3, LedgerAssumption
    <2>6. req' = req
      BY <1>5 DEF LockNext
    <2>7. /\ \A d \in Callers \ {c} : pc'[d] = pc[d] /\ locked'[d] = locked[d]
          /\ locked'[c] = locked[c] + 1
      BY <1>5 DEF LockNext, TypeOK
    <2>8. /\ locked[c] = 0 => pc'[c] = "lock"
          /\ locked[c] = 1 => pc'[c] \in {"read", "check", "write"}
          /\ pc'[c] = "read" => req[c].op = "capped"
          /\ pc'[c] = "check" => Checked(req[c])
      BY <1>5, <2>1 DEF LockNext, TypeOK
    <2>9. \A d \in Callers : \A i \in 1..locked'[d] : holder'[LockOrder(req'[d], i)] = d
      <3>. SUFFICES ASSUME NEW d \in Callers, NEW i \in 1..locked'[d]
                    PROVE  holder'[LockOrder(req[d], i)] = d
        BY <2>6
      <3>1. CASE d # c
        BY <3>1, <2>5, <2>7
      <3>2. CASE d = c /\ i = locked[c] + 1
        BY <3>2, <2>4
      <3>3. CASE d = c /\ i \in 1..locked[c]
        BY <3>3, <2>5
      <3>. QED
        BY <3>1, <3>2, <3>3, <2>1, <2>7
    <2>. QED
      BY <2>1, <2>6, <2>7, <2>8, <2>9 DEF LockInv, HasLocks
  <1>6. ASSUME NEW c \in Callers, CheckBalance(c) PROVE LockInv'
    BY <1>6 DEF CheckBalance, LockInv, HasLocks, TypeOK, locks, Checked
  <1>7. ASSUME NEW c \in Callers, ReadBalance(c) PROVE LockInv'
    BY <1>7 DEF ReadBalance, LockInv, HasLocks, TypeOK, locks, Checked
  <1>. QED
    BY <1>1, <1>2, <1>3, <1>4, <1>5, <1>6, <1>7
       DEF Next, Step, DuplicateReference, InsufficientBalance, NothingToDebit,
           ConnectionLost, Rollback, Commit

-----------------------------------------------------------------------------
(* References and decisions                                                 *)

\* The last entry of an extended journal and the ones before it.
LEMMA AppendEntry ==
    ASSUME journal \in Seq(Entries), NEW e \in Entries,
           journal' = Append(journal, e)
    PROVE  /\ Len(journal) \in Nat
           /\ Len(journal') = Len(journal) + 1
           /\ journal'[Len(journal')] = e
           /\ \A i \in 1..Len(journal) : journal'[i] = journal[i]
  OBVIOUS

\* A rollback posts nothing.
LEMMA PostedUnchanged ==
    ASSUME journal' = journal, NEW r
    PROVE  Posted(r)' <=> Posted(r)
  BY DEF Posted

\* Ending a transaction keeps the reservations of the others.
LEMMA ReleaseRefs ==
    ASSUME TypeOK, RefInv, NEW c \in Callers, Release(c)
    PROVE  /\ \A d \in Callers :
                 HasHeader(d)' /\ req'[d].ref # NoRef => refHolder'[req'[d].ref] = d
           /\ \A r \in Refs : refHolder'[r] # None => refHolder[r] \notin {None, c}
  <1>1. ASSUME NEW d \in Callers, HasHeader(d)', req'[d].ref # NoRef
        PROVE  refHolder'[req'[d].ref] = d
    <2>1. d # c
      BY <1>1 DEF Release, TypeOK, HasHeader
    <2>2. pc'[d] = pc[d] /\ req'[d] = req[d]
      BY <2>1 DEF Release, TypeOK
    <2>3. HasHeader(d) /\ req[d] \in Requests
      BY <1>1, <2>2 DEF HasHeader, TypeOK
    <2>4. refHolder[req[d].ref] = d
      BY <1>1, <2>2, <2>3 DEF RefInv
    <2>5. req[d].ref \in Refs
      BY <1>1, <2>2, <2>3 DEF Requests
    <2>. QED
      BY <2>1, <2>2, <2>4, <2>5 DEF Release
  <1>2. ASSUME NEW r \in Refs, refHolder'[r] # None
        PROVE  refHolder[r] \notin {None, c}
    BY <1>2 DEF Release
  <1>. QED
    BY <1>1, <1>2

\* The reference a committing transaction posts is new, and only its own
\* reservation is consumed.
LEMMA NextRefs == TypeOK /\ LockInv /\ RefInv /\ UniqueReferences /\ [Next]_vars
                     => RefInv' /\ UniqueReferences'
  <1>. SUFFICES ASSUME TypeOK, LockInv, RefInv, UniqueReferences, [Next]_vars
                PROVE  RefInv' /\ UniqueReferences'
    OBVIOUS
  <1>0. ASSUME journal' = journal PROVE UniqueReferences'
    BY <1>0 DEF UniqueReferences
  <1>1. CASE UNCHANGED vars
    BY <1>1, <1>0 DEF vars, RefInv, HasHeader, Posted
  <1>2. ASSUME NEW c \in Callers, NEW r \in Requests, Call(c, r)
        PROVE  RefInv' /\ UniqueReferences'
    BY <1>2, <1>0 DEF Call, RefInv, HasHeader, TypeOK, locks, committed, Posted
  <1>3. ASSUME NEW c \in Callers, Rollback(c) PROVE RefInv' /\ UniqueReferences'
    <2>1. journal' = journal /\ Release(c)
      BY <1>3 DEF Rollback, committed
    <2>2. \A r \in Refs : refHolder'[r] # None => ~Posted(r)'
      BY <2>1, ReleaseRefs, PostedUnchanged DEF RefInv
    <2>. QED
      BY <2>1, <2>2, <1>0, ReleaseRefs DEF RefInv
  <1>4. ASSUME NEW c \in Callers, InsertHeader(c) PROVE RefInv' /\ UniqueReferences'
    <2>1. req[c] \in Requests
      BY <1>4 DEF InsertHeader, TypeOK
    <2>2. req[c].ref \in Refs \cup {NoRef}
      BY <2>1 DEF Requests
    <2>3. journal' = journal /\ req' = req
      BY <1>4 DEF InsertHeader, committed
    <2>4. \A r \in Refs : refHolder'[r] # None => ~Posted(r)'
      BY <1>4, <2>3, LedgerAssumption DEF InsertHeader, RefInv, Posted
    <2>5. ASSUME NEW d \in Callers, HasHeader(d)', req[d].ref # NoRef
          PROVE  refHolder'[req[d].ref] = d
      <3>1. CASE d = c
        BY <3>1, <2>2, <2>5, <1>4 DEF InsertHeader
      <3>2. CASE d # c
        <4>1. pc'[d] = pc[d] /\ HasHeader(d) /\ req[d] \in Requests
          BY <3>2, <1>4, <2>3, <2>5 DEF InsertHeader, TypeOK, HasHeader
        <4>2. refHolder[req[d].ref] = d
          BY <4>1, <2>5 DEF RefInv
        <4>3. req[d].ref \in Refs
          BY <4>1, <2>5 DEF Requests
        <4>. QED
          BY <4>2, <4>3, <1>4, <2>5, LedgerAssumption DEF InsertHeader
      <3>. QED
        BY <3>1, <3>2
    <2>. QED
      BY <2>3, <2>4, <2>5, <1>0 DEF RefInv
  <1>5. ASSUME NEW c \in Callers, LockNext(c) PROVE RefInv' /\ UniqueReferences'
    <2>1. /\ UNCHANGED <<journal, refHolder, req>>
          /\ \A d \in Callers : HasHeader(d)' => HasHeader(d)
      BY <1>5 DEF LockNext, TypeOK, HasHeader, committed, LockInv, Checked
    <2>. QED
      BY <2>1, <1>0, PostedUnchanged DEF RefInv
  <1>6. ASSUME NEW c \in Callers, CheckBalance(c) PROVE RefInv' /\ UniqueReferences'
    <2>1. /\ UNCHANGED <<journal, refHolder, req>>
          /\ \A d \in Callers : HasHeader(d)' => HasHeader(d)
      BY <1>6 DEF CheckBalance, TypeOK, HasHeader, committed, locks, LockInv, Checked
    <2>. QED
      BY <2>1, <1>0, PostedUnchanged DEF RefInv
  <1>7. ASSUME NEW c \in Callers, ReadBalance(c) PROVE RefInv' /\ UniqueReferences'
    <2>1. /\ UNCHANGED <<journal, refHolder, req>>
          /\ \A d \in Callers : HasHeader(d)' => HasHeader(d)
      BY <1>7 DEF ReadBalance, TypeOK, HasHeader, committed, locks, LockInv
    <2>. QED
      BY <2>1, <1>0, PostedUnchanged DEF RefInv
  <1>8. ASSUME NEW c \in Callers, Commit(c) PROVE RefInv' /\ UniqueReferences'
    <2>1. /\ Written(c) \in Entries
          /\ journal' = Append(journal, Written(c))
          /\ Release(c)
      BY <1>8, WrittenType DEF Commit
    <2>2. Written(c).ref = req[c].ref /\ req[c] \in Requests
      BY <1>8 DEF Commit, Written, EntryOf, TypeOK
    <2>3. req[c].ref \in Refs \cup {NoRef}
      BY <2>2 DEF Requests
    <2>4. req[c].ref # NoRef => refHolder[req[c].ref] = c /\ ~Posted(req[c].ref)
      BY <1>8, <2>3, LedgerAssumption DEF Commit, RefInv, HasHeader
    <2>5. journal \in Seq(Entries)
      BY DEF TypeOK
    <2>6. \A r : Posted(r)' => Posted(r) \/ r = req[c].ref
      BY <2>1, <2>2, <2>5, AppendEntry DEF Posted
    <2>7. \A r \in Refs : refHolder'[r] # None => ~Posted(r)'
      BY <2>1, <2>4, <2>6, ReleaseRefs, LedgerAssumption DEF RefInv
    <2>8. UniqueReferences'
      <3>. SUFFICES ASSUME NEW i \in 1..Len(journal'), NEW j \in 1..Len(journal'),
                           journal'[i].ref # NoRef, journal'[i].ref = journal'[j].ref
                    PROVE  i = j
        BY DEF UniqueReferences
      <3>0. Len(journal) \in Nat /\ Len(journal') = Len(journal) + 1
        BY <2>1, <2>5, AppendEntry
      <3>1. CASE i \in 1..Len(journal) /\ j \in 1..Len(journal)
        BY <3>1, <2>1, <2>5, AppendEntry DEF UniqueReferences
      <3>2. CASE i = Len(journal') /\ j \in 1..Len(journal)
        BY <3>2, <2>1, <2>2, <2>4, <2>5, AppendEntry DEF Posted
      <3>3. CASE j = Len(journal') /\ i \in 1..Len(journal)
        BY <3>3, <2>1, <2>2, <2>4, <2>5, AppendEntry DEF Posted
      <3>. QED
        BY <3>0, <3>1, <3>2, <3>3
    <2>. QED
      BY <2>1, <2>7, <2>8, ReleaseRefs DEF RefInv
  <1>. QED
    BY <1>1, <1>2, <1>3, <1>4, <1>5, <1>6, <1>7, <1>8
       DEF Next, Step, DuplicateReference, InsufficientBalance, NothingToDebit,
           ConnectionLost

\* A commit moves only accounts whose row locks the transaction holds.
LEMMA CommitTouches ==
    ASSUME TypeOK, LockInv, NEW c \in Callers, Commit(c),
           NEW a \in Accounts, holder[a] # c
    PROVE  balance'[a] = balance[a]
  <1>1. req[c] \in Requests /\ locked[c] = 2
    BY DEF Commit, TypeOK, LockInv, HasLocks
  <1>2. \A i \in 1..2 : holder[LockOrder(req[c], i)] = c
    BY <1>1 DEF LockInv
  <1>3. a # req[c].tenant /\ a # req[c].account
    BY <1>1, <1>2, LockOrderCovers
  <1>4. a # Written(c).dr /\ a # Written(c).cr
    BY <1>3 DEF Written, EntryOf
  <1>. QED
    BY <1>4 DEF Commit, EntryDelta, TypeOK

\* A transaction past its lock phase holds the lock of its tenant's account.
LEMMA TenantLocked ==
    ASSUME TypeOK, LockInv, NEW c \in Callers, HasLocks(c)
    PROVE  /\ req[c] \in Requests
           /\ req[c].tenant \in Accounts
           /\ holder[req[c].tenant] = c
  <1>1. req[c] \in Requests /\ locked[c] = 2
    BY DEF HasLocks, TypeOK, LockInv
  <1>2. \A i \in 1..2 : holder[LockOrder(req[c], i)] = c
    BY <1>1 DEF LockInv
  <1>. QED
    BY <1>1, <1>2, LockOrderCovers

\* What was decided under the locks survives every step of the others.
LEMMA NextDecision == TypeOK /\ LockInv /\ DecisionInv /\ [Next]_vars => DecisionInv'
  <1>. SUFFICES ASSUME TypeOK, LockInv, DecisionInv, [Next]_vars PROVE DecisionInv'
    OBVIOUS
  <1>. USE DEF BalanceOk
  <1>1. CASE UNCHANGED vars
    BY <1>1 DEF vars, DecisionInv
  <1>2. ASSUME NEW c \in Callers, NEW r \in Requests, Call(c, r) PROVE DecisionInv'
    BY <1>2 DEF Call, DecisionInv, TypeOK, committed
  <1>3. ASSUME NEW c \in Callers, Release(c),
               \A a \in Accounts : holder[a] # c => balance'[a] = balance[a]
        PROVE  DecisionInv'
    <2>0. ASSUME NEW d \in Callers, pc'[d] # "idle" PROVE req'[d].amount > 0
      BY <2>0, <1>3 DEF Release, TypeOK, DecisionInv
    <2>. SUFFICES ASSUME NEW d \in Callers, pc'[d] \in {"header", "write"}
                  PROVE  /\ pc'[d] = "write" /\ Checked(req'[d]) => BalanceOk(d)'
                         /\ req'[d].op = "capped"
                              => /\ balance'[req'[d].tenant] # 0
                                 /\ amt'[d] = CappedAmount(balance'[req'[d].tenant], req'[d].amount)
      BY <2>0 DEF DecisionInv
    <2>1. d # c
      BY <1>3 DEF Release, TypeOK
    <2>2. pc'[d] = pc[d] /\ req'[d] = req[d] /\ amt'[d] = amt[d]
      BY <1>3, <2>1 DEF Release, TypeOK
    <2>3. ASSUME HasLocks(d) PROVE balance'[req[d].tenant] = balance[req[d].tenant]
      BY <2>1, <2>3, <1>3, TenantLocked
    <2>4. pc[d] = "write" \/ req[d].op = "capped" => HasLocks(d)
      BY <2>2 DEF HasLocks
    <2>. QED
      BY <2>2, <2>3, <2>4 DEF DecisionInv
  <1>4. ASSUME NEW c \in Callers, InsertHeader(c) PROVE DecisionInv'
    BY <1>4 DEF InsertHeader, DecisionInv, TypeOK, committed, Checked
  <1>5. ASSUME NEW c \in Callers, LockNext(c) PROVE DecisionInv'
    <2>1. pc'[c] \in {"write", "header"} => req[c].op # "capped" /\ ~Checked(req[c])
      BY <1>5 DEF LockNext, TypeOK
    <2>2. UNCHANGED <<journal, balance, req, amt>>
      BY <1>5 DEF LockNext, committed
    <2>3. \A d \in Callers \ {c} : pc'[d] = pc[d]
      BY <1>5 DEF LockNext, TypeOK
    <2>4. pc[c] # "idle"
      BY <1>5 DEF LockNext
    <2>. QED
      BY <2>1, <2>2, <2>3, <2>4 DEF DecisionInv
  <1>6. ASSUME NEW c \in Callers, CheckBalance(c) PROVE DecisionInv'
    BY <1>6 DEF CheckBalance, DecisionInv, TypeOK, committed, LockInv, Checked
  <1>7. ASSUME NEW c \in Callers, ReadBalance(c) PROVE DecisionInv'
    BY <1>7 DEF ReadBalance, DecisionInv, TypeOK, committed, LockInv, Checked
  <1>8. ASSUME NEW c \in Callers, Commit(c) PROVE DecisionInv'
    BY <1>8, <1>3, CommitTouches DEF Commit
  <1>9. ASSUME NEW c \in Callers, Rollback(c) PROVE DecisionInv'
    BY <1>9, <1>3 DEF Rollback, committed
  <1>. QED
    BY <1>1, <1>2, <1>4, <1>5, <1>6, <1>7, <1>8, <1>9
       DEF Next, Step, DuplicateReference, InsufficientBalance, NothingToDebit,
           ConnectionLost

-----------------------------------------------------------------------------
(* Theorems                                                                 *)

\* The invariant holds initially.
LEMMA InitInv == Init => TransactionInv
  BY LedgerAssumption
     DEF Init, TransactionInv, LockInv, RefInv, DecisionInv, UniqueReferences,
         HasHeader, HasLocks, Posted

\* Whatever the interleaving of the transactions' statements, their rollbacks
\* and lost connections, the types hold and a decision taken under the row
\* locks is still true when it is committed.
THEOREM LedgerSafe == Spec => [](TypeOK /\ TransactionInv)
  <1>1. Init => TypeOK /\ TransactionInv
    BY InitType, InitInv
  <1>2. TypeOK /\ TransactionInv /\ [Next]_vars => (TypeOK /\ TransactionInv)'
    BY NextType, NextLock, NextRefs, NextDecision DEF TransactionInv
  <1>. QED
    BY <1>1, <1>2, PTL DEF Spec

\* No reference id is ever posted twice, for any number of concurrent callers.
THEOREM ReferencesPostedOnce == Spec => []UniqueReferences
  BY LedgerSafe, PTL DEF TransactionInv

-----------------------------------------------------------------------------
(* Refinement: the transactions implement the ledger of LedgerBooks         *)

Books == INSTANCE LedgerBooks WITH References <- Refs, EntryAmounts <- Int

\* The fields of a request.
LEMMA RequestFields ==
    ASSUME NEW r \in Requests
    PROVE  /\ r.op \in {"credit", "debit", "capped"}
           /\ r.tenant \in Tenants
           /\ r.account \in SysAccounts
           /\ r.amount \in Int
           /\ r.ref \in Refs \cup {NoRef}
           /\ r.allowNegative \in BOOLEAN
           /\ r.op # "debit" => r.allowNegative = FALSE
  BY LedgerAssumption DEF Requests

\* The two modules agree on what an entry does to an account.
LEMMA SameEffect == \A a, e : EntryDelta(a, e) = Books!Effect(a, e)
  BY DEF EntryDelta, Delta, NormalSide, Books!Effect, Books!Signed

\* What a commit writes, as one entry posted against the current balances.
LEMMA CommitPosts ==
    ASSUME TypeOK, TransactionInv, NEW c \in Callers, Commit(c)
    PROVE  Books!BooksNext
  <1>. DEFINE r == req[c]
  <1>1. r \in Requests
    BY DEF Commit, TypeOK
  <1>2. /\ r.op \in {"credit", "debit", "capped"}
        /\ r.tenant \in Tenants /\ r.account \in SysAccounts
        /\ r.amount \in Int /\ r.amount > 0
        /\ r.ref \in Refs \cup {NoRef} /\ r.allowNegative \in BOOLEAN
        /\ r.op # "debit" => r.allowNegative = FALSE
    BY <1>1, RequestFields DEF TransactionInv, DecisionInv, Commit
  <1>3. Books!FreshReference(r.ref)
    <2>1. r.ref # NoRef => ~Posted(r.ref)
      BY <1>2, LedgerAssumption DEF TransactionInv, RefInv, HasHeader, Commit
    <2>. QED
      BY <2>1 DEF Posted, Books!FreshReference
  <1>4. Books!PostEntry(Written(c))
    <2>1. Written(c).ref = r.ref
      BY DEF Written, EntryOf
    <2>2. balance' = [a \in Accounts |-> balance[a] + Books!Effect(a, Written(c))]
      BY SameEffect DEF Commit
    <2>. QED
      BY <1>3, <2>1, <2>2 DEF Commit, Books!PostEntry, Books!BookAccounts
  <1>5. CASE r.op = "credit"
    <2>1. Written(c) = [op |-> "credit", tenant |-> r.tenant, dr |-> r.account,
                        cr |-> r.tenant, amount |-> r.amount, ref |-> r.ref,
                        allowNegative |-> FALSE]
      BY <1>5, <1>2 DEF Written, EntryOf
    <2>2. Books!PostCredit(r.tenant, r.account, r.amount, r.ref)
      BY <1>2, <1>4, <2>1 DEF Books!PostCredit
    <2>. QED
      BY <1>2, <2>2 DEF Books!BooksNext
  <1>6. CASE r.op = "debit"
    <2>1. Written(c) = [op |-> "debit", tenant |-> r.tenant, dr |-> r.tenant,
                        cr |-> r.account, amount |-> r.amount, ref |-> r.ref,
                        allowNegative |-> r.allowNegative]
      BY <1>6, <1>2 DEF Written, EntryOf
    <2>2. r.allowNegative \/ balance[r.tenant] >= r.amount
      BY <1>6 DEF TransactionInv, DecisionInv, Checked, BalanceOk, Commit
    <2>3. Books!PostDebit(r.tenant, r.account, r.amount, r.ref, r.allowNegative)
      BY <1>2, <1>4, <2>1, <2>2 DEF Books!PostDebit
    <2>. QED
      BY <1>2, <2>3 DEF Books!BooksNext
  <1>7. CASE r.op = "capped"
    <2>1. Written(c) = [op |-> "capped", tenant |-> r.tenant, dr |-> r.tenant,
                        cr |-> r.account, amount |-> amt[c], ref |-> r.ref,
                        allowNegative |-> FALSE]
      BY <1>7, <1>2 DEF Written, EntryOf
    <2>2. balance[r.tenant] \in Int /\ amt[c] \in Int
      BY <1>2 DEF TypeOK
    <2>3. amt[c] # 0 /\ amt[c] <= balance[r.tenant]
      BY <1>7, <1>2, <2>2 DEF TransactionInv, DecisionInv, CappedAmount, Commit
    <2>4. Books!PostCapped(r.tenant, r.account, amt[c], r.ref)
      BY <1>4, <2>1, <2>3 DEF Books!PostCapped
    <2>. QED
      BY <1>2, <2>2, <2>4 DEF Books!BooksNext
  <1>. QED
    BY <1>2, <1>5, <1>6, <1>7

\* Every behaviour of the concurrent transactions, with their locks, checks,
\* rollbacks and lost connections, is a behaviour of the ledger that posts one
\* entry at a time: the commits are serialisable.
THEOREM LedgerImplementsBooks == Spec => Books!BooksSpec
  <1>1. Init => Books!BooksInit
    BY DEF Init, Books!BooksInit, Books!BookAccounts
  <1>2. TypeOK /\ TransactionInv /\ [Next]_vars => [Books!BooksNext]_(Books!books)
    <2>. SUFFICES ASSUME TypeOK, TransactionInv, [Next]_vars
                  PROVE  [Books!BooksNext]_(Books!books)
      OBVIOUS
    <2>1. ASSUME NEW c \in Callers, Commit(c) PROVE Books!BooksNext
      BY <2>1, CommitPosts
    <2>2. (\E c \in Callers : Commit(c)) \/ UNCHANGED <<journal, balance>>
      BY DEF Next, vars, Step, Call, InsertHeader, DuplicateReference, LockNext,
             CheckBalance, InsufficientBalance, ReadBalance, NothingToDebit,
             ConnectionLost, Rollback, committed
    <2>. QED
      BY <2>1, <2>2 DEF Books!books
  <1>. QED
    BY <1>1, <1>2, LedgerSafe, PTL DEF Spec, Books!BooksSpec

\* Only a debit with allowNegative takes a tenant below zero: the balance
\* check of post() and the cap of debitCapped() cannot be outrun by a
\* concurrent transaction.
THEOREM OverdraftOnlyIfAllowed == Spec => OnlyUncheckedOverdraws
  <1>. DEFINE A == \A t \in Tenants :
                      balance'[t] < balance[t] /\ balance'[t] < 0
                        => \E e \in {journal'[Len(journal')]} :
                               e.op = "debit" /\ e.tenant = t /\ e.allowNegative
  <1>1. TypeOK /\ TransactionInv /\ [Next]_vars => [A]_vars
    <2>. SUFFICES ASSUME TypeOK, TransactionInv, Next PROVE A
      OBVIOUS
    <2>. SUFFICES ASSUME NEW t \in Tenants, balance'[t] < balance[t], balance'[t] < 0
                  PROVE  \E e \in {journal'[Len(journal')]} :
                             e.op = "debit" /\ e.tenant = t /\ e.allowNegative
      OBVIOUS
    <2>1. balance[t] \in Int /\ t \in Accounts /\ t \notin SysAccounts /\ t \notin DebitNormal
      BY LedgerAssumption DEF TypeOK
    <2>2. balance' # balance
      BY <2>1
    <2>3. PICK c \in Callers : Commit(c)
      BY <2>2 DEF Next, Step, Call, InsertHeader, DuplicateReference, LockNext,
             CheckBalance, InsufficientBalance, ReadBalance, NothingToDebit,
             ConnectionLost, Rollback, committed
    <2>4. PICK u \in Tenants, s \in SysAccounts, n \in Int, ref \in Refs \cup {NoRef} :
             \/ Books!PostCredit(u, s, n, ref)
             \/ \E neg \in BOOLEAN : Books!PostDebit(u, s, n, ref, neg)
             \/ Books!PostCapped(u, s, n, ref)
      BY <2>3, CommitPosts DEF Books!BooksNext
    <2>. DEFINE e == journal'[Len(journal')]
    <2>5. ASSUME NEW x, Books!PostEntry(x)
          PROVE  e = x /\ balance'[t] = balance[t] + Books!Effect(t, x)
      BY <2>5, <2>1 DEF Books!PostEntry, Books!BookAccounts, TypeOK
    <2>6. CASE Books!PostCredit(u, s, n, ref)
      BY <2>1, <2>5, <2>6 DEF Books!PostCredit, Books!Effect, Books!Signed
    <2>7. ASSUME NEW neg \in BOOLEAN, Books!PostDebit(u, s, n, ref, neg)
          PROVE  e.op = "debit" /\ e.tenant = t /\ e.allowNegative
      BY <2>1, <2>5, <2>7 DEF Books!PostDebit, Books!Effect, Books!Signed
    <2>8. CASE Books!PostCapped(u, s, n, ref)
      BY <2>1, <2>5, <2>8 DEF Books!PostCapped, Books!Effect, Books!Signed
    <2>. QED
      BY <2>4, <2>6, <2>7, <2>8
  <1>. QED
    BY <1>1, LedgerSafe, PTL DEF Spec, OnlyUncheckedOverdraws

-----------------------------------------------------------------------------
(* The balances are what the journal adds up to                             *)

\* Every nonempty set of numbers has a least one.
LEMMA LeastNumber ==
    ASSUME NEW T, T \subseteq Nat, T # {}
    PROVE  \E x \in T : \A y \in T : x <= y
  <1>. DEFINE R == {ss \in Nat \X Nat : ss[1] < ss[2]}
  <1>1. IsWellFoundedOn(R, Nat)
    BY NatLessThanWellFounded DEF OpToRel
  <1>. HIDE DEF R
  <1>2. PICK x \in T : \A y \in T : ~(<<y, x>> \in R)
    BY <1>1, WFMin
  <1>3. \A y \in T : ~(y < x)
    BY <1>2 DEF R
  <1>. QED
    BY <1>3

\* The running balance of an account along the first n entries.
Running(entries, a, n, sum) ==
    /\ sum \in [0..n -> Int]
    /\ sum[0] = 0
    /\ \A i \in 1..n : sum[i] = sum[i - 1] + EntryDelta(a, entries[i])

\* A journal has a running balance.
LEMMA RunningExists ==
    ASSUME NEW entries \in Seq(Entries), NEW a
    PROVE  \E sum : Running(entries, a, Len(entries), sum)
  <1>. DEFINE L == Len(entries)
              T == {n \in 0..L : ~\E sum : Running(entries, a, n, sum)}
  <1>0. L \in Nat /\ \A i \in 1..L : EntryDelta(a, entries[i]) \in Int
    BY EntryDeltaType
  <1>1. ASSUME T # {} PROVE FALSE
    <2>1. PICK x \in T : \A y \in T : x <= y
      <3>1. T \subseteq Nat
        BY <1>0
      <3>. QED
        BY <1>1, <3>1, LeastNumber
    <2>2. CASE x = 0
      <3>1. Running(entries, a, 0, [i \in 0..0 |-> 0])
        BY DEF Running
      <3>. QED
        BY <2>2, <3>1
    <2>3. CASE x # 0
      <3>1. x - 1 \in 0..L /\ x \in 1..L /\ x - 1 \notin T
        BY <1>0, <2>1, <2>3
      <3>2. PICK sum : Running(entries, a, x - 1, sum)
        BY <3>1
      <3>. DEFINE new == [i \in 0..x |-> IF i = x THEN sum[x - 1] + EntryDelta(a, entries[x]) ELSE sum[i]]
      <3>3. new \in [0..x -> Int]
        BY <1>0, <3>1, <3>2 DEF Running
      <3>4. new[0] = 0 /\ \A i \in 1..x : new[i] = new[i - 1] + EntryDelta(a, entries[i])
        BY <3>1, <3>2 DEF Running
      <3>5. Running(entries, a, x, new)
        BY <3>3, <3>4 DEF Running
      <3>. QED
        BY <3>5
    <2>. QED
      BY <2>2, <2>3
  <1>. QED
    BY <1>0, <1>1

\* Replay is where the running balance ends.
LEMMA ReplayIs ==
    ASSUME NEW entries \in Seq(Entries), NEW a, NEW sum, Running(entries, a, Len(entries), sum)
    PROVE  Replay(entries, a) = sum[Len(entries)]
  <1>. DEFINE L == Len(entries)
              Def(f) == [i \in 0..L |-> IF i = 0 THEN 0 ELSE f[i - 1] + EntryDelta(a, entries[i])]
              chosen == CHOOSE f : f = Def(f)
  <1>0. L \in Nat
    OBVIOUS
  <1>1. sum = Def(sum)
    BY <1>0 DEF Running
  <1>2. chosen = Def(chosen)
    BY <1>1
  <1>. HIDE DEF chosen
  <1>3. chosen[0] = 0 /\ \A i \in 1..L : chosen[i] = chosen[i - 1] + EntryDelta(a, entries[i])
    BY <1>0, <1>2
  <1>4. ASSUME {n \in 0..L : chosen[n] # sum[n]} # {} PROVE FALSE
    <2>1. PICK x \in {n \in 0..L : chosen[n] # sum[n]} : \A y \in {n \in 0..L : chosen[n] # sum[n]} : x <= y
      <3>1. {n \in 0..L : chosen[n] # sum[n]} \subseteq Nat
        BY <1>0
      <3>. QED
        BY <1>4, <3>1, LeastNumber
    <2>2. x # 0
      BY <1>3 DEF Running
    <2>3. x - 1 \in 0..L /\ x \in 1..L /\ chosen[x - 1] = sum[x - 1]
      BY <1>0, <2>1, <2>2
    <2>. QED
      BY <1>3, <2>1, <2>3 DEF Running
  <1>5. chosen[L] = sum[L]
    BY <1>0, <1>4
  <1>6. Replay(entries, a) = chosen[L]
    BY DEF Replay, chosen
  <1>. QED
    BY <1>5, <1>6

\* One more entry extends the running balance by what it does.
LEMMA ReplayAppend ==
    ASSUME NEW entries \in Seq(Entries), NEW e \in Entries, NEW a
    PROVE  Replay(Append(entries, e), a) = Replay(entries, a) + EntryDelta(a, e)
  <1>. DEFINE L == Len(entries)
              more == Append(entries, e)
  <1>0. /\ L \in Nat /\ Len(more) = L + 1 /\ more[L + 1] = e
        /\ \A i \in 1..L : more[i] = entries[i]
        /\ more \in Seq(Entries)
    OBVIOUS
  <1>. HIDE DEF more
  <1>1. PICK sum : Running(entries, a, L, sum)
    BY RunningExists
  <1>. DEFINE new == [i \in 0..L + 1 |-> IF i = L + 1 THEN sum[L] + EntryDelta(a, e) ELSE sum[i]]
  <1>2. new \in [0..L + 1 -> Int]
    BY <1>0, <1>1, EntryDeltaType DEF Running
  <1>3. ASSUME NEW i \in 1..L + 1 PROVE new[i] = new[i - 1] + EntryDelta(a, more[i])
    <2>1. CASE i = L + 1
      <3>1. i - 1 = L /\ L \in 0..L + 1 /\ L # L + 1 /\ i \in 0..L + 1
        BY <1>0, <2>1
      <3>. QED
        BY <1>0, <2>1, <3>1
    <2>2. CASE i # L + 1
      <3>1. i \in 1..L /\ i - 1 \in 0..L + 1 /\ i - 1 # L + 1 /\ i \in 0..L + 1
        BY <1>0, <2>2
      <3>. QED
        BY <1>0, <1>1, <2>2, <3>1 DEF Running
    <2>. QED
      BY <2>1, <2>2
  <1>4. new[0] = 0 /\ new[L + 1] = sum[L] + EntryDelta(a, e)
    BY <1>0, <1>1 DEF Running
  <1>5. Running(more, a, Len(more), new)
    BY <1>0, <1>2, <1>3, <1>4 DEF Running
  <1>6. Replay(more, a) = new[L + 1]
    BY <1>0, <1>5, ReplayIs
  <1>7. Replay(entries, a) = sum[L]
    BY <1>1, ReplayIs
  <1>. QED
    BY <1>4, <1>6, <1>7 DEF more

\* The initial balances are those of the empty journal.
LEMMA ReplayEmpty ==
    ASSUME NEW a
    PROVE  Replay(<< >>, a) = 0
  <1>. DEFINE sum == [i \in 0..0 |-> 0]
  <1>1. << >> \in Seq(Entries) /\ Len(<< >>) = 0
    OBVIOUS
  <1>2. Running(<< >>, a, 0, sum)
    BY DEF Running
  <1>. QED
    BY <1>1, <1>2, ReplayIs

\* Every step keeps the balances what the journal adds up to: a commit writes
\* its entry and moves the balances in one transaction.
LEMMA NextReconstructs ==
    TypeOK /\ ReconstructsFromJournal /\ [Next]_vars => ReconstructsFromJournal'
  <1>. SUFFICES ASSUME TypeOK, ReconstructsFromJournal, [Next]_vars PROVE ReconstructsFromJournal'
    OBVIOUS
  <1>1. CASE UNCHANGED committed
    BY <1>1 DEF committed, ReconstructsFromJournal
  <1>2. ASSUME NEW c \in Callers, Commit(c) PROVE ReconstructsFromJournal'
    <2>1. Written(c) \in Entries /\ journal' = Append(journal, Written(c)) /\ journal \in Seq(Entries)
      BY <1>2, WrittenType DEF Commit, TypeOK
    <2>2. \A a \in Accounts : balance'[a] = balance[a] + EntryDelta(a, Written(c))
      BY <1>2 DEF Commit
    <2>3. \A a \in Accounts : Replay(journal', a) = Replay(journal, a) + EntryDelta(a, Written(c))
      BY <2>1, ReplayAppend
    <2>. QED
      BY <2>2, <2>3 DEF ReconstructsFromJournal
  <1>3. ASSUME NEW c \in Callers, NEW r \in Requests, Call(c, r) PROVE UNCHANGED committed
    BY <1>3 DEF Call
  <1>4. ASSUME NEW c \in Callers, Step(c) \/ ConnectionLost(c), ~Commit(c) PROVE UNCHANGED committed
    BY <1>4 DEF Step, InsertHeader, DuplicateReference, LockNext, CheckBalance, InsufficientBalance, ReadBalance,
                NothingToDebit, ConnectionLost, Rollback
  <1>. QED
    BY <1>1, <1>2, <1>3, <1>4 DEF Next, vars, committed

-----------------------------------------------------------------------------
(* Nobody waits in a circle                                                 *)

\* A lock or a reservation that is held belongs to a transaction that has taken
\* it and not ended.
HeldInv ==
    \A d \in Callers :
        /\ \A a \in Accounts : holder[a] = d => \E i \in 1..locked[d] : a = LockOrder(req[d], i)
        /\ \A r \in Refs : refHolder[r] = d => HasHeader(d) /\ req[d].ref = r

\* A step of a transaction that holds nothing after it disturbs no other.
LEMMA HeldStays ==
    ASSUME HeldInv, NEW c \in Callers,
           \A d \in Callers \ {c} : req'[d] = req[d] /\ pc'[d] = pc[d] /\ locked'[d] = locked[d],
           \A a \in Accounts : holder'[a] \in Callers => holder'[a] = holder[a] /\ holder[a] # c,
           \A r \in Refs : refHolder'[r] \in Callers => refHolder'[r] = refHolder[r] /\ refHolder[r] # c
    PROVE  HeldInv'
  <1>. SUFFICES ASSUME NEW d \in Callers
                PROVE  /\ \A a \in Accounts : holder'[a] = d => \E i \in 1..locked'[d] : a = LockOrder(req'[d], i)
                       /\ \A r \in Refs : refHolder'[r] = d => HasHeader(d)' /\ req'[d].ref = r
    BY DEF HeldInv
  <1>1. CASE d = c
    BY <1>1
  <1>2. CASE d # c
    BY <1>2 DEF HeldInv, HasHeader
  <1>. QED
    BY <1>1, <1>2

\* Every step keeps the locks with transactions that are under way.
LEMMA NextHeld == TypeOK /\ LockInv /\ HeldInv /\ [Next]_vars => HeldInv'
  <1>. SUFFICES ASSUME TypeOK, LockInv, HeldInv, [Next]_vars PROVE HeldInv'
    OBVIOUS
  <1>1. CASE UNCHANGED vars
    BY <1>1 DEF vars, HeldInv, HasHeader
  <1>2. ASSUME NEW c \in Callers, NEW r \in Requests, Call(c, r) PROVE HeldInv'
    <2>1. locked[c] = 0 /\ ~HasHeader(c) /\ UNCHANGED <<holder, refHolder, locked>>
      BY <1>2 DEF Call, LockInv, HasHeader, locks
    <2>2. \A d \in Callers \ {c} : req'[d] = req[d] /\ pc'[d] = pc[d]
      BY <1>2 DEF Call, TypeOK
    <2>3. \A a \in Accounts : holder[a] # c
      BY <2>1 DEF HeldInv
    <2>4. \A q \in Refs : refHolder[q] # c
      BY <2>1 DEF HeldInv
    <2>. QED
      BY <2>1, <2>2, <2>3, <2>4, HeldStays
  <1>3. ASSUME NEW c \in Callers, Release(c) PROVE HeldInv'
    <2>1. \A a \in Accounts : holder'[a] \in Callers => holder'[a] = holder[a] /\ holder[a] # c
      BY <1>3, LedgerAssumption DEF Release
    <2>2. \A q \in Refs : refHolder'[q] \in Callers => refHolder'[q] = refHolder[q] /\ refHolder[q] # c
      BY <1>3, LedgerAssumption DEF Release
    <2>3. \A d \in Callers \ {c} : req'[d] = req[d] /\ pc'[d] = pc[d] /\ locked'[d] = locked[d]
      BY <1>3 DEF Release, TypeOK
    <2>. QED
      BY <2>1, <2>2, <2>3, HeldStays
  <1>4. ASSUME NEW c \in Callers, InsertHeader(c) PROVE HeldInv'
    <2>1. UNCHANGED <<holder, req, locked>>
      BY <1>4 DEF InsertHeader
    <2>2. HasHeader(c)'
      BY <1>4, <2>1 DEF InsertHeader, TypeOK, HasHeader
    <2>3. \A d \in Callers \ {c} : HasHeader(d) => HasHeader(d)'
      BY <1>4, <2>1 DEF InsertHeader, TypeOK, HasHeader
    <2>4. \A q \in Refs : refHolder'[q] = IF q = req[c].ref THEN c ELSE refHolder[q]
      BY <1>4 DEF InsertHeader
    <2>5. ~HasHeader(c)
      BY <1>4 DEF InsertHeader, HasHeader
    <2>6. ASSUME NEW d \in Callers, NEW q \in Refs, refHolder'[q] = d PROVE HasHeader(d)' /\ req[d].ref = q
      BY <2>2, <2>3, <2>4, <2>5, <2>6 DEF HeldInv
    <2>7. ASSUME NEW d \in Callers, NEW a \in Accounts, holder[a] = d
          PROVE  \E i \in 1..locked[d] : a = LockOrder(req[d], i)
      BY <2>7 DEF HeldInv
    <2>. QED
      BY <2>1, <2>6, <2>7 DEF HeldInv
  <1>5. ASSUME NEW c \in Callers, LockNext(c) PROVE HeldInv'
    <2>. DEFINE b == LockOrder(req[c], locked[c] + 1)
    <2>1. UNCHANGED <<refHolder, req>> /\ locked[c] \in {0, 1} /\ b \in Accounts /\ holder[b] = None
      BY <1>5, LockOrderType DEF LockNext, LockInv, TypeOK
    <2>2. \A a \in Accounts : holder'[a] = IF a = b THEN c ELSE holder[a]
      BY <1>5, <2>1 DEF LockNext, TypeOK
    <2>3. \A d \in Callers : locked'[d] = IF d = c THEN locked[c] + 1 ELSE locked[d]
      BY <1>5 DEF LockNext, TypeOK
    <2>4. \A d \in Callers : HasHeader(d) => HasHeader(d)'
      BY <1>5 DEF LockNext, TypeOK, HasHeader
    <2>5. ASSUME NEW d \in Callers, NEW a \in Accounts, holder'[a] = d
          PROVE  \E i \in 1..locked'[d] : a = LockOrder(req[d], i)
      <3>1. CASE a = b
        BY <2>1, <2>2, <2>3, <2>5, <3>1
      <3>2. CASE a # b
        <4>1. holder[a] = d
          BY <2>2, <2>5, <3>2
        <4>2. PICK i \in 1..locked[d] : a = LockOrder(req[d], i)
          BY <4>1 DEF HeldInv
        <4>3. i \in 1..locked'[d]
          BY <2>1, <2>3, <4>2
        <4>. QED
          BY <4>2, <4>3
      <3>. QED
        BY <3>1, <3>2
    <2>6. ASSUME NEW d \in Callers, NEW q \in Refs, refHolder[q] = d PROVE HasHeader(d)' /\ req[d].ref = q
      BY <2>4, <2>6 DEF HeldInv
    <2>. QED
      BY <2>1, <2>5, <2>6 DEF HeldInv
  <1>6. ASSUME NEW c \in Callers, CheckBalance(c) \/ ReadBalance(c) PROVE HeldInv'
    <2>1. UNCHANGED <<holder, refHolder, req, locked>>
      BY <1>6 DEF CheckBalance, ReadBalance, locks
    <2>2. \A d \in Callers : HasHeader(d) => HasHeader(d)'
      BY <1>6 DEF CheckBalance, ReadBalance, TypeOK, HasHeader
    <2>. QED
      BY <2>1, <2>2 DEF HeldInv
  <1>. QED
    BY <1>1, <1>2, <1>3, <1>4, <1>5, <1>6
       DEF Next, Step, DuplicateReference, InsufficientBalance, NothingToDebit, ConnectionLost, Rollback, Commit

\* The i-th of the first n in a list has the greatest rank.
Leads(rank, list, i, n) == \A j \in 1..n : rank[list[j]] <= rank[list[i]]

\* Of finitely many transactions, one has the greatest rank.
LEMMA Greatest ==
    ASSUME NEW K, IsFiniteSet(K), K # {}, NEW rank \in [K -> Nat]
    PROVE  \E c \in K : \A d \in K : rank[d] <= rank[c]
  <1>1. PICK list \in Seq(K) : \A c \in K : \E i \in 1..Len(list) : list[i] = c
    BY DEF IsFiniteSet
  <1>. DEFINE L == Len(list)
  <1>2. L \in Nat /\ \A i \in 1..L : list[i] \in K
    <2>1. list \in Seq(K)
      BY <1>1
    <2>2. Len(list) \in Nat
      BY <2>1
    <2>3. \A i \in 1..Len(list) : list[i] \in K
      BY <2>1
    <2>. QED
      BY <2>2, <2>3
  <1>. DEFINE Led(n) == \E i \in 1..n : Leads(rank, list, i, n)
              T == {n \in 1..L : ~Led(n)}
  <1>3. L # 0
    <2>1. PICK c \in K : TRUE
      OBVIOUS
    <2>2. PICK i \in 1..L : list[i] = c
      BY <1>1
    <2>. QED
      BY <1>2, <2>2
  <1>4. \A i \in 1..L : rank[list[i]] \in Nat
    BY <1>2
  <1>5. Led(1)
    <2>1. 1 \in 1..L /\ \A j \in 1..1 : j = 1
      BY <1>2, <1>3
    <2>2. Leads(rank, list, 1, 1)
      BY <1>4, <2>1 DEF Leads
    <2>. QED
      BY <2>2
  <1>6. ASSUME NEW x \in 1..L, x # 1, Led(x - 1) PROVE Led(x)
    <2>1. PICK i \in 1..x - 1 : Leads(rank, list, i, x - 1)
      BY <1>6
    <2>2. /\ i \in 1..x /\ i \in 1..L /\ x \in 1..x
          /\ \A j \in 1..x : j \in 1..L /\ (j = x \/ j \in 1..x - 1)
      BY <1>2, <1>6
    <2>3. rank[list[i]] \in Nat /\ rank[list[x]] \in Nat /\ \A j \in 1..x : rank[list[j]] \in Nat
      BY <1>4, <2>2
    <2>4. \A j \in 1..x - 1 : rank[list[j]] <= rank[list[i]]
      BY <2>1 DEF Leads
    <2>5. CASE rank[list[x]] <= rank[list[i]]
      <3>1. Leads(rank, list, i, x)
        BY <2>2, <2>4, <2>5 DEF Leads
      <3>. QED
        BY <2>2, <3>1
    <2>6. CASE ~(rank[list[x]] <= rank[list[i]])
      <3>1. ASSUME NEW j \in 1..x PROVE rank[list[j]] <= rank[list[x]]
        <4>1. j = x \/ rank[list[j]] <= rank[list[i]]
          BY <2>2, <2>4
        <4>. QED
          BY <2>3, <2>6, <4>1
      <3>2. Leads(rank, list, x, x)
        BY <3>1 DEF Leads
      <3>. QED
        BY <2>2, <3>2
    <2>. QED
      BY <2>5, <2>6
  <1>7. Led(L)
    <2>. HIDE DEF Led
    <2>1. ASSUME T # {} PROVE FALSE
      <3>1. T \subseteq Nat
        BY <1>2
      <3>2. PICK x \in T : \A y \in T : x <= y
        BY <2>1, <3>1, LeastNumber
      <3>3. x \in 1..L /\ x # 1 /\ ~Led(x)
        BY <1>5, <3>2
      <3>4. x - 1 \in 1..L /\ x - 1 \notin T
        BY <1>2, <3>2, <3>3
      <3>. QED
        BY <1>6, <3>3, <3>4
    <2>2. L \in 1..L
      BY <1>2, <1>3
    <2>. QED
      BY <2>1, <2>2
  <1>8. PICK i \in 1..L : Leads(rank, list, i, L)
    BY <1>7
  <1>9. ASSUME NEW d \in K PROVE rank[d] <= rank[list[i]]
    <2>1. PICK j \in 1..L : list[j] = d
      BY <1>1
    <2>. QED
      BY <1>8, <2>1 DEF Leads
  <1>. QED
    BY <1>2, <1>8, <1>9

\* The account a transaction waits for, and the transaction that holds it.
Wanted(c) == LockOrder(req[c], locked[c] + 1)

\* post() takes its reference before its accounts and debitCapped() after them,
\* from ids of their own; the accounts are taken in one order.  So of the
\* transactions in a circle none waits for a reference, and the one that wants
\* the last account waits for one that wants a later account.
LEMMA NoCircle ==
    ASSUME TypeOK, LockInv, HeldInv
    PROVE  NoWaitCycle
  <1>. SUFFICES ASSUME NEW S \in SUBSET Callers, S # {}, \A c \in S : \E d \in S : WaitsFor(c, d)
                PROVE  FALSE
    BY DEF NoWaitCycle
  <1>0. \A c \in S : c \in Callers /\ c # None /\ pc[c] \in {"lock", "header"} /\ req[c] \in Requests
    BY LedgerAssumption DEF WaitsFor, TypeOK
  <1>1. ASSUME NEW c \in S, pc[c] = "header" PROVE \E d \in S : pc[d] = "lock" /\ req[c].op # "capped"
    <2>1. PICK d \in S : req[c].ref # NoRef /\ refHolder[req[c].ref] = d
      BY <1>1 DEF WaitsFor
    <2>2. req[c].ref \in Refs
      BY <1>0, <2>1 DEF Requests
    <2>3. HasHeader(d) /\ req[d].ref = req[c].ref
      BY <1>0, <2>1, <2>2 DEF HeldInv
    <2>4. pc[d] = "lock" /\ req[d].op # "capped"
      BY <1>0, <2>3 DEF HasHeader
    <2>5. req[c].op # "capped"
      <3>1. req[d].ref \in PostRefs
        BY <1>0, <2>1, <2>3, <2>4 DEF Requests
      <3>2. req[c].op = "capped" => req[c].ref \in CappedRefs
        BY <1>0 DEF Requests
      <3>. QED
        BY <2>3, <3>1, <3>2, LedgerAssumption
    <2>. QED
      BY <2>4, <2>5
  <1>. DEFINE K == {c \in S : pc[c] = "lock"}
              rank == [c \in K |-> Rank[Wanted(c)]]
  <1>2. K # {}
    BY <1>0, <1>1
  <1>3. IsFiniteSet(K)
    <2>1. K \in SUBSET Callers
      BY <1>0
    <2>. QED
      BY <2>1, LedgerAssumption, FS_Subset
  <1>4. ASSUME NEW c \in K PROVE Wanted(c) \in Accounts /\ Rank[Wanted(c)] \in Nat
    BY <1>0, LockOrderType, LedgerAssumption DEF Wanted
  <1>5. rank \in [K -> Nat]
    BY <1>4
  <1>6. PICK c \in K : \A d \in K : rank[d] <= rank[c]
    BY <1>2, <1>3, <1>5, Greatest
  <1>7. PICK d \in S : holder[Wanted(c)] = d
    BY DEF WaitsFor, Wanted
  <1>8. PICK i \in 1..locked[d] : Wanted(c) = LockOrder(req[d], i)
    BY <1>0, <1>4, <1>7 DEF HeldInv
  <1>9. pc[d] = "lock" /\ locked[d] = 1 /\ i = 1
    <2>1. locked[d] \in 0..2
      BY <1>0 DEF TypeOK
    <2>2. pc[d] # "header"
      BY <1>0, <1>1, <1>8, <2>1 DEF LockInv, HasLocks
    <2>. QED
      BY <1>0, <1>8, <2>1, <2>2 DEF LockInv
  <1>10. Rank[LockOrder(req[d], 1)] < Rank[LockOrder(req[d], 2)]
    <2>1. req[d].tenant \in Accounts /\ req[d].account \in Accounts /\ req[d].tenant # req[d].account
      <3>1. req[d].tenant \in Tenants /\ req[d].account \in SysAccounts
        BY <1>0, LedgerAssumption DEF Requests
      <3>. QED
        BY <3>1, LedgerAssumption
    <2>2. Rank[req[d].tenant] \in Nat /\ Rank[req[d].account] \in Nat /\ Rank[req[d].tenant] # Rank[req[d].account]
      BY <2>1, LedgerAssumption
    <2>. QED
      BY <2>2 DEF LockOrder
  <1>11. Wanted(d) = LockOrder(req[d], 2) /\ d \in K
    BY <1>9 DEF Wanted
  <1>12. rank[d] = Rank[Wanted(d)] /\ rank[c] = Rank[Wanted(c)] /\ rank[d] \in Nat /\ rank[c] \in Nat
    BY <1>4, <1>11
  <1>13. rank[d] <= rank[c]
    BY <1>6, <1>11
  <1>14. Rank[Wanted(c)] < Rank[Wanted(d)]
    BY <1>8, <1>9, <1>10, <1>11
  <1>. HIDE DEF rank, K
  <1>. QED
    BY <1>12, <1>13, <1>14

\* The books stay typed, the balances are at every moment what the journal adds
\* up to, and no set of transactions waits for one another in a circle: for
\* every number of callers, tenants and accounts and every length of the journal.
THEOREM BooksAreSound == Spec => []BooksSound
  <1>. DEFINE I == TypeOK /\ LockInv /\ HeldInv /\ ReconstructsFromJournal
  <1>1. Init => I
    <2>1. Init => HeldInv /\ ReconstructsFromJournal
      <3>. SUFFICES ASSUME Init PROVE HeldInv /\ ReconstructsFromJournal
        OBVIOUS
      <3>1. \A d \in Callers : d # None
        BY LedgerAssumption
      <3>2. HeldInv
        BY <3>1 DEF Init, HeldInv
      <3>3. journal = << >> /\ \A a \in Accounts : balance[a] = 0
        BY DEF Init
      <3>4. ReconstructsFromJournal
        BY <3>3, ReplayEmpty DEF ReconstructsFromJournal
      <3>. QED
        BY <3>2, <3>4
    <2>2. TransactionInv => LockInv
      BY DEF TransactionInv
    <2>. QED
      BY <2>1, <2>2, InitType, InitInv
  <1>2. I /\ [Next]_vars => I'
    BY NextType, NextLock, NextHeld, NextReconstructs
  <1>3. I => BooksSound
    BY NoCircle DEF BooksSound
  <1>. QED
    BY <1>1, <1>2, <1>3, PTL DEF Spec

===============================================================================
