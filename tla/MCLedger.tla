------------------------------ MODULE MCLedger ------------------------------
(* Model checking of Ledger: one tenant, cash and one revenue account.      *)
EXTENDS Ledger, TLC

CONSTANTS t1, cash, revenue

MCTenants == {t1}
MCSysAccounts == {cash, revenue}
MCDebitNormal == {cash}
MCCreditSources == {cash}
MCDebitTargets == {cash, revenue}
\* "1000" < "2000:t1" < "4000"
MCRank == cash :> 1 @@ t1 :> 2 @@ revenue :> 4

Books == INSTANCE LedgerBooks WITH References <- Refs, EntryAmounts <- -4..4

\* The concurrent transactions are serialisable: what they commit is a
\* behaviour of the ledger that posts one entry at a time.
ImplementsBooks == Books!BooksSpec

=============================================================================
