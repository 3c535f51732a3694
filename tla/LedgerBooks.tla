---------------------------- MODULE LedgerBooks -----------------------------
(***************************************************************************)
(* What the credit ledger promises: a journal to which balanced entries    *)
(* are appended one at a time, each against the balances the earlier ones  *)
(* left.  Module Ledger implements it with concurrent transactions.        *)
(***************************************************************************)
EXTENDS Integers, Sequences

CONSTANTS Tenants, SysAccounts, DebitNormal, References, NoRef, EntryAmounts

VARIABLES journal, balance

books == <<journal, balance>>

BookAccounts == Tenants \cup SysAccounts

BooksInit ==
    /\ journal = << >>
    /\ balance = [a \in BookAccounts |-> 0]

Signed(a, side, n) ==
    IF (a \in DebitNormal) <=> (side = "debit") THEN n ELSE -n

Effect(a, e) ==
    (IF a = e.dr THEN Signed(a, "debit", e.amount) ELSE 0)
      + (IF a = e.cr THEN Signed(a, "credit", e.amount) ELSE 0)

FreshReference(ref) ==
    ref # NoRef => \A i \in 1..Len(journal) : journal[i].ref # ref

PostEntry(e) ==
    /\ FreshReference(e.ref)
    /\ journal' = Append(journal, e)
    /\ balance' = [a \in BookAccounts |-> balance[a] + Effect(a, e)]

\* Money in: the tenant's credits grow by a positive amount.
PostCredit(t, source, n, ref) ==
    /\ n > 0
    /\ PostEntry([op |-> "credit", tenant |-> t, dr |-> source, cr |-> t,
                  amount |-> n, ref |-> ref, allowNegative |-> FALSE])

\* Money out: covered by the balance unless the caller allows a negative one.
PostDebit(t, target, n, ref, neg) ==
    /\ n > 0
    /\ neg \/ balance[t] >= n
    /\ PostEntry([op |-> "debit", tenant |-> t, dr |-> t, cr |-> target,
                  amount |-> n, ref |-> ref, allowNegative |-> neg])

\* Money out, as much as there is and at most what was asked for.
PostCapped(t, target, n, ref) ==
    /\ n # 0
    /\ n <= balance[t]
    /\ PostEntry([op |-> "capped", tenant |-> t, dr |-> t, cr |-> target,
                  amount |-> n, ref |-> ref, allowNegative |-> FALSE])

BooksNext ==
    \E t \in Tenants, s \in SysAccounts, n \in EntryAmounts,
       ref \in References \cup {NoRef} :
        \/ PostCredit(t, s, n, ref)
        \/ \E neg \in BOOLEAN : PostDebit(t, s, n, ref, neg)
        \/ PostCapped(t, s, n, ref)

BooksSpec == BooksInit /\ [][BooksNext]_books

=============================================================================
