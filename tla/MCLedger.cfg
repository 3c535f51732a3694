SPECIFICATION FairSpec
CONSTANTS
    t1 = t1
    cash = cash
    revenue = revenue
    Callers = {c1, c2}
    Tenants <- MCTenants
    SysAccounts <- MCSysAccounts
    DebitNormal <- MCDebitNormal
    CreditSources <- MCCreditSources
    DebitTargets <- MCDebitTargets
    Rank <- MCRank
    Amounts = {1, 2}
    PostRefs = {p1}
    CappedRefs = {x1}
    NoRef = NoRef
    None = None
    MaxEntries = 2
INVARIANTS TransactionInv BooksSound
PROPERTIES OnlyUncheckedOverdraws ImplementsBooks EveryCallEnds
CHECK_DEADLOCK FALSE
