SPECIFICATION Spec
CONSTANTS
    t1 = t1
    cash = cash
    revenue = revenue
    Callers = {c1}
    Tenants <- MCTenants
    SysAccounts <- MCSysAccounts
    DebitNormal <- MCDebitNormal
    CreditSources <- MCCreditSources
    DebitTargets <- MCDebitTargets
    Rank <- MCRank
    Amounts = {1, 2}
    PostRefs = {p1}
    CappedRefs = {x1}
    NoRef = NoRef
    None = None
    MaxEntries = 3
INVARIANT AmountsPositive
CHECK_DEADLOCK FALSE
