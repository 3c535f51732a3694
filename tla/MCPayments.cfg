SPECIFICATION Spec
CONSTANTS
    Tenants = {"a", "b", "c", "d"}
    Referred = {"a", "b", "c", "d"}
    Signals <- MCSignals
    Workloads <- MCWorkloads
    Deliveries = {d1, d2}
    MaxReferrals30d = 1
    TotalUseLimit = 2
    MaxThrows = 1
    ChargeCalls = {c1, c2}
    Transfers = {x1, x2}
    Hosted = {h1}
    Scenarios <- MCScenarios
    MaxCharges = 2
    MaxRetries = 1
    MaxDeaths = 1
INVARIANTS SeenIsPosted GrantsFollowPurchases ChargesSafe
 
CHECK_DEADLOCK FALSE
