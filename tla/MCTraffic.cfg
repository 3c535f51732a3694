SPECIFICATION Spec
CONSTANTS
    Callers = {r1, r2}
    Mounts = {"none", "/", "/v1", "webhooks", "api"}
    MaxTime = 3
    MaxArrivals = 3
    MaxGateFaults = 1
    RateMax = 2
    RateWindow = 2
    BreakerMax = 1
    BreakerWindow = 1
    Pause = 2
    CacheTtl = 1
    HardCap = 1
    MaxPenalty = 3
    Executions = {x1, x2}
    Setups <- MCSetups
    Rate <- MCRate
    Price <- MCPrice
    MaxUnits = 1
    MaxEmitFaults = 1
    MaxToggles = 1
    Snapshots = {1, 2, 3}
    Makers = {"m1", "m2"}
    Restorers = {"v1", "v2"}
    Archives <- MCArchives
    LastDay = 24
    MaxMishaps = 1
SYMMETRY Interchangeable
INVARIANTS  LimitsHold RoutingSafe 
CHECK_DEADLOCK FALSE
