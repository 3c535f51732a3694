SPECIFICATION FairSpec
CONSTANTS
    Events = {e1, e2, e3}
    Flushers = {f1, f2}
    BatchSize = 2
    MaxRetries = 2
    MaxCrashes = 2
    MaxFailures = 2
    Metered = {m1, m2}
    Runs = {r1}
    Window = 2
    MaxTime = 6
    MaxAborts = 2
    Triggers = {u1, u2}
    Intents = {p1, p2}
    Threshold = 2
    Topup = 2
    MaxConsecutiveFailures = 2
    MaxDebits = 3
    MaxFaults = 1
    MaxDeaths = 1
    MaxEnables = 1
INVARIANTS   TopupSafe
PROPERTIES Settles EventuallyCounted PaidIsCredited
CHECK_DEADLOCK FALSE
