SPECIFICATION Spec
CONSTANTS
    Bots = {"b1", "b2"}
    Callers = {"c1", "c2", "rollout"}
    Worlds <- MCWorlds
    BadDigests = {2}
    MaxFaults = 1
    Roller = "rollout"
    Plans <- MCPlans
    MaxPublish = 3
    MaxRollouts = 2
    Ticks = {"t1", "t2"}
    Claims = {"k1", "k2"}
    PoolSizes = {0, 1, 2}
    MaxSlots = 3
    MaxPoolFaults = 1
    Tenants = {"a", "b"}
    BotIds = {"i1", "i2", "i3"}
    Owner <- MCOwner
    CronRuns = {run1, run2}
    Payers = {pay1, pay2}
    Reporters = {rep1, rep2}
    Lines = {"l1", "l2"}
    Eras <- MCEras
    MaxDays = 2
    MaxDeaths = 1
    MailIds = {1, 2}
    MailWorkers = {w1, w2}
    Senders = {s1, s2}
    Inboxes <- MCInboxes
    MaxAttempts = 2
    BatchSize = 2
    MaxUpdates = 3
    MaxMailFaults = 2
INVARIANTS FleetConsistent RolloutsSafe ClaimedStaysClaimed  
CHECK_DEADLOCK FALSE
