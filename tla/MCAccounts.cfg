SPECIFICATION Spec
CONSTANTS
    Users = {"u1", "u2", "u3"}
    Teams = {"o1"}
    Invites = {"i1"}
    OrgCallers = {"c1", "c2"}
    Companies <- MCCompanies
    MaxOrgCalls = 3
    MaxOrgFaults = 1
    Creds = {"p1", "p2"}
    KeyTenants = {"k1", "k2"}
    KeyOrg <- MCKeyOrg
    KeyCallers = {"q1", "q2"}
    Safes <- MCSafes
    MaxKeyWrites = 2
    MaxKeyFaults = 1
    Persons = {"a", "b", "c"}
    Clerks = {"k1", "k2"}
    Asking = {"r1"}
    Asks <- MCAsks
    Doors <- MCDoors
    MaxAccessFaults = 1
    Talks = {"s1", "s2"}
    Hosts = {"h1", "h2"}
    Setups = {"x1", "x2"}
    Tours <- MCTours
    BUDGET_CAPS <- MCBudgetCaps
    Threshold = 2
    MaxErrors = 3
    MaxSpawns = 2
    MaxMessages = 5
    MaxTourFaults = 1
    Landlords = {"l1", "l2"}
    Subdomains = {"s1", "s2", "s3"}
    Desks = {"d1", "d2"}
    RegTokens = {"g1", "g2"}
    Agents = {"a1", "a2"}
    Sites <- MCSites
    MaxInstancesPerTenant = 1
    MaxSiteFaults = 1
    Tenants = {"t1", "t2"}
    Runs = {"r1"}
    Interval = 2
    MaxFailures = 2
    MaxTime = 3
    MaxFaults = 2
    MaxCrashes = 1
INVARIANTS OwnerIsMember KeysReadable AccessSafe OnboardingSafe  ScheduleSafe
PROPERTIES GraduatedOnce
CHECK_DEADLOCK FALSE
