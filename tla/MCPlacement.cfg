SPECIFICATION Spec
CONSTANTS
    Hosts = {"n1", "n2", "n3"}
    Bots = {"b1", "b2"}
    Scenes <- MCScenes
    MaxRetries = 1
    MaxItems = 4
    MaxFaults = 1
    Plain = {"m1", "m2"}
    Gpus = {"g1"}
    Buyers = {"policy", "admin", "gpuadmin"}
    Checks = {"c1", "c2"}
    Shelf = 1
    minNodes = 1
    rebootThreshold = 2
    Deployments <- MCDeployments
    MaxSlips = 1
INVARIANTS PlacementSafe 
CHECK_DEADLOCK FALSE
