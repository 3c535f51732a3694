CONSTANTS
    Nodes = {n1}
    Teams <- MCTeams
    MaxCrashes = 1
SPECIFICATION FairSpec
INVARIANTS NodesSafe
PROPERTIES MovesRespected NodesSettle
CHECK_DEADLOCK FALSE
