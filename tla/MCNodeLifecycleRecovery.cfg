CONSTANTS
    Nodes = {n1}
    Teams <- OnlyRecovery
    MaxCrashes = 0
SPECIFICATION FairSpec
PROPERTIES RecoveryRuns
CHECK_DEADLOCK FALSE
