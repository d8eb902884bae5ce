SPECIFICATION FairSpec
CONSTANTS
    p1 = p1
    p2 = p2
    Pods = {p1, p2}
    asks <- MCAsks
    labels <- MCLabels
    MaxKeys = 2
    MaxConfigs = 1
    NoObject = NoObject
    NoEntry = NoEntry
    MaxDisturbances = 1
PROPERTIES PodsGetIn SourceIsTheReconcilers OnlyOldRequestsRevive KeysNeverGoBack AdmittedHasKey MountedExists
\* When every pod is in and every bound reached nothing is left to do.
CHECK_DEADLOCK FALSE
