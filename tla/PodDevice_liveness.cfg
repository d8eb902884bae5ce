CONSTANTS
    p1 = p1
    p2 = p2
    Pods = {p1}
    HostOf <- OwnHosts
    NoDevice = NoDevice
    Tags = {"a", "b"}
    MaxDisturbances = 3
SPECIFICATION FairSpec
PROPERTIES DeletionCompletes Converges
\* When all pods are gone nothing is left to do.
CHECK_DEADLOCK FALSE
