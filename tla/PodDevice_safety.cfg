CONSTANTS
    p1 = p1
    p2 = p2
    Pods = {p1, p2}
    HostOf <- OwnHosts
    NoDevice = NoDevice
    Tags = {"a"}
    MaxDisturbances = 1
SPECIFICATION Spec
INVARIANTS TypeOK AnnotationNamesOwnDevice
PROPERTIES OnlyDeletedPodsLoseDevices ImplementsFinalizer
\* When all pods are gone nothing is left to do.
CHECK_DEADLOCK FALSE
