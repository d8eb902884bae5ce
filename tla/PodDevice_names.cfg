CONSTANTS
    p1 = p1
    p2 = p2
    Pods = {p1, p2}
    HostOf <- SameHosts
    NoDevice = NoDevice
    Tags = {"a"}
    MaxDisturbances = 0
SPECIFICATION Spec
INVARIANTS AnnotationNamesOwnDevice
\* When all pods are gone nothing is left to do.
CHECK_DEADLOCK FALSE
