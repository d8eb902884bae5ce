CONSTANTS
    Pods = {p1, p2}
    NoPod = NoPod
    MaxDisturbances = 1
SPECIFICATION FairSpec
INVARIANT DecrementsAreRecounted
PROPERTIES DecrementIsByOne CountConverges
\* Without pods and requests there is nothing to do.
CHECK_DEADLOCK FALSE
