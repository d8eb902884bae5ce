CONSTANTS
    t1 = t1
    a = a
    b = b
    d = d
    e = e
    n1 = n1
    n2 = n2
    Tailserves = {t1}
    Specs = {a, e}
    Names = {"web"}
    Name <- MCName
    Tailnets = {n1, n2}
    Ref <- MCRef
    Networks = {"here", "there"}
    LongNames = {}
    Addresses = {"x"}
    Tags = {"old", "new"}
    Namespaces = {"one"}
    Beginnings <- AnyState
    None = None
    Failed = Failed
    MaxDisturbances = 1
SPECIFICATION FairSpec
INVARIANTS  ReadyMeansServed
PROPERTIES  DeletionCompletes Converges
\* When all Tailserves are gone nothing is left to do.
CHECK_DEADLOCK FALSE
