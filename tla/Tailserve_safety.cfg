CONSTANTS
    t1 = t1
    a = a
    b = b
    d = d
    e = e
    n1 = n1
    n2 = n2
    Tailserves = {t1}
    Specs = {a, b, d}
    Names = {"web", "long"}
    Name <- MCName
    Tailnets = {n1}
    Ref <- MCRef
    Networks = {"here"}
    LongNames = {"long"}
    Addresses = {"x", "y"}
    Tags = {"old"}
    Namespaces = {"one", "two"}
    Beginnings <- Sound
    None = None
    Failed = Failed
    MaxDisturbances = 2
SPECIFICATION Spec
INVARIANTS NoOrphanService NoOrphanMap ReadyMeansServed
PROPERTIES AddressesStay ImplementsFinalizer
\* When all Tailserves are gone nothing is left to do.
CHECK_DEADLOCK FALSE
