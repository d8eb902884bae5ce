CONSTANTS
    Keys = {k1, k2, k3}
    NoKey = NoKey
    MaxDisturbances = 2
SYMMETRY KeySymmetry
SPECIFICATION Spec
INVARIANTS TypeOK ReadyIsForValidSpec BoundedKeys
PROPERTIES KeyOnlyUnderFinalizer DeletionRevokesKey ImplementsFinalizer ImplementsKeySource
\* A Tailnet that is gone leaves nothing to do.
CHECK_DEADLOCK FALSE
