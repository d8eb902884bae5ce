CONSTANTS
    Keys = {k1, k2}
    NoKey = NoKey
    MaxDisturbances = 0
SYMMETRY KeySymmetry
SPECIFICATION Spec
PROPERTIES ReadyMeansUsableKey
\* A Tailnet that is gone leaves nothing to do.
CHECK_DEADLOCK FALSE
