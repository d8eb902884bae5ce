CONSTANTS
    Keys = {k1, k2, k3}
    NoKey = NoKey
    MaxDisturbances = 1
SPECIFICATION FairSpec
PROPERTIES DeletionCompletes Converges
\* A Tailnet that is gone leaves nothing to do.
CHECK_DEADLOCK FALSE
