CONSTANTS
    d = d
    e = e
    g1 = g1
    g2 = g2
    Deployments = {d}
    Jobs = {e}
    Trainings = {}
    Gpus = {g1, g2}
    Requests <- MCRequests
    MaxCached = 2
    MaxPersistFailures = 0
    Skew = 1
    MinRetention = 0
    MaxTime = 3
    SignedAt <- MCSignedAt
SPECIFICATION SignedSpec
INVARIANTS
    AtMostOnce
    RefusalsAreTrue
