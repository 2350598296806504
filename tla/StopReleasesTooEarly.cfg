CONSTANTS
    g1 = g1
    g2 = g2
    Deployments = {d}
    Jobs = {}
    Trainings = {}
    Gpus = {g1, g2}
    Clients = {c}
    Reconciler = reconciler
    Groups <- EitherOrBoth
    MaxVersion = 3
    MaxLate = 0
SPECIFICATION Spec
INVARIANTS
    ContainersAreLeased
