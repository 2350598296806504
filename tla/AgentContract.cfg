CONSTANTS
    d = d
    j = j
    k = k
    g1 = g1
    g2 = g2
    Deployments = {d}
    Jobs = {j, k}
    Trainings = {j}
    Gpus = {g1, g2}
    Commands <- MCCommands
SPECIFICATION Spec
INVARIANTS
    TypeOK
    GpuExclusive
    BoundParameters
PROPERTIES
    NewestStarts
    ImplementsAllocation
    SuccessSurvives
