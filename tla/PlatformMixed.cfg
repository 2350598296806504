CONSTANTS
    g1 = g1
    g2 = g2
    Deployments = {d}
    Jobs = {t}
    Trainings = {t}
    Gpus = {g1, g2}
    Clients = {c}
    Reconciler = reconciler
    Groups <- Both
    MaxVersion = 3
    MaxLate = 0
SPECIFICATION Spec
INVARIANTS
    TypeOK
    LeaseFollowsTraining
PROPERTIES
    ImplementsAllocation
