CONSTANTS
    d = d
    g1 = g1
    g2 = g2
    Deployments = {d}
    Jobs = {}
    Trainings = {}
    Gpus = {g1, g2}
    Requests <- MCRequests
    MaxCached = 2
    MaxPersistFailures = 1
SPECIFICATION Spec
INVARIANTS
    TypeOK
    AnswersAreDurable
PROPERTIES
    ImplementsContract
    LabelsNeverDecrease
