CONSTANTS
    g1 = g1
    g2 = g2
    Deployments = {}
    Jobs = {t}
    Trainings = {t}
    Gpus = {g1, g2}
    Clients = {c}
    Reconciler = reconciler
    Groups <- EitherOrBoth
    MaxVersion = 2
    MaxLate = 2
SPECIFICATION FairSpec
PROPERTIES
    TrainingContainersAreLeased
    SuccessIsReported
    JobsRunOnce
    JobTerminationCompletes
