CONSTANTS
    g1 = g1
    g2 = g2
    Deployments = {d}
    Jobs = {t, e}
    Trainings = {t}
    Gpus = {g1, g2}
    Clients = {}
    Reconciler = reconciler
    Groups <- AnyGroup
    MaxVersion = 2
    MaxLate = 0
SPECIFICATION Spec
SYMMETRY GpuSymmetry
PROPERTIES
    NoOvertaking
