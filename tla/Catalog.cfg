CONSTANTS
    m = m
    t = t
    Imported = {m}
    Trainings = {t}
    Others = {e}
    Datasets = {d}
    Clients = {c1, c2}
    Rank <- MCRank
    MaxFaults = 2
SPECIFICATION Spec
CHECK_DEADLOCK FALSE
INVARIANTS
    TypeOK
    UsedAssetsExist
    PublishedTogether
    NothingLeftBehind
    NoCircularWait
