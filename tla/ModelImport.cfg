CONSTANTS
    Imports = {1, 2}
    Concurrency = 2
    MaxWorkers = 2
    MaxFaults = 1
SPECIFICATION FairSpec
CHECK_DEADLOCK FALSE
INVARIANTS
    TypeOK
    TaskOwnsClaim
    FilesFollowStatus
PROPERTIES
    OutcomeIsFinal
    ImportsEnd
