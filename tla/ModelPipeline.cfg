CONSTANTS
    Origins <- MCOrigins
    Parts = {"weights", "notes"}
    Essential = {"weights"}
    MaxCommits = 2
    MaxStep = 2
    Keep = 1
    Layouts <- MCLayouts
SPECIFICATION FairSpec
CHECK_DEADLOCK FALSE
INVARIANTS
    TypeOK
    ImportIsWhole
    SuccessIsComplete
    FailuresAreExplained
PROPERTIES
    ProgressNeverGoesBack
    
