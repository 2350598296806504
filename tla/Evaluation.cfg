CONSTANTS
    Requests <- MCRequests
    Template <- MCTemplate
    Concurrency = 2
    Scale = 10
    MaxRecords = 3
    MaxCategories = 2
SPECIFICATION Spec
CHECK_DEADLOCK FALSE
INVARIANTS
    TypeOK
    OneModelAtATime
    VerdictIsRight
PROPERTY
    EvaluationEnds
