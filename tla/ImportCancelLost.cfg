CONSTANTS
    Imports = {1}
    Concurrency = 1
    MaxWorkers = 1
    MaxFaults = 0
SPECIFICATION Spec
CHECK_DEADLOCK FALSE
PROPERTIES
    CancelIsKept
