SPECIFICATION Spec
CONSTANTS
    MaxDeliveries = 4
    NumSteps = 3
    ContinueOnError = {1, 3}
    Keyed = {3}
    MaxFaults = 4
    CanCrash = TRUE
CHECK_DEADLOCK FALSE
INVARIANTS
    TypeOK
    OneRunAtATime
    OkMeansAllSteps
PROPERTIES
    DoneStepsStayDone
    
