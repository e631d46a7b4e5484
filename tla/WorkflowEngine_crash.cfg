SPECIFICATION Spec
CONSTANTS
    MaxDeliveries = 3
    NumSteps = 3
    ContinueOnError = {1, 3}
    Keyed = {3}
    MaxFaults = 1
    CanCrash = TRUE
CHECK_DEADLOCK FALSE
PROPERTIES
    SurvivesCrash
