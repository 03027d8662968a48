CONSTANTS
    Retries <- MC_Retries
    NSteps <- MC_NSteps
SPECIFICATION Spec
PROPERTY WaitEnds
CHECK_DEADLOCK FALSE
