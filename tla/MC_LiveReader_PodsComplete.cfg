CONSTANTS
    Retries <- MC_Retries
    NSteps <- MC_NSteps
SPECIFICATION Spec
INVARIANT PodsComplete
CHECK_DEADLOCK FALSE
