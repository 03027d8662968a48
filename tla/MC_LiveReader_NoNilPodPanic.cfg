CONSTANTS
    Retries <- MC_Retries
    NSteps <- MC_NSteps
SPECIFICATION Spec
INVARIANT NoNilPodPanic
CHECK_DEADLOCK FALSE
