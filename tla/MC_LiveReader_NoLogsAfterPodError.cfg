CONSTANTS
    Retries <- MC_Retries
    NSteps <- MC_NSteps
SPECIFICATION Spec
INVARIANT NoLogsAfterPodError
CHECK_DEADLOCK FALSE
