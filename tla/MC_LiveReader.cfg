CONSTANTS
    Retries <- MC_Retries
    NSteps <- MC_NStepsOrder
SPECIFICATION Spec
INVARIANT TypeOK
PROPERTY PodReadingRefined
INVARIANT NoSendOnClosedErrC
INVARIANT LiveLogOrder
CHECK_DEADLOCK FALSE
