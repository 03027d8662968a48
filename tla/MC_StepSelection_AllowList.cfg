CONSTANTS
    Base <- MC_Base
    MaxInit = 1
    MaxCont = 2
    MaxGiven = 1
SPECIFICATION Spec
INVARIANT StepsAsSpecified
CHECK_DEADLOCK FALSE
