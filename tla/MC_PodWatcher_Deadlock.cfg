\* A notification that arrives after the verdict blocks Wait's return.
CONSTANT MaxEvents <- MC_MaxEvents

SPECIFICATION Spec

PROPERTY WaitReturns

CHECK_DEADLOCK FALSE
