\* DeleteFunc with a tombstone panics on the type assertion.
CONSTANT MaxEvents <- MC_MaxEvents

SPECIFICATION Spec

INVARIANT NoHandlerPanic

CHECK_DEADLOCK FALSE
