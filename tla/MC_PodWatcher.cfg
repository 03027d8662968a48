\* The mutex and stopC protect eventC; Wait returns the first verdict.
CONSTANT MaxEvents <- MC_MaxEvents

SPECIFICATION Spec

INVARIANT NoSendOnClosedEventC
INVARIANT FirstVerdict

\* Wait may block for good (a pod that stays pending, the deadlock below)
\* and a panic ends the process.
CHECK_DEADLOCK FALSE
