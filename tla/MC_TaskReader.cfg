\* Order of the log stream and termination of the available-mode reader.
CONSTANTS
    p1 = p1
    p2 = p2
    none = none
    Pod <- MC_Pod
    NoPod = none
    NSteps = 2
    MaxRetries = 1
    MaxLines = 2
    MaxErrs = 1

SPECIFICATION Spec

INVARIANT TypeOK
INVARIANT LogOrder
PROPERTY Termination

\* The reader really stops: it returns a start error or closes its channels.
CHECK_DEADLOCK FALSE
