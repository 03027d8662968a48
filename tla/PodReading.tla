---------------------------- MODULE PodReading -----------------------------
(***************************************************************************)
(* What the task log reader promises about the pods whose logs it reads   *)
(* (the spec: "pod names observed across a task's retries are unique and  *)
(* visited in retry order").  The TaskRun makes attempts 1, 2, ..., each  *)
(* with its own pod; the reader reads the pod of an attempt that exists,  *)
(* each pod at most once, and never one older than a pod it already read. *)
(***************************************************************************)
EXTENDS Naturals, Sequences

\* The most attempts a TaskRun makes (its retries plus one).
CONSTANT Limit

VARIABLES
    attempts,   \* the number of attempts the TaskRun has made
    read        \* the attempts whose pods were read, in order

vars == <<attempts, read>>

Init ==
    /\ attempts = 0
    /\ read = << >>

\* The TaskRun starts a new attempt, with a new pod.
NewAttempt ==
    /\ attempts < Limit
    /\ attempts' = attempts + 1
    /\ UNCHANGED read

\* The reader takes the pod of attempt p: it exists and is newer than every
\* pod read before.
ReadPod(p) ==
    /\ p \in 1..attempts
    /\ \A i \in DOMAIN read : read[i] < p
    /\ read' = Append(read, p)
    /\ UNCHANGED attempts

Next == NewAttempt \/ \E p \in 1..attempts : ReadPod(p)

Spec == Init /\ [][Next]_vars
=============================================================================
