---------------------------- MODULE StepSelection ----------------------------
(***************************************************************************)
(* Which steps of a pod the task reader reads (pkg/log/task_reader.go):   *)
(* filterSteps(pod, allSteps, stepsGiven) with getSteps and getInitSteps. *)
(* A step is a container of the pod: its name without the "step-" prefix, *)
(* the container name, and the state of the container's status.          *)
(*                                                                         *)
(* The operation is a function of its inputs; the module enumerates every *)
(* pod, flag and allow-list of a small universe as initial states, and    *)
(* one step computes filterSteps.                                          *)
(***************************************************************************)
EXTENDS Naturals, Sequences, FiniteSets, SequencesExt

CONSTANTS
    Base,       \* container names without the "step-" prefix
    MaxInit,    \* the most init containers of a pod
    MaxCont,    \* the most containers of a pod
    MaxGiven    \* the longest allow-list

ASSUME StepConstAssumption ==
    /\ IsFiniteSet(Base) /\ Base # {}
    /\ MaxInit \in Nat /\ MaxCont \in Nat /\ MaxGiven \in Nat

\* A container name: "step-" followed by a base, or a base alone.
CName == [prefixed : BOOLEAN, base : Base]

\* strings.TrimPrefix(name, "step-").
TrimPrefix(n) == [n EXCEPT !.prefixed = FALSE]

\* corev1.ContainerState: Waiting set, Running or Terminated set, or the
\* zero value a map lookup of a missing name returns.
State == {"waiting", "running", "zero"}

\* The pods the API server admits: container names are unique across the
\* init containers and the containers, and a status is for a container of
\* the pod.
InjSeqs(S, n) == UNION {SetToSeqs(T) : T \in {U \in SUBSET S : Cardinality(U) <= n}}
Statuses(cs) == UNION {[D -> State \ {"zero"}] : D \in SUBSET ToSet(cs)}
PodsWithInit(i) ==
    UNION {[init : {i}, containers : {c}, initStatus : Statuses(i), status : Statuses(c)] :
             c \in {c \in InjSeqs(CName, MaxCont) : ToSet(c) \cap ToSet(i) = {}}}
Pod == UNION {PodsWithInit(i) : i \in InjSeqs(CName, MaxInit)}

-----------------------------------------------------------------------------
\* status[name] of the map built from the statuses: the zero state when the
\* pod has no status for the container.
StatusOf(sts, n) == IF n \in DOMAIN sts THEN sts[n] ELSE "zero"

\* One step per container, in declaration order.
StepsOf(cs, sts) ==
    [k \in 1..Len(cs) |->
        [name |-> TrimPrefix(cs[k]), container |-> cs[k], state |-> StatusOf(sts, cs[k])]]

getInitSteps(pod) == StepsOf(pod.init, pod.initStatus)

getSteps(pod) == StepsOf(pod.containers, pod.status)

\* Mutant: the allow-list is matched against the container name.
filterStepsByContainer(pod, allSteps, stepsGiven) ==
    LET stepsInPod == getSteps(pod)
        initSteps == IF allSteps THEN getInitSteps(pod) ELSE << >>
    IN  IF stepsGiven = << >> THEN initSteps \o stepsInPod
        ELSE initSteps \o SelectSeq(stepsInPod, LAMBDA sp : sp.container \in ToSet(stepsGiven))

\* The init steps when all steps are asked for, then the pod's steps: all
\* of them without an allow-list, else those whose name it holds.
filterSteps(pod, allSteps, stepsGiven) ==
    LET stepsInPod == getSteps(pod)
        initSteps == IF allSteps THEN getInitSteps(pod) ELSE << >>
    IN  IF stepsGiven = << >> THEN initSteps \o stepsInPod
        ELSE initSteps \o SelectSeq(stepsInPod, LAMBDA sp : sp.name \in ToSet(stepsGiven))

VARIABLES pod, allSteps, stepsGiven, steps, filtered

vars == <<pod, allSteps, stepsGiven, steps, filtered>>

Init ==
    /\ pod \in Pod
    /\ allSteps \in BOOLEAN
    /\ stepsGiven \in BoundedSeq(CName, MaxGiven)
    /\ steps = << >>
    /\ filtered = FALSE

filter ==
    /\ ~filtered
    /\ steps' = filterSteps(pod, allSteps, stepsGiven)
    /\ filtered' = TRUE
    /\ UNCHANGED <<pod, allSteps, stepsGiven>>

Spec == Init /\ [][filter]_vars

-----------------------------------------------------------------------------
(* Properties, against the spec's description of the filtered step list:  *)
(* "start from regular containers (prefix-stripped name, state from       *)
(* container_statuses); if the caller asked for all steps, prepend init   *)
(* containers; if the caller provided a step-name allow-list, intersect." *)

\* The spec's step list.
SpecSteps ==
    LET all == (IF allSteps THEN getInitSteps(pod) ELSE << >>) \o getSteps(pod)
    IN  IF stepsGiven = << >> THEN all
        ELSE SelectSeq(all, LAMBDA sp : sp.name \in ToSet(stepsGiven))

\* The steps of a list that come from the pod's regular containers.
Regular(ss) == SelectSeq(ss, LAMBDA sp : sp.container \in ToSet(pod.containers))

\* Every variable keeps its type.
TypeOK ==
    /\ pod \in Pod /\ allSteps \in BOOLEAN
    /\ stepsGiven \in Seq(CName)
    /\ steps \in Seq([name : CName, container : CName, state : State])
    /\ filtered \in BOOLEAN

\* The steps read from the regular containers are the ones the spec names,
\* in declaration order, after every init step.
RegularStepsAsSpecified ==
    filtered =>
        /\ Regular(steps) = Regular(SpecSteps)
        /\ \A i, j \in DOMAIN steps :
              steps[i].container \in ToSet(pod.containers)
              /\ steps[j].container \in ToSet(pod.init) => j < i

\* The whole list is the spec's: the allow-list also applies to the init
\* steps of --all.
StepsAsSpecified == filtered => steps = SpecSteps
=============================================================================
