----------------------------- MODULE LiveReader -----------------------------
(***************************************************************************)
(* The live mode of the task reader (pkg/log/task_reader.go): readTaskLog *)
(* on a TaskRun that is not done, with follow set, runs readLiveTaskLogs. *)
(* getTaskRunPodNames opens a watch on the TaskRun and starts goroutine D, *)
(* which sends the pod names it learns on podC and its errors on podErrC; *)
(* readPodLogs then starts A, which forwards podErrC to errC, and B, which *)
(* waits for each pod (pods.Pod.Wait) and reads its steps.                 *)
(*                                                                         *)
(* The cluster is an actor: it starts the TaskRun, creates pod attempts    *)
(* (attempt i runs pod i; the earlier ones are the retries), finishes the *)
(* run, lets pods reach a verdict Wait returns on, and may break the watch. *)
(* A step of a pod is abstracted to its EOFLOG record; TaskReader models   *)
(* the lines.                                                              *)
(***************************************************************************)
EXTENDS Naturals, Sequences

CONSTANTS
    Retries,      \* r.retries: the retries the reader expects
    NSteps        \* the most steps filterSteps returns for a pod

ASSUME LiveConstAssumption == Retries \in Nat /\ NSteps \in Nat

\* The cluster creates at most the expected retries.
MaxAttempts == Retries + 1
Attempt == 1..MaxAttempts

\* A TaskRun snapshot: HasStarted, IsDone, isFailure, and the number of pod
\* attempts (status.podName is attempt nAtt, retriesStatus the ones before).
Snap == [started : BOOLEAN, done : BOOLEAN, failed : BOOLEAN, nAtt : 0..MaxAttempts]

\* A watch event: a TaskRun, or what cast2taskrun rejects (an error object,
\* or the zero event of a closed result channel).
WatchEvent == [ok : BOOLEAN, snap : Snap]

VARIABLES
    cl,         \* the TaskRun in the cluster
    settled,    \* attempts whose pod has reached a verdict for Wait
    watchOK,    \* the watch is open and has not broken
    wq,         \* watch events not yet received by D
    mainPc,     \* the caller: readTaskLog .. readPodLogs
    dPc,        \* goroutine D of getTaskRunPodNames
    run,        \* D's `run`
    podMap,     \* D's podMap: attempts already sent
    dQ,         \* attempts addPod still has to send on podC
    dAfter,     \* where D goes once those sends are done
    timerUsed,  \* the one-shot activity timeout has fired
    sentSeq,    \* the attempts B has received from podC, in order
    wg, aPc, bPc,
    cur,        \* B's current attempt
    nSteps, stepIdx,
    waitErr,    \* attempts for which Wait returned an error
    out,        \* records sent on logC: [pod, step] for each EOFLOG
    errs,       \* number of errors sent on errC
    panic       \* "none", "sendClosed" or "nilPod"

clVars == <<cl, settled, watchOK, wq>>
dVars == <<run, podMap, dQ, dAfter, timerUsed>>
bVars == <<cur, nSteps, stepIdx, waitErr>>
vars == <<clVars, mainPc, dPc, dVars, sentSeq, wg, aPc, bPc, bVars, out, errs, panic>>

errClosed == aPc = "done"

-----------------------------------------------------------------------------
\* areRetriesScheduled(tr, r.retries)
AreRetriesScheduled(s) == ~s.done /\ s.nAtt - 1 < Retries

\* addPod(name): the name is sent on podC unless podMap holds it.
AddPod(n) == IF n \in podMap THEN << >> ELSE << n >>

\* The attempts of a snapshot in the order of retriesStatus, then podName.
PodsOf(s) == [i \in 1..s.nAtt |-> i]

\* errC <- e, or a panic when errC is already closed.
SendErr ==
    IF errClosed THEN panic' = "sendClosed" /\ UNCHANGED errs
                 ELSE errs' = errs + 1 /\ UNCHANGED panic

Init ==
    /\ cl = [started |-> FALSE, done |-> FALSE, failed |-> FALSE, nAtt |-> 0]
    /\ settled = {}
    /\ watchOK = FALSE
    /\ wq = << >>
    /\ mainPc = "start"
    /\ dPc = "none"
    /\ run = cl
    /\ podMap = {}
    /\ dQ = << >>
    /\ dAfter = "loop"
    /\ timerUsed = FALSE
    /\ sentSeq = << >>
    /\ wg = 0
    /\ aPc = "none"
    /\ bPc = "none"
    /\ cur = 1
    /\ nSteps = 0
    /\ stepIdx = 1
    /\ waitErr = {}
    /\ out = << >>
    /\ errs = 0
    /\ panic = "none"

-----------------------------------------------------------------------------
(* The cluster.                                                             *)

\* A change of the TaskRun; the open watch delivers the new object.
Change(new) ==
    /\ cl' = new
    /\ wq' = IF watchOK THEN Append(wq, [ok |-> TRUE, snap |-> new]) ELSE wq
    /\ UNCHANGED <<settled, watchOK>>

clStart ==
    /\ ~cl.started
    /\ Change([cl EXCEPT !.started = TRUE])

clNewPod ==
    /\ cl.started /\ ~cl.done
    /\ cl.nAtt < MaxAttempts
    /\ Change([cl EXCEPT !.nAtt = @ + 1])

clFinish ==
    /\ cl.started /\ ~cl.done
    /\ \E f \in BOOLEAN :
          /\ f \/ cl.nAtt > 0
          /\ Change([cl EXCEPT !.done = TRUE, !.failed = f])

ClusterProgress == clStart \/ clNewPod \/ clFinish

\* The pod of attempt i reaches a phase or a condition checkPodStatus
\* decides on.
podSettle(i) ==
    /\ i \notin settled
    /\ settled' = settled \cup {i}
    /\ UNCHANGED <<cl, watchOK, wq>>

\* The watch ends (server timeout, or an error event).
watchBreak ==
    /\ watchOK
    /\ watchOK' = FALSE
    /\ wq' = Append(wq, [ok |-> FALSE, snap |-> cl])
    /\ UNCHANGED <<cl, settled>>

Cluster ==
    /\ \/ ClusterProgress
       \/ \E i \in 1..cl.nAtt : podSettle(i)
       \/ watchBreak
    /\ UNCHANGED <<mainPc, dPc, dVars, sentSeq, wg, aPc, bPc, bVars, out, errs, panic>>

-----------------------------------------------------------------------------
(* The caller: readTaskLog, readLiveTaskLogs, getTaskRunPodNames,          *)
(* readPodLogs.                                                             *)

\* GetTaskRun fails (a start error); the run is done (available mode, which
\* TaskReader models); or readLiveTaskLogs goes on with the snapshot.
readTaskLog ==
    /\ mainPc = "start"
    /\ \/ mainPc' = "startErr" /\ UNCHANGED run
       \/ cl.done /\ mainPc' = "available" /\ UNCHANGED run
       \/ ~cl.done /\ mainPc' = "watch" /\ run' = cl
    /\ UNCHANGED <<clVars, dPc, podMap, dQ, dAfter, timerUsed, sentSeq, wg, aPc,
                   bPc, bVars, out, errs, panic>>

\* actions.Watch: an error is a start error; otherwise the watch starts with
\* the current object and goroutine D is started.
openWatch ==
    /\ mainPc = "watch"
    /\ \/ mainPc' = "startErr" /\ UNCHANGED <<watchOK, wq, dPc>>
       \/ /\ mainPc' = "addA"
          /\ watchOK' = TRUE
          /\ wq' = << [ok |-> TRUE, snap |-> cl] >>
          /\ dPc' = "init"
    /\ UNCHANGED <<cl, settled, dVars, sentSeq, wg, aPc, bPc, bVars, out, errs, panic>>

spawnA ==
    /\ mainPc = "addA"
    /\ mainPc' = "addB" /\ wg' = wg + 1 /\ aPc' = "run"
    /\ UNCHANGED <<clVars, dPc, dVars, sentSeq, bPc, bVars, out, errs, panic>>

spawnB ==
    /\ mainPc = "addB"
    /\ mainPc' = "returned" /\ wg' = wg + 1 /\ bPc' = "recv"
    /\ UNCHANGED <<clVars, dPc, dVars, sentSeq, aPc, bVars, out, errs, panic>>

Main == readTaskLog \/ openWatch \/ spawnA \/ spawnB

-----------------------------------------------------------------------------
(* Goroutine D of getTaskRunPodNames.                                       *)

\* addPod for each retry of the initial snapshot, then for its podName;
\* podMap is empty and the names are distinct, so each one is sent.  The
\* activity timer is created.
dInit ==
    /\ dPc = "init"
    /\ dQ' = PodsOf(run)
    /\ podMap' = podMap \cup {i \in 1..run.nAtt : TRUE}
    /\ dPc' = "sending" /\ dAfter' = "loop"
    /\ UNCHANGED <<clVars, mainPc, run, timerUsed, sentSeq, wg, aPc, bPc, bVars, out, errs, panic>>

\* podC <- name, received by B's `for podName := range podC`.
dSendPod ==
    /\ dPc = "sending"
    /\ dQ # << >>
    /\ bPc = "recv"
    /\ cur' = Head(dQ)
    /\ sentSeq' = Append(sentSeq, Head(dQ))
    /\ dQ' = Tail(dQ)
    /\ bPc' = "wait"
    /\ UNCHANGED <<clVars, mainPc, dPc, run, podMap, dAfter, timerUsed, wg, aPc,
                   nSteps, stepIdx, waitErr, out, errs, panic>>

dSendsDone ==
    /\ dPc = "sending"
    /\ dQ = << >>
    /\ dPc' = dAfter
    /\ UNCHANGED <<clVars, mainPc, dVars, sentSeq, wg, aPc, bPc, bVars, out, errs, panic>>

\* Mutant: addPod without the podMap check.
dEventNoDedupe ==
    /\ dPc = "loop"
    /\ wq # << >>
    /\ wq' = Tail(wq)
    /\ LET e == Head(wq) IN
       \/ ~e.ok /\ dPc' = "errSend" /\ UNCHANGED <<run, podMap, dQ, dAfter>>
       \/ /\ e.ok /\ run' = e.snap
          /\ IF e.snap.nAtt >= 1
               THEN /\ dQ' = << e.snap.nAtt >>
                    /\ podMap' = podMap \cup {e.snap.nAtt}
                    /\ dPc' = "sending"
                    /\ dAfter' = IF AreRetriesScheduled(e.snap) THEN "loop" ELSE "exit"
               ELSE UNCHANGED <<dPc, podMap, dQ, dAfter>>
    /\ UNCHANGED <<cl, settled, watchOK, mainPc, timerUsed, sentSeq, wg, aPc, bPc, bVars, out, errs, panic>>

\* A watch event: cast2taskrun fails (the error goes to podErrC and D
\* returns), or run is replaced; a podName is added, and D returns when no
\* retry is scheduled.
dEvent ==
    /\ dPc = "loop"
    /\ wq # << >>
    /\ wq' = Tail(wq)
    /\ LET e == Head(wq) IN
       \/ ~e.ok /\ dPc' = "errSend" /\ UNCHANGED <<run, podMap, dQ, dAfter>>
       \/ /\ e.ok /\ run' = e.snap
          /\ IF e.snap.nAtt >= 1
               THEN /\ dQ' = AddPod(e.snap.nAtt)
                    /\ podMap' = podMap \cup {e.snap.nAtt}
                    /\ dPc' = "sending"
                    /\ dAfter' = IF AreRetriesScheduled(e.snap) THEN "loop" ELSE "exit"
               ELSE UNCHANGED <<dPc, podMap, dQ, dAfter>>
    /\ UNCHANGED <<cl, settled, watchOK, mainPc, timerUsed, sentSeq, wg, aPc, bPc, bVars, out, errs, panic>>

\* The activity timeout, which fires once: a failed run is an error; a
\* started run with a pod goes on waiting while retries are scheduled and
\* returns otherwise; anything else is "has not started yet".
dTimeout ==
    /\ dPc = "loop"
    /\ ~timerUsed
    /\ timerUsed' = TRUE
    /\ dPc' = IF run.failed THEN "errSend"
              ELSE IF run.started /\ run.nAtt >= 1
                   THEN IF AreRetriesScheduled(run) THEN "loop" ELSE "exit"
              ELSE "errSend"
    /\ UNCHANGED <<clVars, mainPc, run, podMap, dQ, dAfter, sentSeq, wg, aPc, bPc, bVars, out, errs, panic>>

\* errC <- err on podErrC, received by A, which forwards it to errC.
dErrSend ==
    /\ dPc = "errSend"
    /\ aPc = "run"
    /\ errs' = errs + 1
    /\ dPc' = "exit"
    /\ UNCHANGED <<clVars, mainPc, dVars, sentSeq, wg, aPc, bPc, bVars, out, panic>>

\* D returns: close(podC); close(errC); watchRun.Stop().
dExit ==
    /\ dPc = "exit"
    /\ dPc' = "done"
    /\ watchOK' = FALSE
    /\ UNCHANGED <<cl, settled, wq, mainPc, dVars, sentSeq, wg, aPc, bPc, bVars, out, errs, panic>>

Discovery == dInit \/ dSendPod \/ dSendsDone \/ dEvent \/ dTimeout \/ dErrSend \/ dExit

-----------------------------------------------------------------------------
(* readPodLogs: goroutine A, then goroutine B in follow mode.               *)

\* Mutant: wg.Done() is called twice.
aDoneTwice ==
    /\ aPc = "run" /\ dPc = "done"
    /\ aPc' = "wait" /\ wg' = wg - 2
    /\ UNCHANGED <<clVars, mainPc, dPc, dVars, sentSeq, bPc, bVars, out, errs, panic>>

\* podErrC is closed: the range ends; wg.Done().
aDone ==
    /\ aPc = "run" /\ dPc = "done"
    /\ aPc' = "wait" /\ wg' = wg - 1
    /\ UNCHANGED <<clVars, mainPc, dPc, dVars, sentSeq, bPc, bVars, out, errs, panic>>

\* Mutant: errC is closed without waiting for the WaitGroup.
closeErrCNoWait ==
    /\ aPc = "wait"
    /\ aPc' = "done"
    /\ UNCHANGED <<clVars, mainPc, dPc, dVars, sentSeq, wg, bPc, bVars, out, errs, panic>>

\* wg.Wait(); close(errC).
closeErrC ==
    /\ aPc = "wait" /\ wg = 0
    /\ aPc' = "done"
    /\ UNCHANGED <<clVars, mainPc, dPc, dVars, sentSeq, wg, bPc, bVars, out, errs, panic>>

\* p.Wait(), its Get probe: on an error Wait returns (nil, err), the error
\* is sent, and filterSteps(nil) dereferences the pod; otherwise Wait starts
\* its informer.
bWaitGet ==
    /\ bPc = "wait"
    /\ \/ /\ IF errClosed THEN panic' = "sendClosed" /\ UNCHANGED errs
                          ELSE panic' = "nilPod" /\ errs' = errs + 1
          /\ UNCHANGED bPc
       \/ bPc' = "watch" /\ UNCHANGED <<errs, panic>>
    /\ UNCHANGED <<clVars, mainPc, dPc, dVars, sentSeq, wg, aPc, bVars, out>>

\* Wait returns once the pod has a verdict: (pod, nil), or (pod, err) with
\* the error sent; filterSteps gives the pod's steps either way.
bWaitVerdict ==
    /\ bPc = "watch"
    /\ cur \in settled
    /\ \/ UNCHANGED <<waitErr, errs, panic>>
       \/ SendErr /\ waitErr' = waitErr \cup {cur}
    /\ \E n \in 0..NSteps : nSteps' = n
    /\ stepIdx' = 1
    /\ bPc' = "step"
    /\ UNCHANGED <<clVars, mainPc, dPc, dVars, sentSeq, wg, aPc, cur, out>>

\* Mutant: the step loop does not move on after a step's EOFLOG.
bStepNoAdvance ==
    /\ bPc = "step"
    /\ stepIdx <= nSteps
    /\ \/ SendErr /\ stepIdx' = stepIdx + 1 /\ UNCHANGED <<bPc, out>>
       \/ /\ out' = Append(out, [pod |-> cur, step |-> stepIdx])
          /\ \/ UNCHANGED <<stepIdx, bPc, errs, panic>>
             \/ SendErr /\ bPc' = "recv" /\ UNCHANGED stepIdx
    /\ UNCHANGED <<clVars, mainPc, dPc, dVars, sentSeq, wg, aPc, cur, nSteps, waitErr>>

\* readStepsLogs with follow set, one step: Read() fails and the error is
\* sent; or the step's stream ends with EOFLOG and container.Status() is
\* checked, an error ending the pod's steps.
bStep ==
    /\ bPc = "step"
    /\ stepIdx <= nSteps
    /\ \/ SendErr /\ stepIdx' = stepIdx + 1 /\ UNCHANGED <<bPc, out>>
       \/ /\ out' = Append(out, [pod |-> cur, step |-> stepIdx])
          /\ \/ stepIdx' = stepIdx + 1 /\ UNCHANGED <<bPc, errs, panic>>
             \/ SendErr /\ bPc' = "recv" /\ UNCHANGED stepIdx
    /\ UNCHANGED <<clVars, mainPc, dPc, dVars, sentSeq, wg, aPc, cur, nSteps, waitErr>>

bStepsDone ==
    /\ bPc = "step" /\ stepIdx > nSteps
    /\ bPc' = "recv"
    /\ UNCHANGED <<clVars, mainPc, dPc, dVars, sentSeq, wg, aPc, bVars, out, errs, panic>>

\* podC is closed: defer close(logC); wg.Done().
closeLogC ==
    /\ bPc = "recv" /\ dPc = "done"
    /\ bPc' = "done" /\ wg' = wg - 1
    /\ UNCHANGED <<clVars, mainPc, dPc, dVars, sentSeq, aPc, bVars, out, errs, panic>>

ForwardErrors == aDone \/ closeErrC
ReadPods == bWaitGet \/ bWaitVerdict \/ bStep \/ bStepsDone \/ closeLogC

Next ==
    /\ panic = "none"
    /\ Main \/ Discovery \/ ForwardErrors \/ ReadPods \/ Cluster

\* Every goroutine runs when it can, and time passes, so the timeout fires;
\* nothing obliges the cluster to change the TaskRun or a pod.
Spec ==
    /\ Init /\ [][Next]_vars
    /\ WF_vars(panic = "none" /\ Main)
    /\ WF_vars(panic = "none" /\ Discovery)
    /\ WF_vars(panic = "none" /\ ForwardErrors)
    /\ WF_vars(panic = "none" /\ ReadPods)

-----------------------------------------------------------------------------
(* Properties.                                                              *)

\* Every variable of the caller, of D, A, B and of the cluster keeps its type.
TypeOK ==
    /\ cl \in Snap /\ run \in Snap
    /\ settled \subseteq Attempt
    /\ watchOK \in BOOLEAN
    /\ wq \in Seq(WatchEvent)
    /\ mainPc \in {"start", "startErr", "available", "watch", "addA", "addB", "returned"}
    /\ dPc \in {"none", "init", "sending", "loop", "errSend", "exit", "done"}
    /\ dAfter \in {"loop", "exit"}
    /\ podMap \subseteq Attempt
    /\ dQ \in Seq(Attempt) /\ sentSeq \in Seq(Attempt)
    /\ timerUsed \in BOOLEAN
    /\ wg \in 0..2
    /\ aPc \in {"none", "run", "wait", "done"}
    /\ bPc \in {"none", "recv", "wait", "watch", "step", "done"}
    /\ cur \in Attempt /\ nSteps \in 0..NSteps /\ stepIdx \in 1..(NSteps + 1)
    /\ waitErr \subseteq Attempt
    /\ out \in Seq([pod : Attempt, step : 1..NSteps])
    /\ errs \in Nat
    /\ panic \in {"none", "sendClosed", "nilPod"}

\* The pods B reads are each read once and in attempt order (the spec: "pod
\* names observed across a task's retries are unique and visited in retry
\* order"): D sends the retries of the first snapshot, then the podName of
\* each later event, and podMap drops the names it has sent.
PodsInOrder ==
    \A i, j \in DOMAIN sentSeq : i < j => sentSeq[i] < sentSeq[j]

\* The abstract reading of pods, seen through the cluster's number of
\* attempts and the pods D has handed to B.
Reading == INSTANCE PodReading WITH Limit <- MaxAttempts, attempts <- cl.nAtt, read <- sentSeq

\* Live mode implements it: getTaskRunPodNames hands B only the pod of an
\* attempt the TaskRun has made, each pod once, never one older than a pod
\* already handed over (task_reader.go:301-334, with the cluster's attempts).
PodReadingRefined == Reading!Spec

\* Record a of logC comes before record b: an earlier pod, or the same pod
\* and an earlier step.
StepBefore(a, b) == a.pod < b.pod \/ (a.pod = b.pod /\ a.step < b.step)

\* The EOFLOG records B sends on logC in live mode come pod by pod, in the
\* order D hands the pods over, and step by step within a pod, at most one
\* per step (the spec: steps emit in declared order, one EOFLOG per step
\* attempt): readStepsLogs returns after a Status error (task_reader.go:
\* 188-191) and B takes the next pod only from podC.
LiveLogOrder == \A i, j \in DOMAIN out : i < j => StepBefore(out[i], out[j])

\* In live mode nothing is sent on errC after it is closed: B can only send
\* once it has received a pod, which D cannot send before B has been added
\* to the WaitGroup, and A closes errC only after D has closed podErrC.
NoSendOnClosedErrC == panic # "sendClosed"

\* When D ends, every pod of the TaskRun it last saw has been sent (the spec:
\* the pods of all retries are visited): D only adds status.podName of each
\* event, never the retriesStatus of a later one.
PodsComplete ==
    dPc = "done" => \A i \in 1..run.nAtt : i \in podMap

\* B never dereferences a nil pod: Wait returns (nil, err) when its Get
\* probe fails, and readPodLogs passes that pod to filterSteps.
NoNilPodPanic == panic # "nilPod"

\* No record is read from a pod whose Wait returned an error (the spec: on
\* an error, forward it and continue with the next pod; an image pull
\* failure yields one error and no log records).
NoLogsAfterPodError ==
    \A i \in DOMAIN out : out[i].pod \notin waitErr

\* B does not stay in Wait for good (the spec: a pod that never reaches a
\* readable phase within the activity timeout yields one WatchTimeout error
\* and the task's channels close); pods.Pod.Wait has no timeout.
WaitEnds == bPc = "watch" ~> (bPc # "watch" \/ panic # "none")

-----------------------------------------------------------------------------
(* The inductive invariant behind NoSendOnClosedErrC and PodsInOrder.       *)

\* wg counts goroutine A until its wg.Done() and B until its deferred one.
WgCount ==
    wg = (IF aPc = "run" THEN 1 ELSE 0)
         + (IF bPc \in {"recv", "wait", "watch", "step"} THEN 1 ELSE 0)

\* readTaskLog, the watch, D, A and B start in this order; the watch
\* delivers nothing before it is opened.
SpawnOrder ==
    /\ mainPc \in {"start", "startErr", "available", "watch"} =>
          dPc = "none" /\ aPc = "none" /\ bPc = "none" /\ ~watchOK /\ wq = << >>
    /\ mainPc = "addA" => aPc = "none" /\ bPc = "none"
    /\ mainPc = "addB" => bPc = "none"

\* A leaves its range over podErrC only once D has closed it, and closes
\* errC only when B is not between a receive from podC and the next one.
ErrCAfterPods ==
    /\ aPc \in {"wait", "done"} => dPc = "done"
    /\ aPc = "done" => bPc \in {"none", "recv", "done"}

\* Increasing(s): s is strictly increasing.
Increasing(s) == \A i, j \in DOMAIN s : i < j => s[i] < s[j]

\* podMap holds what was sent or is being sent, nothing of a later attempt
\* than D's run; the watch delivers snapshots in the cluster's order, none
\* older than D's run.
PodMapBound ==
    /\ \A i \in DOMAIN sentSeq : sentSeq[i] \in podMap
    /\ \A i \in DOMAIN dQ : dQ[i] \in podMap
    /\ \A x \in podMap : x <= run.nAtt
    /\ run.nAtt <= cl.nAtt
    /\ \A i \in DOMAIN wq : run.nAtt <= wq[i].snap.nAtt /\ wq[i].snap.nAtt <= cl.nAtt
    /\ \A i, j \in DOMAIN wq : i < j => wq[i].snap.nAtt <= wq[j].snap.nAtt

\* What D still has to send comes after what B has received, in order.
QueueOrder ==
    /\ Increasing(dQ)
    /\ \A i \in DOMAIN sentSeq, j \in DOMAIN dQ : sentSeq[i] < dQ[j]
    /\ dPc # "sending" => dQ = << >>
    /\ dPc \in {"none", "init"} => podMap = {} /\ sentSeq = << >>

\* B's current pod is the last one D handed over; the records sent so far
\* lie before B's place: an earlier pod, or an earlier step of its pod.
OutCursor ==
    /\ bPc \in {"wait", "watch", "step"} \/ out # << >> =>
          sentSeq # << >> /\ cur = sentSeq[Len(sentSeq)]
    /\ \A i \in DOMAIN out :
          /\ out[i].pod <= cur
          /\ bPc \in {"wait", "watch"} => out[i].pod < cur
          /\ bPc = "step" /\ out[i].pod = cur => out[i].step < stepIdx

\* The conjunction is inductive.
IInv ==
    /\ TypeOK /\ WgCount /\ SpawnOrder /\ ErrCAfterPods
    /\ NoSendOnClosedErrC
    /\ PodMapBound /\ QueueOrder /\ PodsInOrder
=============================================================================
