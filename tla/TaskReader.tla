----------------------------- MODULE TaskReader -----------------------------
(***************************************************************************)
(* Reading the logs of one TaskRun (src/pkg/log/task_reader.go), in the    *)
(* "available" mode: the TaskRun is done or the caller did not ask to      *)
(* follow, so the pods are taken from one snapshot of the TaskRun status.  *)
(*                                                                         *)
(* Goroutines and their program counters:                                  *)
(*   mainPc  readTaskLog / readAvailableTaskLogs / readPodLogs (caller)    *)
(*   pPc     the goroutine of readAvailableTaskLogs that sends pod names   *)
(*   aPc     the first goroutine of readPodLogs, which closes errC         *)
(*   bPc     the second goroutine of readPodLogs, which reads every pod    *)
(*           (readStepsLogs runs inside it) and closes logC                *)
(* The caller of the reader drains logC and errC until both are closed,    *)
(* so a send on either is a rendezvous that always completes at once: it   *)
(* is modelled as an append to out (logC) or errs (errC).  podC is         *)
(* unbuffered: a pod name passes from the sender to the reader in one     *)
(* joint step.  A log line is abstracted to its ordinal in its container's *)
(* stream; error messages to the kind of failure.                          *)
(***************************************************************************)
EXTENDS Naturals, Sequences

CONSTANTS
    Pod,         \* pod names
    NoPod,       \* the empty pod name ""
    NSteps,      \* most steps filterSteps returns for one pod
    MaxRetries,  \* most entries of status.retriesStatus
    MaxLines,    \* most lines one container writes
    MaxErrs      \* most errors one container's error channel carries

ASSUME ConstAssumption ==
    /\ NoPod \notin Pod
    /\ NSteps \in Nat
    /\ MaxRetries \in Nat
    /\ MaxLines \in Nat
    /\ MaxErrs \in Nat

\* The Log value "EOFLOG" sent after the last line of a step; real lines are
\* numbered from 1.
EOFLOG == 0

\* A log record Log{Task, Step, Log}; pod is the attempt it was read from.
LogRec == [pod : Pod, step : 1..NSteps, log : 0..MaxLines]

\* An error sent on errC, by the statement that sends it.
ErrKind == {"get", "read", "container", "status"}
ErrRec == [pod : Pod, kind : ErrKind]

\* The snapshot of the TaskRun that readTaskLog fetches: HasStarted,
\* isFailure, Status.PodName and the pod names of Status.RetriesStatus.
\* Pod names are unique, and an attempt was retried only if it started.
RetrySeq == UNION {[1..n -> Pod] : n \in 0..MaxRetries}
TaskRunSnapshot ==
    {t \in [started : BOOLEAN, failed : BOOLEAN,
            podName : Pod \cup {NoPod}, retries : RetrySeq] :
        /\ \A i, j \in DOMAIN t.retries : i # j => t.retries[i] # t.retries[j]
        /\ \A i \in DOMAIN t.retries : t.retries[i] # t.podName
        /\ t.retries # << >> => t.started}

VARIABLES
    tr,         \* the TaskRun snapshot
    stream,     \* r.stream # nil
    mainPc,     \* "start", "addA", "addB", "returned", "startErr"
    pPc,        \* "none", "run", "done" (podC closed)
    podIdx,     \* index of the next pod name to send on podC
    wg,         \* the WaitGroup counter of readPodLogs
    aPc,        \* "none", "run", "wait", "done" (errC closed)
    bPc,        \* "none", "recv", "get", "step", "stream", "done" (logC closed)
    cur,        \* the pod name B is reading
    nSteps,     \* len(steps) of that pod
    stepIdx,    \* the step readStepsLogs is at
    logOpen,    \* containerLogC != nil
    errOpen,    \* containerLogErrC != nil
    nLines,     \* lines read from containerLogC
    nErrs,      \* errors read from containerLogErrC
    out,        \* the records sent on logC, in order
    errs,       \* the errors sent on errC, in order
    panicked    \* a goroutine sent on a closed channel: the process died

bLocals == <<cur, nSteps, stepIdx, logOpen, errOpen, nLines, nErrs>>
vars == <<tr, stream, mainPc, pPc, podIdx, wg, aPc, bPc, bLocals,
          out, errs, panicked>>

logClosed == bPc = "done"
errClosed == aPc = "done"

-----------------------------------------------------------------------------
(* Helpers translated from the code.                                       *)

\* Mutant: the current pod is sent before the retries.
PodsToSendCurrentFirst ==
    IF tr.podName # NoPod THEN << tr.podName >> \o tr.retries ELSE << >>

\* The pod names the goroutine of readAvailableTaskLogs sends: the retries
\* oldest first, then the current pod.
PodsToSend == IF tr.podName # NoPod THEN tr.retries \o << tr.podName >> ELSE << >>

\* readAvailableTaskLogs returns a start error: not started, failed with no
\* error stream attached, or no pod name yet.
AvailableStartErr ==
    \/ ~tr.started
    \/ tr.failed /\ ~stream
    \/ tr.podName = NoPod

\* errC <- e: delivered, or a panic if errC has already been closed.
SendErr(e) ==
    IF errClosed THEN /\ panicked' = TRUE
                      /\ UNCHANGED errs
                 ELSE /\ errs' = Append(errs, e)
                      /\ UNCHANGED panicked

-----------------------------------------------------------------------------
Init ==
    /\ tr \in TaskRunSnapshot
    /\ stream \in BOOLEAN
    /\ mainPc = "start"
    /\ pPc = "none"
    /\ podIdx = 1
    /\ wg = 0
    /\ aPc = "none"
    /\ bPc = "none"
    /\ cur = NoPod
    /\ nSteps = 0
    /\ stepIdx = 1
    /\ logOpen = FALSE
    /\ errOpen = FALSE
    /\ nLines = 0
    /\ nErrs = 0
    /\ out = << >>
    /\ errs = << >>
    /\ panicked = FALSE

\* readTaskLog: GetTaskRun fails (a start error), or readAvailableTaskLogs
\* checks the snapshot and, if it may go on, starts the pod-name sender.
readTaskLog ==
    /\ mainPc = "start"
    /\ \/ mainPc' = "startErr" /\ UNCHANGED pPc
       \/ AvailableStartErr /\ mainPc' = "startErr" /\ UNCHANGED pPc
       \/ ~AvailableStartErr /\ mainPc' = "addA" /\ pPc' = "run"
    /\ UNCHANGED <<tr, stream, podIdx, wg, aPc, bPc, bLocals, out, errs, panicked>>

\* readPodLogs: wg.Add(1); go <first goroutine>.
spawnA ==
    /\ mainPc = "addA"
    /\ mainPc' = "addB"
    /\ wg' = wg + 1
    /\ aPc' = "run"
    /\ UNCHANGED <<tr, stream, pPc, podIdx, bPc, bLocals, out, errs, panicked>>

\* readPodLogs: wg.Add(1); go <second goroutine>; return logC, errC.
spawnB ==
    /\ mainPc = "addB"
    /\ mainPc' = "returned"
    /\ wg' = wg + 1
    /\ bPc' = "recv"
    /\ UNCHANGED <<tr, stream, pPc, podIdx, aPc, bLocals, out, errs, panicked>>

Main == readTaskLog \/ spawnA \/ spawnB

\* Mutant: the sender goroutine stalls before the last pod and never returns,
\* so its deferred close(podC) never runs.
sendPodStalls ==
    /\ pPc = "run"
    /\ podIdx < Len(PodsToSend)
    /\ bPc = "recv"
    /\ cur' = PodsToSend[podIdx]
    /\ podIdx' = podIdx + 1
    /\ bPc' = "get"
    /\ UNCHANGED <<tr, stream, mainPc, pPc, wg, aPc, nSteps, stepIdx, logOpen,
                   errOpen, nLines, nErrs, out, errs, panicked>>

\* podC <- name, received by `for podName := range podC`.
sendPod ==
    /\ pPc = "run"
    /\ podIdx <= Len(PodsToSend)
    /\ bPc = "recv"
    /\ cur' = PodsToSend[podIdx]
    /\ podIdx' = podIdx + 1
    /\ bPc' = "get"
    /\ UNCHANGED <<tr, stream, mainPc, pPc, wg, aPc, nSteps, stepIdx, logOpen,
                   errOpen, nLines, nErrs, out, errs, panicked>>

\* defer close(podC).
closePodC ==
    /\ pPc = "run"
    /\ podIdx > Len(PodsToSend)
    /\ pPc' = "done"
    /\ UNCHANGED <<tr, stream, mainPc, podIdx, wg, aPc, bPc, bLocals, out, errs, panicked>>

Producer == sendPod \/ closePodC

\* Mutant: wg.Done() both in the body and in a deferred call.
forwardDoneTwice ==
    /\ aPc = "run"
    /\ aPc' = "wait"
    /\ wg' = wg - 2
    /\ UNCHANGED <<tr, stream, mainPc, pPc, podIdx, bPc, bLocals, out, errs, panicked>>

\* First goroutine with podErrC = nil: wg.Done().
forwardDone ==
    /\ aPc = "run"
    /\ aPc' = "wait"
    /\ wg' = wg - 1
    /\ UNCHANGED <<tr, stream, mainPc, pPc, podIdx, bPc, bLocals, out, errs, panicked>>

\* wg.Wait(); close(errC).
closeErrC ==
    /\ aPc = "wait"
    /\ wg = 0
    /\ aPc' = "done"
    /\ UNCHANGED <<tr, stream, mainPc, pPc, podIdx, wg, bPc, bLocals, out, errs, panicked>>

ForwardErrors == forwardDone \/ closeErrC

\* p.Get(): on success filterSteps returns the pod's steps; on failure the
\* error is sent on errC and the empty pod the client returns has no steps.
getPod ==
    /\ bPc = "get"
    /\ \/ /\ \E n \in 0..NSteps : nSteps' = n
          /\ UNCHANGED <<errs, panicked>>
       \/ /\ SendErr([pod |-> cur, kind |-> "get"])
          /\ nSteps' = 0
    /\ stepIdx' = 1
    /\ bPc' = "step"
    /\ UNCHANGED <<tr, stream, mainPc, pPc, podIdx, wg, aPc, cur, logOpen, errOpen,
                   nLines, nErrs, out>>

\* readStepsLogs, head of the loop over the steps: a step that has not
\* started is skipped (follow is false); LogReader.Read() fails and the
\* error is sent; or the two container channels are opened.
readStep ==
    /\ bPc = "step"
    /\ stepIdx <= nSteps
    /\ \/ /\ stepIdx' = stepIdx + 1
          /\ UNCHANGED <<bPc, logOpen, errOpen, nLines, nErrs, errs, panicked>>
       \/ /\ SendErr([pod |-> cur, kind |-> "read"])
          /\ stepIdx' = stepIdx + 1
          /\ UNCHANGED <<bPc, logOpen, errOpen, nLines, nErrs>>
       \/ /\ bPc' = "stream"
          /\ logOpen' = TRUE
          /\ errOpen' = TRUE
          /\ nLines' = 0
          /\ nErrs' = 0
          /\ UNCHANGED <<stepIdx, errs, panicked>>
    /\ UNCHANGED <<tr, stream, mainPc, pPc, podIdx, wg, aPc, cur, nSteps, out>>

\* readStepsLogs returns after the last step; the range loop takes the next pod.
stepsDone ==
    /\ bPc = "step"
    /\ stepIdx > nSteps
    /\ bPc' = "recv"
    /\ UNCHANGED <<tr, stream, mainPc, pPc, podIdx, wg, aPc, bLocals, out, errs, panicked>>

\* select: a line from containerLogC is sent on logC.
readLine ==
    /\ bPc = "stream"
    /\ logOpen
    /\ nLines < MaxLines
    /\ nLines' = nLines + 1
    /\ out' = Append(out, [pod |-> cur, step |-> stepIdx, log |-> nLines + 1])
    /\ UNCHANGED <<tr, stream, mainPc, pPc, podIdx, wg, aPc, bPc, cur, nSteps,
                   stepIdx, logOpen, errOpen, nErrs, errs, panicked>>

\* select: containerLogC is closed; containerLogC = nil and EOFLOG is sent.
readLogEOF ==
    /\ bPc = "stream"
    /\ logOpen
    /\ logOpen' = FALSE
    /\ out' = Append(out, [pod |-> cur, step |-> stepIdx, log |-> EOFLOG])
    /\ UNCHANGED <<tr, stream, mainPc, pPc, podIdx, wg, aPc, bPc, cur, nSteps,
                   stepIdx, errOpen, nLines, nErrs, errs, panicked>>

\* select: an error from containerLogErrC is sent on errC.
readContainerErr ==
    /\ bPc = "stream"
    /\ errOpen
    /\ nErrs < MaxErrs
    /\ nErrs' = nErrs + 1
    /\ SendErr([pod |-> cur, kind |-> "container"])
    /\ UNCHANGED <<tr, stream, mainPc, pPc, podIdx, wg, aPc, bPc, cur, nSteps,
                   stepIdx, logOpen, errOpen, nLines, out>>

\* select: containerLogErrC is closed; containerLogErrC = nil.
readErrEOF ==
    /\ bPc = "stream"
    /\ errOpen
    /\ errOpen' = FALSE
    /\ UNCHANGED <<tr, stream, mainPc, pPc, podIdx, wg, aPc, bPc, cur, nSteps,
                   stepIdx, logOpen, nLines, nErrs, out, errs, panicked>>

\* Both container channels are nil: container.Status(); on an error it is
\* sent and readStepsLogs returns, skipping the pod's remaining steps.
stepStatus ==
    /\ bPc = "stream"
    /\ ~logOpen
    /\ ~errOpen
    /\ \/ /\ stepIdx' = stepIdx + 1
          /\ bPc' = "step"
          /\ UNCHANGED <<errs, panicked>>
       \/ /\ SendErr([pod |-> cur, kind |-> "status"])
          /\ bPc' = "recv"
          /\ UNCHANGED stepIdx
    /\ UNCHANGED <<tr, stream, mainPc, pPc, podIdx, wg, aPc, cur, nSteps, logOpen,
                   errOpen, nLines, nErrs, out>>

\* podC is closed: the range loop ends; defer close(logC); wg.Done().
closeLogC ==
    /\ bPc = "recv"
    /\ pPc = "done"
    /\ bPc' = "done"
    /\ wg' = wg - 1
    /\ UNCHANGED <<tr, stream, mainPc, pPc, podIdx, aPc, bLocals, out, errs, panicked>>

ReadPods ==
    \/ getPod \/ readStep \/ stepsDone \/ readLine \/ readLogEOF
    \/ readContainerErr \/ readErrEOF \/ stepStatus \/ closeLogC

\* Nothing runs once a goroutine has panicked.
Next ==
    /\ ~panicked
    /\ Main \/ Producer \/ ForwardErrors \/ ReadPods

\* The Go scheduler eventually runs every goroutine that can run.
Spec ==
    /\ Init
    /\ [][Next]_vars
    /\ WF_vars(~panicked /\ Main)
    /\ WF_vars(~panicked /\ Producer)
    /\ WF_vars(~panicked /\ ForwardErrors)
    /\ WF_vars(~panicked /\ ReadPods)

-----------------------------------------------------------------------------
(* Properties.                                                              *)

\* Every variable of readTaskLog, its goroutines and its channels keeps its
\* type; in particular the WaitGroup counter never goes negative.
TypeOK ==
    /\ tr \in TaskRunSnapshot
    /\ stream \in BOOLEAN
    /\ mainPc \in {"start", "addA", "addB", "returned", "startErr"}
    /\ pPc \in {"none", "run", "done"}
    /\ podIdx \in 1..(MaxRetries + 2)
    /\ wg \in 0..2
    /\ aPc \in {"none", "run", "wait", "done"}
    /\ bPc \in {"none", "recv", "get", "step", "stream", "done"}
    /\ cur \in Pod \cup {NoPod}
    /\ nSteps \in 0..NSteps
    /\ stepIdx \in 1..(NSteps + 1)
    /\ logOpen \in BOOLEAN
    /\ errOpen \in BOOLEAN
    /\ nLines \in 0..MaxLines
    /\ nErrs \in 0..MaxErrs
    /\ out \in Seq(LogRec)
    /\ errs \in Seq(ErrRec)
    /\ panicked \in BOOLEAN

\* The attempt number of a pod: its place in status.retriesStatus, the
\* current pod last (spec: "retries oldest-first, then status.pod_name").
AttemptOf(t, p) ==
    IF p = t.podName THEN Len(t.retries) + 1
    ELSE CHOOSE i \in DOMAIN t.retries : t.retries[i] = p

\* Where a record belongs in the order of the stream: <<attempt, step, line>>,
\* with EOFLOG after every line of its step; keys compare lexicographically.
LineRank(l) == IF l = EOFLOG THEN MaxLines + 1 ELSE l
Key(t, r) == << AttemptOf(t, r.pod), r.step, LineRank(r.log) >>
KeyLess(k, l) ==
    \/ k[1] < l[1]
    \/ k[1] = l[1] /\ k[2] < l[2]
    \/ k[1] = l[1] /\ k[2] = l[2] /\ k[3] < l[3]

\* The records readStepsLogs sends on logC are strictly ordered by attempt
\* (oldest retry first, current pod last), then by step, then by line, and
\* each step's EOFLOG comes once, after its last line: the ordering
\* guarantees of the pod sender, the range loop and the select loop together.
LogOrder ==
    \A i, j \in DOMAIN out : i < j => KeyLess(Key(tr, out[i]), Key(tr, out[j]))

\* The reader ends: it returns a start error, or both logC and errC get
\* closed (or a goroutine died on a send on a closed channel), so the
\* caller's drain loop terminates.
Termination ==
    <>(mainPc = "startErr" \/ (logClosed /\ errClosed) \/ panicked)

\* No goroutine sends on errC after it has been closed: readPodLogs closes
\* errC only once the goroutine that reads the pods has finished.
NoSendOnClosedErrC == ~panicked

-----------------------------------------------------------------------------
(* The inductive invariant behind LogOrder.  Cursor is the least key the   *)
(* next record on logC can carry: it only grows, and every record sent so  *)
(* far is below it.                                                         *)

Cursor ==
    IF bPc = "get" THEN << podIdx - 1, 0, 0 >>
    ELSE IF bPc = "step" THEN << podIdx - 1, stepIdx, 0 >>
    ELSE IF bPc = "stream" /\ logOpen THEN << podIdx - 1, stepIdx, nLines + 1 >>
    ELSE IF bPc = "stream" THEN << podIdx - 1, stepIdx, MaxLines + 2 >>
    ELSE << podIdx, 0, 0 >>

\* The WaitGroup counts the goroutines of readPodLogs still running.
WgCount ==
    wg = (IF aPc = "run" THEN 1 ELSE 0)
         + (IF bPc \in {"recv", "get", "step", "stream"} THEN 1 ELSE 0)

\* readPodLogs starts its goroutines in order, each once.
SpawnOrder ==
    /\ mainPc \in {"start", "startErr", "addA"} => aPc = "none"
    /\ mainPc \in {"start", "startErr", "addA", "addB"} => bPc = "none"

\* The pod the reading goroutine works on is the last one sent.
CurSent ==
    /\ podIdx <= Len(PodsToSend) + 1
    /\ bPc \in {"get", "step", "stream"} =>
          /\ podIdx >= 2
          /\ cur = PodsToSend[podIdx - 1]
    /\ bPc = "stream" => stepIdx <= nSteps

\* Every record sent so far is below the cursor.
BelowCursor ==
    \A i \in DOMAIN out : /\ Key(tr, out[i]) \in Nat \X Nat \X Nat
                         /\ KeyLess(Key(tr, out[i]), Cursor)

\* The inductive invariant behind LogOrder: the WaitGroup counts the running
\* goroutines of readPodLogs, they start in order, the reading goroutine
\* works on the last pod sent, and every record sent is below the cursor.
IInv == TypeOK /\ WgCount /\ SpawnOrder /\ CurSent /\ BelowCursor /\ LogOrder

=============================================================================
