----------------------------- MODULE PodWatcher -----------------------------
(***************************************************************************)
(* pods.Pod.Wait (pkg/pods/pod.go): wait until a pod is readable or has    *)
(* failed.  Three actors share two channels and a mutex:                  *)
(*   - the goroutine that calls Wait: Get probe, watcher(), the range over *)
(*     eventC, then the deferred Lock / close(stopC) / close(eventC);     *)
(*   - the informer's handler goroutine (one processorListener), which    *)
(*     calls AddFunc / UpdateFunc / DeleteFunc one notification at a time: *)
(*     Lock, select on stopC, else a blocking send on eventC, Unlock;     *)
(*   - the cluster, which changes the pod while the informer runs.        *)
(* eventC is unbuffered: a send is a joint step of the handler and of the  *)
(* receiving loop of Wait.                                                 *)
(***************************************************************************)
EXTENDS Naturals, Sequences

\* The number of notifications the cluster produces in a behaviour.
CONSTANT MaxEvents

ASSUME MaxEventsAssumption == MaxEvents \in Nat

(* A notification, abstracted to what checkPodStatus and the handlers tell  *)
(* apart: a pod still pending, a pod running / succeeded / failed, a pod    *)
(* with a deletion timestamp, a pod whose Initialized or ContainersReady    *)
(* condition is Unknown (image pull failure), and the tombstone            *)
(* (cache.DeletedFinalStateUnknown) DeleteFunc receives when the watch     *)
(* missed the final state of the deleted pod.                              *)
PodEvent == {"pending", "ready", "deleting", "pullFail", "tombstone"}

\* What Wait returns: nothing yet, (pod, nil), (pod, err), or the error of
\* the Get probe.
Result == {"none", "pod", "podErr", "getErr"}

VARIABLES
    wPc,          \* the goroutine in Wait
    res,          \* the (pod, err) pair of the last checkPodStatus
    hPc,          \* the informer's handler goroutine
    hEv,          \* the notification the handler is delivering
    mu,           \* the holder of mu outside deferClose: "none" or "handler"
    stopClosed,   \* close(stopC) has run
    eventClosed,  \* close(eventC) has run
    history,      \* the notifications the cluster has produced, in order
    hNext,        \* the index in history of the next one to deliver
    panic         \* "none", or why a goroutine panicked

vars == <<wPc, res, hPc, hEv, mu, stopClosed, eventClosed, history, hNext, panic>>

-----------------------------------------------------------------------------
(* checkPodStatus(obj) for an object that is a *corev1.Pod.                 *)
CheckPodStatus(e) ==
    IF e = "ready" THEN "pod"
    ELSE IF e \in {"deleting", "pullFail"} THEN "podErr"
    ELSE "none"

Init ==
    /\ wPc = "get"
    /\ res = "none"
    /\ hPc = "idle"
    /\ hEv = "pending"
    /\ mu = "none"
    /\ stopClosed = FALSE
    /\ eventClosed = FALSE
    /\ history = << >>
    /\ hNext = 1
    /\ panic = "none"

\* Wait: the Get probe; on an error Wait returns (nil, err) at once.
waitGet ==
    /\ wPc = "get"
    /\ \/ wPc' = "watch" /\ UNCHANGED res
       \/ wPc' = "returned" /\ res' = "getErr"
    /\ UNCHANGED <<hPc, hEv, mu, stopClosed, eventClosed, history, hNext, panic>>

\* Wait calls watcher: AddEventHandler, factory.Start(stopC),
\* WaitForCacheSync(stopC); then the range over eventC begins.
waitWatch ==
    /\ wPc = "watch"
    /\ wPc' = "recv"
    /\ UNCHANGED <<res, hPc, hEv, mu, stopClosed, eventClosed, history, hNext, panic>>

\* Mutant: the deferred function closes the channels without taking mu.
deferCloseNoLock ==
    /\ wPc = "defer"
    /\ stopClosed' = TRUE
    /\ eventClosed' = TRUE
    /\ wPc' = "returned"
    /\ UNCHANGED <<res, hPc, hEv, mu, history, hNext, panic>>

\* Wait's deferred function: mu.Lock(); close(stopC); close(eventC);
\* mu.Unlock().  The handler cannot run while mu is held, so the four
\* calls are one step.
deferClose ==
    /\ wPc = "defer"
    /\ mu = "none"
    /\ stopClosed' = TRUE
    /\ eventClosed' = TRUE
    /\ wPc' = "returned"
    /\ UNCHANGED <<res, hPc, hEv, mu, history, hNext, panic>>

\* The cluster changes the pod; the informer runs from factory.Start until
\* stopC is closed.
podChange ==
    /\ wPc \in {"recv", "defer"}
    /\ ~stopClosed
    /\ Len(history) < MaxEvents
    /\ \E e \in PodEvent : history' = Append(history, e)
    /\ UNCHANGED <<wPc, res, hPc, hEv, mu, stopClosed, eventClosed, hNext, panic>>

\* Mutant: the handler is given the newest notification, not the next one.
handlerLockNewest ==
    /\ hPc = "idle"
    /\ hNext <= Len(history)
    /\ mu = "none"
    /\ mu' = "handler"
    /\ hEv' = history[Len(history)]
    /\ hNext' = Len(history) + 1
    /\ hPc' = "locked"
    /\ UNCHANGED <<wPc, res, stopClosed, eventClosed, history, panic>>

\* The processorListener takes the next notification and calls the handler,
\* which starts with mu.Lock().
handlerLock ==
    /\ hPc = "idle"
    /\ hNext <= Len(history)
    /\ mu = "none"
    /\ mu' = "handler"
    /\ hEv' = history[hNext]
    /\ hNext' = hNext + 1
    /\ hPc' = "locked"
    /\ UNCHANGED <<wPc, res, stopClosed, eventClosed, history, panic>>

\* select: stopC is closed, so the handler returns and its deferred Unlock
\* runs; otherwise the default branch logs obj.(*corev1.Pod).Name, which
\* panics on a tombstone, and goes on to the send on eventC.
handlerSelect ==
    /\ hPc = "locked"
    /\ \/ /\ stopClosed
          /\ mu' = "none"
          /\ hPc' = "idle"
          /\ UNCHANGED panic
       \/ /\ ~stopClosed
          /\ hEv = "tombstone"
          /\ panic' = "cast"
          /\ UNCHANGED <<mu, hPc>>
       \/ /\ ~stopClosed
          /\ hEv # "tombstone"
          /\ hPc' = "send"
          /\ UNCHANGED <<mu, panic>>
    /\ UNCHANGED <<wPc, res, hEv, stopClosed, eventClosed, history, hNext>>

\* eventC <- obj: it blocks until the range loop of Wait receives it (were
\* eventC closed, the send would panic: NoSendOnClosedEventC says it is not).  Wait runs checkPodStatus and breaks out
\* of the loop when it returns a pod or an error; the handler unlocks mu.
handlerSend ==
    /\ hPc = "send"
    /\ wPc = "recv"
    /\ res' = CheckPodStatus(hEv)
    /\ wPc' = IF res' # "none" THEN "defer" ELSE "recv"
    /\ mu' = "none"
    /\ hPc' = "idle"
    /\ UNCHANGED <<hEv, stopClosed, eventClosed, history, hNext, panic>>

WaitSteps == waitGet \/ waitWatch \/ deferClose
Handler == handlerLock \/ handlerSelect \/ handlerSend

\* A panic in either goroutine ends the process.
Next ==
    /\ panic = "none"
    /\ WaitSteps \/ Handler \/ podChange

\* The scheduler runs the goroutine of Wait and the informer's goroutine
\* when they can run; the cluster owes no further change to the pod.
Spec ==
    /\ Init
    /\ [][Next]_vars
    /\ WF_vars(panic = "none" /\ WaitSteps)
    /\ WF_vars(panic = "none" /\ Handler)

-----------------------------------------------------------------------------
(* Properties.                                                              *)

\* Every variable of Wait, of the handler and of the informer keeps its type.
TypeOK ==
    /\ wPc \in {"get", "watch", "recv", "defer", "returned"}
    /\ res \in Result
    /\ hPc \in {"idle", "locked", "send"}
    /\ hEv \in PodEvent
    /\ mu \in {"none", "handler"}
    /\ stopClosed \in BOOLEAN
    /\ eventClosed \in BOOLEAN
    /\ history \in Seq(PodEvent)
    /\ Len(history) <= MaxEvents
    /\ hNext \in 1..(Len(history) + 1)
    /\ panic \in {"none", "cast"}

\* The handlers never send on eventC after Wait has closed it: the send is
\* made holding mu after seeing stopC open, and the deferred function of
\* Wait closes stopC and eventC holding mu.
NoSendOnClosedEventC == hPc = "send" => ~eventClosed

\* Wait returns the verdict of the first notification that is not a pending
\* pod, in the order the cluster produced them: the informer delivers them
\* in order and the range loop stops at the first pod or error.
FirstVerdict ==
    wPc = "returned" /\ res # "getErr" =>
        \E i \in DOMAIN history :
            /\ \A j \in 1..(i - 1) : CheckPodStatus(history[j]) = "none"
            /\ res = CheckPodStatus(history[i])
            /\ res # "none"

\* Once the range loop has a verdict, Wait returns (unless the process has
\* panicked): the spec's pod watcher "observes a single named workload
\* object ... until it reaches a terminal-or-readable state, or fails".
WaitReturns == wPc = "defer" ~> (wPc = "returned" \/ panic # "none")

\* No handler panics: DeleteFunc is also called with tombstones, and the
\* code logs obj.(*corev1.Pod).Name before checkPodStatus can reject them.
NoHandlerPanic == panic # "cast"
=============================================================================
