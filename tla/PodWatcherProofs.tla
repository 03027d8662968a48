------------------------- MODULE PodWatcherProofs --------------------------
(***************************************************************************)
(* Proofs about PodWatcher for every bound on the notifications: the       *)
(* handler of the informer never sends on the closed eventC, Wait          *)
(* returns the verdict of the first notification that is not pending.      *)
(***************************************************************************)
EXTENDS PodWatcher, TLAPS

USE MaxEventsAssumption

(* The protocol of mu and stopC that makes the send safe: the handler holds *)
(* mu exactly while it is between Lock and Unlock; Wait closes the two      *)
(* channels together; and a handler blocked on the send saw stopC open.    *)
MuHeld == hPc \in {"locked", "send"} <=> mu = "handler"
ClosedTogether == eventClosed = stopClosed
SendSawOpen == hPc = "send" => ~stopClosed

IInv == TypeOK /\ MuHeld /\ ClosedTogether /\ SendSawOpen

\* The initial state of Wait satisfies the invariant.
THEOREM IInvInit == Init => IInv
<1> SUFFICES ASSUME Init PROVE IInv
  OBVIOUS
<1>1. history \in Seq(PodEvent) /\ Len(history) = 0
  BY DEF Init
<1>2. hNext \in 1..(Len(history) + 1)
  BY <1>1 DEF Init
<1>3. Len(history) <= MaxEvents
  BY <1>1
<1>4. TypeOK
  BY <1>1, <1>2, <1>3 DEF Init, TypeOK, PodEvent, Result
<1>5. MuHeld /\ ClosedTogether /\ SendSawOpen
  BY DEF Init, MuHeld, ClosedTogether, SendSawOpen
<1>. QED
  BY <1>4, <1>5 DEF IInv

\* Every step of Wait, of the handler and of the cluster preserves it.
THEOREM IInvStep == IInv /\ [Next]_vars => IInv'
<1> SUFFICES ASSUME IInv, [Next]_vars PROVE IInv'
  OBVIOUS
<1> USE DEF IInv, TypeOK, MuHeld, ClosedTogether, SendSawOpen
<1>1. CASE waitGet
  BY <1>1 DEF waitGet, Result
<1>2. CASE waitWatch
  BY <1>2 DEF waitWatch
<1>3. CASE deferClose
  BY <1>3 DEF deferClose
<1>4. CASE podChange
  BY <1>4 DEF podChange, PodEvent
<1>5. CASE handlerLock
  BY <1>5 DEF handlerLock
<1>6. CASE handlerSelect
  BY <1>6 DEF handlerSelect
<1>7. CASE handlerSend
  <2>1. CheckPodStatus(hEv) \in Result
    BY DEF CheckPodStatus, Result
  <2>. QED
    BY <1>7, <2>1 DEF handlerSend
<1>8. CASE UNCHANGED vars
  BY <1>8 DEF vars
<1>. QED
  BY <1>1, <1>2, <1>3, <1>4, <1>5, <1>6, <1>7, <1>8 DEF Next, WaitSteps, Handler

\* The handler never blocks sending on eventC once Wait's deferred function
\* has closed it, whatever the number of notifications and the interleaving
\* of the two goroutines.
THEOREM SendSafe == Spec => []NoSendOnClosedEventC
<1>1. IInv => NoSendOnClosedEventC
  BY DEF IInv, ClosedTogether, SendSawOpen, NoSendOnClosedEventC
<1>. QED
  BY <1>1, IInvInit, IInvStep, PTL DEF Spec

-----------------------------------------------------------------------------
(* Why Wait returns the first verdict.  Nothing is delivered before the    *)
(* range loop starts; the handler's notification is the last one it took;  *)
(* while the loop runs, every notification delivered so far was pending;   *)
(* once it has broken, its result is the first verdict of the history.     *)

\* The number of notifications the handler has finished with.
Delivered == IF hPc = "idle" THEN hNext - 1 ELSE hNext - 2

\* The body of FirstVerdict for a history h: r is the verdict of the first
\* notification of h that is not pending.
FirstIn(h, r) ==
    \E i \in DOMAIN h :
        /\ \A j \in 1..(i - 1) : CheckPodStatus(h[j]) = "none"
        /\ r = CheckPodStatus(h[i])
        /\ r # "none"

NothingBeforeRecv ==
    wPc \in {"get", "watch"} =>
        history = << >> /\ hNext = 1 /\ hPc = "idle" /\ res = "none" /\ ~stopClosed

CurrentEvent ==
    hPc # "idle" => hNext >= 2 /\ hEv = history[hNext - 1]

RecvAllPending ==
    wPc = "recv" =>
        /\ res = "none" /\ ~stopClosed
        /\ \A j \in 1..Delivered : CheckPodStatus(history[j]) = "none"

VerdictKept ==
    wPc \in {"defer", "returned"} /\ res # "getErr" => FirstIn(history, res)

FVInv == IInv /\ NothingBeforeRecv /\ CurrentEvent /\ RecvAllPending /\ VerdictKept

\* A notification appended to the history does not change its first verdict.
LEMMA FirstInAppend ==
    ASSUME NEW h \in Seq(PodEvent), NEW e \in PodEvent, NEW r, FirstIn(h, r)
    PROVE  FirstIn(Append(h, e), r)
<1>1. PICK i \in DOMAIN h :
          /\ \A j \in 1..(i - 1) : CheckPodStatus(h[j]) = "none"
          /\ r = CheckPodStatus(h[i])
          /\ r # "none"
  BY DEF FirstIn
<1>2. /\ i \in DOMAIN Append(h, e)
      /\ \A j \in 1..i : Append(h, e)[j] = h[j]
  BY <1>1
<1>. QED
  BY <1>1, <1>2 DEF FirstIn

\* The initial state satisfies the strengthened invariant.
THEOREM FVInit == Init => FVInv
<1> SUFFICES ASSUME Init PROVE FVInv
  OBVIOUS
<1>1. IInv
  BY IInvInit
<1>. QED
  BY <1>1 DEF Init, FVInv, NothingBeforeRecv, CurrentEvent, RecvAllPending, VerdictKept

\* Every step of Wait, of the handler and of the cluster preserves it.
THEOREM FVStep == FVInv /\ [Next]_vars => FVInv'
<1> SUFFICES ASSUME FVInv, [Next]_vars
             PROVE  (NothingBeforeRecv /\ CurrentEvent /\ RecvAllPending /\ VerdictKept)'
  BY IInvStep DEF FVInv
<1> USE DEF FVInv, IInv, TypeOK
<1>1. CASE waitGet
  BY <1>1 DEF waitGet, NothingBeforeRecv, CurrentEvent, RecvAllPending, VerdictKept
<1>2. CASE waitWatch
  BY <1>2 DEF waitWatch, NothingBeforeRecv, CurrentEvent, RecvAllPending, VerdictKept,
     Delivered
<1>3. CASE deferClose
  BY <1>3 DEF deferClose, NothingBeforeRecv, CurrentEvent, RecvAllPending, VerdictKept
<1>4. CASE podChange
  <2>1. PICK e \in PodEvent : history' = Append(history, e)
    BY <1>4 DEF podChange
  <2>2. UNCHANGED <<wPc, res, hPc, hEv, hNext, stopClosed>>
    BY <1>4 DEF podChange
  <2>3. \A j \in 1..(hNext - 1) : history'[j] = history[j]
    BY <2>1
  <2>4. NothingBeforeRecv'
    BY <1>4, <2>2 DEF podChange, NothingBeforeRecv
  <2>5. CurrentEvent'
    BY <2>2, <2>3 DEF CurrentEvent
  <2>6. RecvAllPending'
    BY <2>2, <2>3 DEF RecvAllPending, Delivered
  <2>7. VerdictKept'
    <3>1. FirstIn(history, res) => FirstIn(Append(history, e), res)
      BY FirstInAppend
    <3>. QED
      BY <2>1, <2>2, <3>1 DEF VerdictKept
  <2>. QED
    BY <2>4, <2>5, <2>6, <2>7
<1>5. CASE handlerLock
  <2>1. wPc \notin {"get", "watch"}
    BY <1>5 DEF handlerLock, NothingBeforeRecv
  <2>. QED
    BY <1>5, <2>1 DEF handlerLock, NothingBeforeRecv, CurrentEvent, RecvAllPending,
       VerdictKept, Delivered
<1>6. CASE handlerSelect
  <2>1. wPc \notin {"get", "watch"}
    BY <1>6 DEF handlerSelect, NothingBeforeRecv
  <2>2. stopClosed => wPc # "recv"
    BY DEF RecvAllPending
  <2>. QED
    BY <1>6, <2>1, <2>2 DEF handlerSelect, NothingBeforeRecv, CurrentEvent, RecvAllPending,
       VerdictKept, Delivered
<1>7. CASE handlerSend
  <2>1. /\ hPc = "send" /\ wPc = "recv" /\ hNext >= 2 /\ hEv = history[hNext - 1]
        /\ hNext - 1 \in DOMAIN history
        /\ \A j \in 1..(hNext - 2) : CheckPodStatus(history[j]) = "none"
        /\ ~stopClosed
    BY <1>7 DEF handlerSend, CurrentEvent, RecvAllPending, Delivered
  <2>2. /\ res' = CheckPodStatus(hEv) /\ hPc' = "idle"
        /\ UNCHANGED <<hEv, hNext, history, stopClosed>>
    BY <1>7 DEF handlerSend
  <2>3. CheckPodStatus(hEv) \in {"none", "pod", "podErr"}
    BY DEF CheckPodStatus
  <2>4. CASE CheckPodStatus(hEv) # "none"
    <3>1. wPc' = "defer"
      BY <1>7, <2>2, <2>4 DEF handlerSend
    <3>2. FirstIn(history, CheckPodStatus(hEv))
      BY <2>1, <2>4 DEF FirstIn
    <3>. QED
      BY <2>2, <2>3, <3>1, <3>2 DEF NothingBeforeRecv, CurrentEvent, RecvAllPending,
         VerdictKept
  <2>5. CASE CheckPodStatus(hEv) = "none"
    <3>1. wPc' = "recv"
      BY <1>7, <2>2, <2>5 DEF handlerSend
    <3>2. \A j \in 1..(hNext - 1) : CheckPodStatus(history[j]) = "none"
      BY <2>1, <2>5
    <3>3. Delivered' = hNext - 1
      BY <2>2 DEF Delivered
    <3>4. RecvAllPending'
      BY <2>1, <2>2, <2>5, <3>1, <3>2, <3>3 DEF RecvAllPending
    <3>5. (NothingBeforeRecv /\ CurrentEvent /\ VerdictKept)'
      BY <2>2, <3>1 DEF NothingBeforeRecv, CurrentEvent, VerdictKept
    <3>. QED
      BY <3>4, <3>5
  <2>. QED
    BY <2>4, <2>5
<1>8. CASE UNCHANGED vars
  BY <1>8 DEF vars, NothingBeforeRecv, CurrentEvent, RecvAllPending, VerdictKept, Delivered,
     FirstIn
<1>. QED
  BY <1>1, <1>2, <1>3, <1>4, <1>5, <1>6, <1>7, <1>8 DEF Next, WaitSteps, Handler

\* Wait returns the verdict of the first notification that is not pending,
\* in the order the informer delivered them, whatever the number of
\* notifications and however the handler and the range loop interleave.
THEOREM FirstVerdictSafe == Spec => []FirstVerdict
<1>1. FVInv => FirstVerdict
  BY DEF FVInv, VerdictKept, FirstIn, FirstVerdict
<1>. QED
  BY <1>1, FVInit, FVStep, PTL DEF Spec

\* Type correctness of the model of Wait.
THEOREM TypeCorrect == Spec => []TypeOK
BY IInvInit, IInvStep, PTL DEF Spec, IInv
=============================================================================
