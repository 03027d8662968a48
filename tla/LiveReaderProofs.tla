------------------------- MODULE LiveReaderProofs --------------------------
(***************************************************************************)
(* Proofs about LiveReader for every number of retries and steps: in live  *)
(* mode nothing is sent on a closed errC, the pods are read once each and  *)
(* in attempt order (a refinement of PodReading), and the EOFLOG records   *)
(* come pod by pod and step by step.                                       *)
(***************************************************************************)
EXTENDS LiveReader, TLAPS

USE LiveConstAssumption

\* A send on errC that is still open counts one more error and no panic.
LEMMA SendErrOpen ==
    ASSUME ~errClosed, SendErr
    PROVE  errs' = errs + 1 /\ panic' = panic
BY DEF SendErr

\* The attempts of a snapshot, in order, are an increasing sequence of
\* attempts.
LEMMA PodsOfType ==
    ASSUME NEW s \in Snap
    PROVE  /\ PodsOf(s) \in Seq(Attempt)
           /\ Increasing(PodsOf(s))
           /\ \A i \in DOMAIN PodsOf(s) : PodsOf(s)[i] \in 1..s.nAtt
BY DEF PodsOf, Snap, Attempt, MaxAttempts, Increasing

\* What the watch queue owes to D's run and to the cluster.
WqBound(q, c) ==
    /\ q \in Seq(WatchEvent)
    /\ \A i \in DOMAIN q : run.nAtt <= q[i].snap.nAtt /\ q[i].snap.nAtt <= c.nAtt
    /\ \A i, j \in DOMAIN q : i < j => q[i].snap.nAtt <= q[j].snap.nAtt

\* The attempts of a queued event are a number.
LEMMA WqNat ==
    ASSUME NEW q \in Seq(WatchEvent)
    PROVE  \A i \in DOMAIN q : q[i].snap.nAtt \in Nat
<1>1. \A i \in DOMAIN q : q[i] \in WatchEvent
  OBVIOUS
<1>2. \A e \in WatchEvent : e.snap.nAtt \in Nat
  BY DEF WatchEvent, Snap, MaxAttempts
<1>. QED
  BY <1>1, <1>2

\* Appending the cluster's object, whose attempts are at least those of
\* everything queued, keeps the queue in order.
LEMMA WqAppend ==
    ASSUME NEW c \in Snap, NEW c2 \in Snap, NEW b \in BOOLEAN,
           run \in Snap, WqBound(wq, c), run.nAtt <= c.nAtt, c.nAtt <= c2.nAtt
    PROVE  WqBound(Append(wq, [ok |-> b, snap |-> c2]), c2)
<1>1. [ok |-> b, snap |-> c2] \in WatchEvent
  BY DEF WatchEvent
<1>2. c.nAtt \in Nat /\ c2.nAtt \in Nat /\ run.nAtt \in Nat
  BY DEF Snap, MaxAttempts
<1>3. \A i \in DOMAIN wq : wq[i].snap.nAtt \in Nat
  <2>1. wq \in Seq(WatchEvent)
    BY DEF WqBound
  <2>. QED
    BY <2>1, WqNat
<1>. QED
  BY <1>1, <1>2, <1>3 DEF WqBound

\* A change of the TaskRun in the cluster: its number of attempts does not
\* go down, and the watch delivers the new object in order.
LEMMA ChangeStep ==
    ASSUME IInv, NEW new \in Snap, cl.nAtt <= new.nAtt, Change(new),
           UNCHANGED <<mainPc, dPc, dVars, sentSeq, wg, aPc, bPc, bVars, out, errs, panic>>
    PROVE  IInv'
<1>1. cl' = new /\ UNCHANGED <<settled, watchOK>>
  BY DEF Change
<1>2. WqBound(wq, cl) /\ run \in Snap /\ cl \in Snap /\ run.nAtt <= cl.nAtt
  BY DEF IInv, TypeOK, PodMapBound, WqBound
<1>3. WqBound(wq', new)
  <2>1. CASE watchOK
    <3>1. wq' = Append(wq, [ok |-> TRUE, snap |-> new])
      BY <2>1 DEF Change
    <3>. QED
      BY <1>2, <3>1, WqAppend
  <2>2. CASE ~watchOK
    <3>1. wq' = wq
      BY <2>2 DEF Change
    <3>2. cl.nAtt \in Nat /\ new.nAtt \in Nat
      BY <1>2 DEF Snap, MaxAttempts
    <3>3. \A i \in DOMAIN wq : wq[i].snap.nAtt \in Nat
      BY <1>2, WqNat DEF WqBound
    <3>. QED
      BY <1>2, <3>1, <3>2, <3>3 DEF WqBound
  <2>. QED
    BY <2>1, <2>2
<1>4. TypeOK'
  BY <1>1, <1>3 DEF IInv, TypeOK, WqBound, dVars, bVars
<1>5. (WgCount /\ SpawnOrder /\ ErrCAfterPods /\ NoSendOnClosedErrC)'
  <2>1. ~watchOK => wq' = wq
    BY DEF Change
  <2>. QED
    BY <1>1, <2>1 DEF IInv, WgCount, SpawnOrder, ErrCAfterPods, NoSendOnClosedErrC
<1>6. (PodMapBound /\ QueueOrder /\ PodsInOrder)'
  <2>1. run.nAtt <= new.nAtt
    BY <1>2 DEF Snap, MaxAttempts
  <2>. QED
    BY <1>1, <1>3, <2>1 DEF IInv, PodMapBound, QueueOrder, PodsInOrder, Increasing, dVars, WqBound
<1>. QED
  BY <1>4, <1>5, <1>6 DEF IInv

\* Every step of the cluster preserves the invariant.
LEMMA ClusterStep ==
    ASSUME IInv, Cluster
    PROVE  IInv'
<1>1. UNCHANGED <<mainPc, dPc, dVars, sentSeq, wg, aPc, bPc, bVars, out, errs, panic>>
  BY DEF Cluster
<1>2. cl \in Snap /\ cl.nAtt \in 0..MaxAttempts
  BY DEF IInv, TypeOK, Snap
<1>3. CASE clStart
  <2>1. [cl EXCEPT !.started = TRUE] \in Snap
    BY <1>2 DEF Snap
  <2>2. Change([cl EXCEPT !.started = TRUE])
    BY <1>3 DEF clStart
  <2>3. cl.nAtt <= [cl EXCEPT !.started = TRUE].nAtt
    BY <1>2 DEF Snap
  <2>. QED
    BY <1>1, <2>1, <2>2, <2>3, ChangeStep
<1>4. CASE clNewPod
  <2>1. [cl EXCEPT !.nAtt = @ + 1] \in Snap
    BY <1>2, <1>4 DEF clNewPod, Snap, MaxAttempts
  <2>2. Change([cl EXCEPT !.nAtt = @ + 1])
    BY <1>4 DEF clNewPod
  <2>3. cl.nAtt <= [cl EXCEPT !.nAtt = @ + 1].nAtt
    BY <1>2 DEF Snap, MaxAttempts
  <2>. QED
    BY <1>1, <2>1, <2>2, <2>3, ChangeStep
<1>5. CASE clFinish
  <2>1. PICK f \in BOOLEAN : Change([cl EXCEPT !.done = TRUE, !.failed = f])
    BY <1>5 DEF clFinish
  <2>2. [cl EXCEPT !.done = TRUE, !.failed = f] \in Snap
    BY <1>2 DEF Snap
  <2>3. cl.nAtt <= [cl EXCEPT !.done = TRUE, !.failed = f].nAtt
    BY <1>2 DEF Snap, MaxAttempts
  <2>. QED
    BY <1>1, <2>1, <2>2, <2>3, ChangeStep
<1>6. CASE \E i \in 1..cl.nAtt : podSettle(i)
  <2>1. PICK i \in 1..cl.nAtt : podSettle(i)
    BY <1>6
  <2>2. i \in Attempt
    BY <1>2 DEF Attempt, MaxAttempts
  <2>. QED
    BY <1>1, <2>1, <2>2 DEF podSettle, IInv, TypeOK, WgCount, SpawnOrder, ErrCAfterPods,
       NoSendOnClosedErrC, PodMapBound, QueueOrder, PodsInOrder, Increasing, dVars, bVars
<1>7. CASE watchBreak
  <2>1. WqBound(wq, cl) /\ run \in Snap /\ run.nAtt <= cl.nAtt
    BY DEF IInv, TypeOK, PodMapBound, WqBound
  <2>2. cl' = cl /\ wq' = Append(wq, [ok |-> FALSE, snap |-> cl])
    BY <1>7 DEF watchBreak
  <2>3. cl.nAtt <= cl.nAtt /\ FALSE \in BOOLEAN
    BY <1>2 DEF Snap, MaxAttempts
  <2>4. WqBound(wq', cl)
    <3>1. WqBound(Append(wq, [ok |-> FALSE, snap |-> cl]), cl)
      BY Zenon, <1>2, <2>1, <2>3, WqAppend
    <3>. QED
      BY <2>2, <3>1
  <2>5. TypeOK'
    <3>a. cl' \in Snap
      BY <2>2 DEF IInv, TypeOK
    <3>b. run' \in Snap
      BY <1>1 DEF IInv, TypeOK, dVars
    <3>c. settled' \subseteq Attempt
      BY <1>7 DEF watchBreak, IInv, TypeOK
    <3>d. watchOK' \in BOOLEAN
      BY Zenon, <1>7 DEF watchBreak
    <3>1. (cl \in Snap /\ run \in Snap /\ settled \subseteq Attempt /\ watchOK \in BOOLEAN)'
      BY <3>a, <3>b, <3>c, <3>d
    <3>2. wq' \in Seq(WatchEvent)
      BY <2>4 DEF WqBound
    <3>3. (/\ mainPc \in {"start", "startErr", "available", "watch", "addA", "addB", "returned"}
           /\ dPc \in {"none", "init", "sending", "loop", "errSend", "exit", "done"}
           /\ dAfter \in {"loop", "exit"}
           /\ podMap \subseteq Attempt
           /\ dQ \in Seq(Attempt) /\ sentSeq \in Seq(Attempt)
           /\ timerUsed \in BOOLEAN)'
      BY <1>1 DEF IInv, TypeOK, dVars
    <3>4. (/\ wg \in 0..2
           /\ aPc \in {"none", "run", "wait", "done"}
           /\ bPc \in {"none", "recv", "wait", "watch", "step", "done"}
           /\ cur \in Attempt /\ nSteps \in 0..NSteps /\ stepIdx \in 1..(NSteps + 1)
           /\ waitErr \subseteq Attempt
           /\ out \in Seq([pod : Attempt, step : 1..NSteps])
           /\ errs \in Nat
           /\ panic \in {"none", "sendClosed", "nilPod"})'
      BY <1>1 DEF IInv, TypeOK, bVars
    <3>. QED
      BY <3>1, <3>2, <3>3, <3>4 DEF TypeOK
  <2>6. (PodMapBound /\ QueueOrder /\ PodsInOrder)'
    BY <1>1, <2>1, <2>2, <2>4 DEF IInv, PodMapBound, QueueOrder, PodsInOrder, Increasing, dVars, WqBound
  <2>. QED
    BY <1>1, <1>7, <2>5, <2>6 DEF watchBreak, IInv, WgCount, SpawnOrder, ErrCAfterPods,
       NoSendOnClosedErrC, dVars, bVars
<1>. QED
  BY <1>3, <1>4, <1>5, <1>6, <1>7 DEF Cluster, ClusterProgress

\* The initial state satisfies the invariant.
THEOREM IInvInit == Init => IInv
<1> SUFFICES ASSUME Init PROVE IInv
  OBVIOUS
<1>1. cl \in Snap /\ run \in Snap
  BY DEF Init, Snap, MaxAttempts
<1>2. TypeOK
  <2>1. wq \in Seq(WatchEvent) /\ dQ \in Seq(Attempt) /\ sentSeq \in Seq(Attempt)
    BY DEF Init
  <2>2. out \in Seq([pod : Attempt, step : 1..NSteps])
    BY DEF Init
  <2>3. cur \in Attempt /\ nSteps \in 0..NSteps /\ stepIdx \in 1..(NSteps + 1)
    BY DEF Init, Attempt, MaxAttempts
  <2>4. /\ settled \subseteq Attempt /\ podMap \subseteq Attempt /\ waitErr \subseteq Attempt
        /\ wg \in 0..2 /\ errs \in Nat
    BY DEF Init
  <2>5. /\ watchOK \in BOOLEAN /\ timerUsed \in BOOLEAN
        /\ mainPc \in {"start", "startErr", "available", "watch", "addA", "addB", "returned"}
        /\ dPc \in {"none", "init", "sending", "loop", "errSend", "exit", "done"}
        /\ dAfter \in {"loop", "exit"}
        /\ aPc \in {"none", "run", "wait", "done"}
        /\ bPc \in {"none", "recv", "wait", "watch", "step", "done"}
        /\ panic \in {"none", "sendClosed", "nilPod"}
    BY DEF Init
  <2>. QED
    BY <1>1, <2>1, <2>2, <2>3, <2>4, <2>5 DEF TypeOK
<1>3. WgCount /\ SpawnOrder /\ ErrCAfterPods /\ NoSendOnClosedErrC
  BY DEF Init, WgCount, SpawnOrder, ErrCAfterPods, NoSendOnClosedErrC
<1>4. PodMapBound /\ QueueOrder /\ PodsInOrder
  BY DEF Init, PodMapBound, QueueOrder, PodsInOrder, Increasing
<1>. QED
  BY <1>2, <1>3, <1>4 DEF IInv


\* Every step of the caller, of D, A, B and of the cluster preserves it.
THEOREM IInvStep == IInv /\ [Next]_vars => IInv'
<1> SUFFICES ASSUME IInv, [Next]_vars PROVE IInv'
  OBVIOUS
<1>. USE DEF IInv
<1>1. CASE UNCHANGED vars
  <2>1. TypeOK'
    BY <1>1 DEF vars, clVars, dVars, bVars, clVars, dVars, bVars, TypeOK, WgCount, SpawnOrder, ErrCAfterPods, Snap, WatchEvent, Attempt, MaxAttempts
  <2>2. (WgCount /\ SpawnOrder /\ ErrCAfterPods /\ NoSendOnClosedErrC)'
    BY <1>1 DEF vars, clVars, dVars, bVars, clVars, dVars, bVars, WgCount, SpawnOrder, ErrCAfterPods, NoSendOnClosedErrC, errClosed
  <2>3. (PodMapBound /\ QueueOrder /\ PodsInOrder)'
    BY <1>1 DEF vars, clVars, dVars, bVars, clVars, dVars, bVars, TypeOK, PodMapBound, QueueOrder, PodsInOrder, Increasing
  <2>. QED
    BY <2>1, <2>2, <2>3
<1>2. CASE Cluster
  BY <1>2, ClusterStep
<1>3. CASE readTaskLog
  <2>1. CASE mainPc' = "startErr" /\ UNCHANGED run
    BY <1>3, <2>1 DEF readTaskLog, IInv, TypeOK, WgCount, SpawnOrder, ErrCAfterPods,
       NoSendOnClosedErrC, PodMapBound, QueueOrder, PodsInOrder, Increasing, clVars, bVars
  <2>2. CASE cl.done /\ mainPc' = "available" /\ UNCHANGED run
    BY <1>3, <2>2 DEF readTaskLog, IInv, TypeOK, WgCount, SpawnOrder, ErrCAfterPods,
       NoSendOnClosedErrC, PodMapBound, QueueOrder, PodsInOrder, Increasing, clVars, bVars
  <2>3. CASE ~cl.done /\ mainPc' = "watch" /\ run' = cl
    <3>1. dPc = "none" /\ wq = << >> /\ podMap = {} /\ sentSeq = << >> /\ dQ = << >>
      BY <1>3 DEF readTaskLog, SpawnOrder, QueueOrder
    <3>2. cl \in Snap /\ cl.nAtt <= cl.nAtt
      BY DEF TypeOK, Snap, MaxAttempts
    <3>3. TypeOK'
      BY <1>3, <2>3, <3>2 DEF readTaskLog, TypeOK, clVars, bVars
    <3>4. (WgCount /\ SpawnOrder /\ ErrCAfterPods /\ NoSendOnClosedErrC)'
      BY <1>3, <2>3 DEF readTaskLog, WgCount, SpawnOrder, ErrCAfterPods, NoSendOnClosedErrC,
         clVars, bVars
    <3>5. (PodMapBound /\ QueueOrder /\ PodsInOrder)'
      BY <1>3, <2>3, <3>1, <3>2 DEF readTaskLog, PodMapBound, QueueOrder, PodsInOrder,
         Increasing, clVars
    <3>. QED
      BY <3>3, <3>4, <3>5
  <2>. QED
    BY <1>3, <2>1, <2>2, <2>3 DEF readTaskLog
<1>4. CASE openWatch
  <2>1. CASE mainPc' = "startErr" /\ UNCHANGED <<watchOK, wq, dPc>>
    BY <1>4, <2>1 DEF openWatch, IInv, TypeOK, WgCount, SpawnOrder, ErrCAfterPods,
       NoSendOnClosedErrC, PodMapBound, QueueOrder, PodsInOrder, Increasing, dVars, bVars
  <2>2. CASE /\ mainPc' = "addA"
             /\ watchOK' = TRUE
             /\ wq' = << [ok |-> TRUE, snap |-> cl] >>
             /\ dPc' = "init"
    <3>1. dPc = "none" /\ podMap = {} /\ sentSeq = << >> /\ dQ = << >> /\ run.nAtt <= cl.nAtt
      BY <1>4 DEF openWatch, SpawnOrder, QueueOrder, PodMapBound
    <3>2. cl \in Snap /\ [ok |-> TRUE, snap |-> cl] \in WatchEvent /\ cl.nAtt \in Nat
      BY DEF TypeOK, Snap, WatchEvent, MaxAttempts
    <3>3. watchOK' \in BOOLEAN
      BY Zenon, <2>2
    <3>4. TypeOK'
      BY <1>4, <2>2, <3>2, <3>3 DEF openWatch, TypeOK, dVars, bVars
    <3>5. (WgCount /\ SpawnOrder /\ ErrCAfterPods /\ NoSendOnClosedErrC)'
      BY <1>4, <2>2 DEF openWatch, WgCount, SpawnOrder, ErrCAfterPods, NoSendOnClosedErrC,
         bVars
    <3>6. (PodMapBound /\ QueueOrder /\ PodsInOrder)'
      BY <1>4, <2>2, <3>1, <3>2 DEF openWatch, PodMapBound, QueueOrder, PodsInOrder,
         Increasing, dVars
    <3>. QED
      BY <3>4, <3>5, <3>6
  <2>. QED
    BY <1>4, <2>1, <2>2 DEF openWatch
<1>5. CASE spawnA
  <2>1. TypeOK'
    BY <1>5 DEF spawnA, clVars, dVars, bVars, clVars, dVars, bVars, TypeOK, WgCount, SpawnOrder, ErrCAfterPods, Snap, WatchEvent, Attempt, MaxAttempts
  <2>2. (WgCount /\ SpawnOrder /\ ErrCAfterPods /\ NoSendOnClosedErrC)'
    BY <1>5 DEF spawnA, clVars, dVars, bVars, clVars, dVars, bVars, WgCount, SpawnOrder, ErrCAfterPods, NoSendOnClosedErrC, errClosed
  <2>3. (PodMapBound /\ QueueOrder /\ PodsInOrder)'
    BY <1>5 DEF spawnA, clVars, dVars, bVars, clVars, dVars, bVars, TypeOK, PodMapBound, QueueOrder, PodsInOrder, Increasing
  <2>. QED
    BY <2>1, <2>2, <2>3
<1>6. CASE spawnB
  <2>1. TypeOK'
    BY <1>6 DEF spawnB, clVars, dVars, bVars, clVars, dVars, bVars, TypeOK, WgCount, SpawnOrder, ErrCAfterPods, Snap, WatchEvent, Attempt, MaxAttempts
  <2>2. (WgCount /\ SpawnOrder /\ ErrCAfterPods /\ NoSendOnClosedErrC)'
    BY <1>6 DEF spawnB, clVars, dVars, bVars, clVars, dVars, bVars, WgCount, SpawnOrder, ErrCAfterPods, NoSendOnClosedErrC, errClosed
  <2>3. (PodMapBound /\ QueueOrder /\ PodsInOrder)'
    BY <1>6 DEF spawnB, clVars, dVars, bVars, clVars, dVars, bVars, TypeOK, PodMapBound, QueueOrder, PodsInOrder, Increasing
  <2>. QED
    BY <2>1, <2>2, <2>3
<1>7. CASE dInit
  <2>1. run \in Snap /\ podMap = {} /\ sentSeq = << >>
    BY <1>7 DEF dInit, TypeOK, QueueOrder
  <2>2. /\ PodsOf(run) \in Seq(Attempt)
        /\ Increasing(PodsOf(run))
        /\ \A i \in DOMAIN PodsOf(run) : PodsOf(run)[i] \in 1..run.nAtt
    BY <2>1, PodsOfType
  <2>3. {i \in 1..run.nAtt : TRUE} \subseteq Attempt /\ run.nAtt \in Nat
    BY <2>1 DEF Snap, Attempt, MaxAttempts
  <2>4. TypeOK'
    BY <1>7, <2>2, <2>3 DEF dInit, TypeOK, clVars, bVars
  <2>5. (WgCount /\ SpawnOrder /\ ErrCAfterPods /\ NoSendOnClosedErrC)'
    BY <1>7 DEF dInit, WgCount, SpawnOrder, ErrCAfterPods, NoSendOnClosedErrC, clVars, bVars
  <2>6. (PodMapBound /\ QueueOrder /\ PodsInOrder)'
    BY <1>7, <2>1, <2>2, <2>3 DEF dInit, PodMapBound, QueueOrder, PodsInOrder, clVars
  <2>. QED
    BY <2>4, <2>5, <2>6
<1>8. CASE dSendPod
  <2>1. TypeOK'
    BY <1>8 DEF dSendPod, clVars, clVars, dVars, bVars, TypeOK, WgCount, SpawnOrder, ErrCAfterPods, Snap, WatchEvent, Attempt, MaxAttempts
  <2>2. (WgCount /\ SpawnOrder /\ ErrCAfterPods /\ NoSendOnClosedErrC)'
    BY <1>8 DEF dSendPod, clVars, clVars, dVars, bVars, WgCount, SpawnOrder, ErrCAfterPods, NoSendOnClosedErrC, errClosed
  <2>3. (PodMapBound /\ QueueOrder /\ PodsInOrder)'
    BY <1>8 DEF dSendPod, clVars, clVars, dVars, bVars, TypeOK, PodMapBound, QueueOrder, PodsInOrder, Increasing
  <2>. QED
    BY <2>1, <2>2, <2>3
<1>9. CASE dSendsDone
  <2>1. TypeOK'
    BY <1>9 DEF dSendsDone, clVars, dVars, bVars, clVars, dVars, bVars, TypeOK, WgCount, SpawnOrder, ErrCAfterPods, Snap, WatchEvent, Attempt, MaxAttempts
  <2>2. (WgCount /\ SpawnOrder /\ ErrCAfterPods /\ NoSendOnClosedErrC)'
    BY <1>9 DEF dSendsDone, clVars, dVars, bVars, clVars, dVars, bVars, WgCount, SpawnOrder, ErrCAfterPods, NoSendOnClosedErrC, errClosed
  <2>3. (PodMapBound /\ QueueOrder /\ PodsInOrder)'
    BY <1>9 DEF dSendsDone, clVars, dVars, bVars, clVars, dVars, bVars, TypeOK, PodMapBound, QueueOrder, PodsInOrder, Increasing
  <2>. QED
    BY <2>1, <2>2, <2>3
<1>10. CASE dEvent
  <2>. DEFINE e == Head(wq)
  <2>1. /\ wq \in Seq(WatchEvent) /\ wq # << >>
        /\ run \in Snap /\ cl \in Snap /\ dQ = << >>
        /\ PodMapBound
    BY <1>10 DEF dEvent, TypeOK, QueueOrder
  <2>2. /\ e \in WatchEvent /\ e.snap \in Snap /\ e.snap.nAtt \in Nat /\ run.nAtt \in Nat
        /\ run.nAtt <= e.snap.nAtt /\ e.snap.nAtt <= cl.nAtt
    <3>1. 1 \in DOMAIN wq /\ e = wq[1]
      BY <2>1
    <3>2. e \in WatchEvent
      BY <2>1, <3>1
    <3>3. run.nAtt <= wq[1].snap.nAtt /\ wq[1].snap.nAtt <= cl.nAtt
      BY <2>1, <3>1 DEF PodMapBound
    <3>4. run.nAtt \in Nat
      BY <2>1 DEF Snap, MaxAttempts
    <3>. QED
      BY <3>1, <3>2, <3>3, <3>4 DEF WatchEvent, Snap, MaxAttempts
  <2>3. /\ Tail(wq) \in Seq(WatchEvent)
        /\ \A i \in DOMAIN Tail(wq) : Tail(wq)[i] = wq[i + 1] /\ i + 1 \in DOMAIN wq
    BY <2>1
  <2>4. \A i \in DOMAIN wq : wq[i].snap.nAtt \in Nat
    BY <2>1, WqNat
  <2>5. /\ \A i \in DOMAIN Tail(wq) :
             e.snap.nAtt <= Tail(wq)[i].snap.nAtt /\ Tail(wq)[i].snap.nAtt <= cl.nAtt
        /\ \A i, j \in DOMAIN Tail(wq) :
             i < j => Tail(wq)[i].snap.nAtt <= Tail(wq)[j].snap.nAtt
    BY <2>1, <2>3, <2>4 DEF PodMapBound
  <2>6. wq' = Tail(wq) /\ UNCHANGED <<cl, watchOK, mainPc, sentSeq, aPc, bPc>>
    BY <1>10 DEF dEvent
  <2>7. (WgCount /\ SpawnOrder /\ ErrCAfterPods /\ NoSendOnClosedErrC)'
    BY <1>10 DEF dEvent, WgCount, SpawnOrder, ErrCAfterPods, NoSendOnClosedErrC, errClosed,
       bVars
  <2>8. CASE ~e.ok
    <3>1. TypeOK'
      BY <1>10, <2>3, <2>8 DEF dEvent, TypeOK, bVars
    <3>2. (PodMapBound /\ QueueOrder /\ PodsInOrder)'
      BY <1>10, <2>1, <2>5, <2>6, <2>8 DEF dEvent, PodMapBound, QueueOrder, PodsInOrder
    <3>. QED
      BY <2>7, <3>1, <3>2
  <2>9. CASE e.ok /\ e.snap.nAtt >= 1
    <3>1. /\ run' = e.snap /\ dQ' = AddPod(e.snap.nAtt)
          /\ podMap' = podMap \cup {e.snap.nAtt} /\ dPc' = "sending"
          /\ dAfter' \in {"loop", "exit"}
      BY <1>10, <2>9 DEF dEvent
    <3>2. e.snap.nAtt \in Attempt
      BY <2>2, <2>9 DEF Snap, Attempt
    <3>3. /\ AddPod(e.snap.nAtt) \in Seq(Attempt)
          /\ Increasing(AddPod(e.snap.nAtt))
          /\ \A j \in DOMAIN AddPod(e.snap.nAtt) :
                AddPod(e.snap.nAtt)[j] = e.snap.nAtt /\ e.snap.nAtt \notin podMap
      BY <3>2 DEF AddPod, Increasing
    <3>4. TypeOK'
      <4>1. dQ' \in Seq(Attempt) /\ podMap' \subseteq Attempt /\ run' \in Snap
        BY <2>1, <2>2, <3>1, <3>2, <3>3 DEF TypeOK
      <4>2. wq' \in Seq(WatchEvent) /\ dPc' = "sending" /\ dAfter' \in {"loop", "exit"}
        BY <2>3, <2>6, <3>1
      <4>. QED
        BY <1>10, <4>1, <4>2 DEF dEvent, TypeOK, bVars
    <3>5. \A i \in DOMAIN sentSeq : sentSeq[i] \in Nat /\ sentSeq[i] <= run.nAtt
      <4>1. \A i \in DOMAIN sentSeq : sentSeq[i] \in podMap
        BY <2>1 DEF PodMapBound
      <4>2. podMap \subseteq Nat
        BY DEF TypeOK, Attempt, MaxAttempts
      <4>. QED
        BY <2>1, <4>1, <4>2 DEF PodMapBound
    <3>6. \A x \in podMap : x \in Nat /\ x <= run.nAtt
      BY <2>1 DEF PodMapBound, TypeOK, Attempt, MaxAttempts
    <3>7. PodMapBound'
      <4>1. \A i \in DOMAIN sentSeq' : sentSeq'[i] \in podMap'
        BY <2>1, <2>6, <3>1 DEF PodMapBound
      <4>2. \A i \in DOMAIN dQ' : dQ'[i] \in podMap'
        BY <3>1, <3>3
      <4>3. \A x \in podMap' : x <= run'.nAtt
        BY <2>2, <3>1, <3>6
      <4>4. run'.nAtt <= cl'.nAtt
        BY <2>2, <2>6, <3>1
      <4>5. /\ \A i \in DOMAIN wq' : run'.nAtt <= wq'[i].snap.nAtt /\ wq'[i].snap.nAtt <= cl'.nAtt
            /\ \A i, j \in DOMAIN wq' : i < j => wq'[i].snap.nAtt <= wq'[j].snap.nAtt
        BY <2>5, <2>6, <3>1
      <4>. QED
        BY <4>1, <4>2, <4>3, <4>4, <4>5 DEF PodMapBound
    <3>8. QueueOrder'
      <4>1. \A i \in DOMAIN sentSeq : sentSeq[i] \in podMap
        BY <2>1 DEF PodMapBound
      <4>2. \A i \in DOMAIN sentSeq, j \in DOMAIN dQ' : sentSeq[i] < dQ'[j]
        BY <2>2, <3>1, <3>3, <3>5, <4>1
      <4>. QED
        BY <2>6, <3>1, <3>3, <4>2 DEF QueueOrder
    <3>9. PodsInOrder'
      BY <2>6 DEF PodsInOrder
    <3>. QED
      BY <2>7, <3>4, <3>7, <3>8, <3>9
  <2>10. CASE e.ok /\ ~(e.snap.nAtt >= 1)
    <3>1. run' = e.snap /\ UNCHANGED <<dPc, podMap, dQ, dAfter>>
      BY <1>10, <2>10 DEF dEvent
    <3>2. TypeOK'
      BY <1>10, <2>2, <2>3, <3>1 DEF dEvent, TypeOK, bVars
    <3>3. \A x \in podMap : x \in Nat /\ x <= run.nAtt
      BY <2>1 DEF PodMapBound, TypeOK, Attempt, MaxAttempts
    <3>4. PodMapBound'
      <4>1. \A x \in podMap' : x <= run'.nAtt
        BY <2>2, <3>1, <3>3
      <4>2. run'.nAtt <= cl'.nAtt
        BY <2>2, <2>6, <3>1
      <4>3. /\ \A i \in DOMAIN wq' : run'.nAtt <= wq'[i].snap.nAtt /\ wq'[i].snap.nAtt <= cl'.nAtt
            /\ \A i, j \in DOMAIN wq' : i < j => wq'[i].snap.nAtt <= wq'[j].snap.nAtt
        BY <2>5, <2>6, <3>1
      <4>. QED
        BY <2>1, <2>6, <3>1, <4>1, <4>2, <4>3 DEF PodMapBound
    <3>5. (QueueOrder /\ PodsInOrder)'
      BY <1>10, <2>1, <2>6, <3>1 DEF QueueOrder, PodsInOrder
    <3>. QED
      BY <2>7, <3>2, <3>4, <3>5
  <2>. QED
    BY <2>8, <2>9, <2>10
<1>11. CASE dTimeout
  <2>1. TypeOK'
    BY <1>11 DEF dTimeout, clVars, bVars, clVars, dVars, bVars, TypeOK, WgCount, SpawnOrder, ErrCAfterPods, Snap, WatchEvent, Attempt, MaxAttempts
  <2>2. (WgCount /\ SpawnOrder /\ ErrCAfterPods /\ NoSendOnClosedErrC)'
    BY <1>11 DEF dTimeout, clVars, bVars, clVars, dVars, bVars, WgCount, SpawnOrder, ErrCAfterPods, NoSendOnClosedErrC, errClosed
  <2>3. (PodMapBound /\ QueueOrder /\ PodsInOrder)'
    BY <1>11 DEF dTimeout, clVars, bVars, clVars, dVars, bVars, TypeOK, PodMapBound, QueueOrder, PodsInOrder, Increasing
  <2>. QED
    BY <2>1, <2>2, <2>3
<1>12. CASE dErrSend
  <2>1. TypeOK'
    BY <1>12 DEF dErrSend, clVars, dVars, bVars, clVars, dVars, bVars, TypeOK, WgCount, SpawnOrder, ErrCAfterPods, Snap, WatchEvent, Attempt, MaxAttempts
  <2>2. (WgCount /\ SpawnOrder /\ ErrCAfterPods /\ NoSendOnClosedErrC)'
    BY <1>12 DEF dErrSend, clVars, dVars, bVars, clVars, dVars, bVars, WgCount, SpawnOrder, ErrCAfterPods, NoSendOnClosedErrC, errClosed
  <2>3. (PodMapBound /\ QueueOrder /\ PodsInOrder)'
    BY <1>12 DEF dErrSend, clVars, dVars, bVars, clVars, dVars, bVars, TypeOK, PodMapBound, QueueOrder, PodsInOrder, Increasing
  <2>. QED
    BY <2>1, <2>2, <2>3
<1>13. CASE dExit
  <2>1. watchOK' \in BOOLEAN
    BY Zenon, <1>13 DEF dExit
  <2>2. TypeOK'
    BY <1>13, <2>1 DEF dExit, TypeOK, dVars, bVars
  <2>3. (WgCount /\ SpawnOrder /\ ErrCAfterPods /\ NoSendOnClosedErrC)'
    BY <1>13 DEF dExit, WgCount, SpawnOrder, ErrCAfterPods, NoSendOnClosedErrC, errClosed,
       dVars, bVars
  <2>4. (PodMapBound /\ QueueOrder /\ PodsInOrder)'
    BY <1>13 DEF dExit, PodMapBound, QueueOrder, PodsInOrder, dVars
  <2>. QED
    BY <2>2, <2>3, <2>4
<1>14. CASE aDone
  <2>1. TypeOK'
    BY <1>14 DEF aDone, clVars, dVars, bVars, clVars, dVars, bVars, TypeOK, WgCount, SpawnOrder, ErrCAfterPods, Snap, WatchEvent, Attempt, MaxAttempts
  <2>2. (WgCount /\ SpawnOrder /\ ErrCAfterPods /\ NoSendOnClosedErrC)'
    BY <1>14 DEF aDone, clVars, dVars, bVars, clVars, dVars, bVars, WgCount, SpawnOrder, ErrCAfterPods, NoSendOnClosedErrC, errClosed
  <2>3. (PodMapBound /\ QueueOrder /\ PodsInOrder)'
    BY <1>14 DEF aDone, clVars, dVars, bVars, clVars, dVars, bVars, TypeOK, PodMapBound, QueueOrder, PodsInOrder, Increasing
  <2>. QED
    BY <2>1, <2>2, <2>3
<1>15. CASE closeErrC
  <2>1. bPc \in {"none", "done"}
    BY <1>15 DEF closeErrC, WgCount, TypeOK
  <2>2. TypeOK'
    BY <1>15 DEF closeErrC, TypeOK, clVars, dVars, bVars
  <2>3. (WgCount /\ SpawnOrder /\ ErrCAfterPods /\ NoSendOnClosedErrC)'
    BY <1>15, <2>1 DEF closeErrC, WgCount, SpawnOrder, ErrCAfterPods, NoSendOnClosedErrC,
       errClosed, clVars, dVars, bVars
  <2>4. (PodMapBound /\ QueueOrder /\ PodsInOrder)'
    BY <1>15 DEF closeErrC, PodMapBound, QueueOrder, PodsInOrder, clVars, dVars
  <2>. QED
    BY <2>2, <2>3, <2>4
<1>16. CASE bWaitGet
  <2>1. TypeOK'
    BY <1>16 DEF bWaitGet, clVars, dVars, bVars, clVars, dVars, bVars, TypeOK, WgCount, SpawnOrder, ErrCAfterPods, Snap, WatchEvent, Attempt, MaxAttempts
  <2>2. (WgCount /\ SpawnOrder /\ ErrCAfterPods /\ NoSendOnClosedErrC)'
    BY <1>16 DEF bWaitGet, clVars, dVars, bVars, clVars, dVars, bVars, WgCount, SpawnOrder, ErrCAfterPods, NoSendOnClosedErrC, errClosed
  <2>3. (PodMapBound /\ QueueOrder /\ PodsInOrder)'
    BY <1>16 DEF bWaitGet, clVars, dVars, bVars, clVars, dVars, bVars, TypeOK, PodMapBound, QueueOrder, PodsInOrder, Increasing
  <2>. QED
    BY <2>1, <2>2, <2>3
<1>17. CASE bWaitVerdict
  <2>1. ~errClosed
    BY <1>17 DEF bWaitVerdict, ErrCAfterPods, errClosed
  <2>2. errs' \in Nat /\ panic' = panic /\ waitErr' \subseteq Attempt
    <3>1. CASE UNCHANGED <<waitErr, errs, panic>>
      BY <3>1 DEF TypeOK, bWaitVerdict
    <3>2. CASE SendErr /\ waitErr' = waitErr \cup {cur}
      BY <2>1, <3>2, SendErrOpen DEF TypeOK, bWaitVerdict
    <3>. QED
      BY <1>17, <3>1, <3>2 DEF bWaitVerdict
  <2>3. nSteps' \in 0..NSteps
    BY <1>17 DEF bWaitVerdict
  <2>6. TypeOK'
    BY <1>17, <2>2, <2>3 DEF bWaitVerdict, TypeOK, clVars, dVars
  <2>4. (WgCount /\ SpawnOrder /\ ErrCAfterPods /\ NoSendOnClosedErrC)'
    BY <1>17, <2>2 DEF bWaitVerdict, WgCount, SpawnOrder, ErrCAfterPods, NoSendOnClosedErrC,
       errClosed, clVars, dVars
  <2>5. (PodMapBound /\ QueueOrder /\ PodsInOrder)'
    BY <1>17 DEF bWaitVerdict, PodMapBound, QueueOrder, PodsInOrder, clVars, dVars
  <2>. QED
    BY <2>6, <2>4, <2>5
<1>18. CASE bStep
  <2>1. ~errClosed
    BY <1>18 DEF bStep, ErrCAfterPods, errClosed
  <2>2. stepIdx \in 1..NSteps /\ cur \in Attempt
    BY <1>18 DEF bStep, TypeOK
  <2>3. /\ errs' \in Nat /\ panic' = panic
        /\ stepIdx' \in 1..(NSteps + 1) /\ bPc' \in {"step", "recv"}
        /\ out' \in Seq([pod : Attempt, step : 1..NSteps])
    <3>1. CASE SendErr /\ stepIdx' = stepIdx + 1 /\ UNCHANGED <<bPc, out>>
      BY <1>18, <2>1, <2>2, <3>1, SendErrOpen DEF TypeOK, bStep
    <3>2. CASE /\ out' = Append(out, [pod |-> cur, step |-> stepIdx])
               /\ stepIdx' = stepIdx + 1 /\ UNCHANGED <<bPc, errs, panic>>
      BY <1>18, <2>2, <3>2 DEF TypeOK, bStep
    <3>3. CASE /\ out' = Append(out, [pod |-> cur, step |-> stepIdx])
               /\ SendErr /\ bPc' = "recv" /\ UNCHANGED stepIdx
      BY <1>18, <2>1, <2>2, <3>3, SendErrOpen DEF TypeOK
    <3>. QED
      BY <1>18, <3>1, <3>2, <3>3 DEF bStep
  <2>4. TypeOK'
    BY <1>18, <2>3 DEF bStep, TypeOK, clVars, dVars
  <2>5. (WgCount /\ SpawnOrder /\ ErrCAfterPods /\ NoSendOnClosedErrC)'
    BY <1>18, <2>3 DEF bStep, WgCount, SpawnOrder, ErrCAfterPods, NoSendOnClosedErrC,
       errClosed, clVars, dVars
  <2>6. (PodMapBound /\ QueueOrder /\ PodsInOrder)'
    BY <1>18 DEF bStep, PodMapBound, QueueOrder, PodsInOrder, clVars, dVars
  <2>. QED
    BY <2>4, <2>5, <2>6
<1>19. CASE bStepsDone
  <2>1. TypeOK'
    BY <1>19 DEF bStepsDone, clVars, dVars, bVars, clVars, dVars, bVars, TypeOK, WgCount, SpawnOrder, ErrCAfterPods, Snap, WatchEvent, Attempt, MaxAttempts
  <2>2. (WgCount /\ SpawnOrder /\ ErrCAfterPods /\ NoSendOnClosedErrC)'
    BY <1>19 DEF bStepsDone, clVars, dVars, bVars, clVars, dVars, bVars, WgCount, SpawnOrder, ErrCAfterPods, NoSendOnClosedErrC, errClosed
  <2>3. (PodMapBound /\ QueueOrder /\ PodsInOrder)'
    BY <1>19 DEF bStepsDone, clVars, dVars, bVars, clVars, dVars, bVars, TypeOK, PodMapBound, QueueOrder, PodsInOrder, Increasing
  <2>. QED
    BY <2>1, <2>2, <2>3
<1>20. CASE closeLogC
  <2>1. TypeOK'
    BY <1>20 DEF closeLogC, clVars, dVars, bVars, clVars, dVars, bVars, TypeOK, WgCount, SpawnOrder, ErrCAfterPods, Snap, WatchEvent, Attempt, MaxAttempts
  <2>2. (WgCount /\ SpawnOrder /\ ErrCAfterPods /\ NoSendOnClosedErrC)'
    BY <1>20 DEF closeLogC, clVars, dVars, bVars, clVars, dVars, bVars, WgCount, SpawnOrder, ErrCAfterPods, NoSendOnClosedErrC, errClosed
  <2>3. (PodMapBound /\ QueueOrder /\ PodsInOrder)'
    BY <1>20 DEF closeLogC, clVars, dVars, bVars, clVars, dVars, bVars, TypeOK, PodMapBound, QueueOrder, PodsInOrder, Increasing
  <2>. QED
    BY <2>1, <2>2, <2>3
<1>. QED
  BY <1>1, <1>2, <1>3, <1>4, <1>5, <1>6, <1>7, <1>8, <1>9, <1>10, <1>11, <1>12, <1>13, <1>14, <1>15, <1>16, <1>17, <1>18, <1>19, <1>20 DEF Next, Main, Discovery, ForwardErrors, ReadPods, Cluster, ClusterProgress

\* The invariant holds in every state of every behaviour.
THEOREM IInvSafe == Spec => []IInv
<1>1. Init => IInv
  BY IInvInit
<1>2. IInv /\ [][Next]_vars => []IInv
  BY IInvStep, PTL
<1>. QED
  BY <1>1, <1>2, PTL DEF Spec

\* In live mode no goroutine sends on errC after goroutine A has closed it
\* (close(errC) at task_reader.go:228 against B's send at 257 and the sends
\* of readStepsLogs),
\* whatever the number of retries and of steps.
THEOREM ErrCSafe == Spec => []NoSendOnClosedErrC
<1>1. IInv => NoSendOnClosedErrC
  BY DEF IInv
<1>. QED
  BY <1>1, IInvSafe, PTL

\* The pods B reads are strictly increasing attempts: getTaskRunPodNames never
\* sends a pod twice nor an older one after a newer one (task_reader.go:301-334).
THEOREM PodOrderSafe == Spec => []PodsInOrder
<1>1. IInv => PodsInOrder
  BY DEF IInv
<1>. QED
  BY <1>1, IInvSafe, PTL

\* Every variable keeps its type, for every number of retries and steps.
THEOREM TypeCorrect == Spec => []TypeOK
<1>1. IInv => TypeOK
  BY DEF IInv
<1>. QED
  BY <1>1, IInvSafe, PTL


-----------------------------------------------------------------------------
(* Refinement of PodReading: the cluster's new attempt is NewAttempt, D's  *)
(* send on podC is ReadPod, and every other step leaves the number of      *)
(* attempts and the pods sent unchanged.                                   *)

\* The pod D sends next is an attempt the cluster has made, newer than
\* every pod sent before.
LEMMA NextPodFits ==
    ASSUME IInv, dQ # << >>
    PROVE  /\ Head(dQ) \in 1..cl.nAtt
           /\ \A i \in DOMAIN sentSeq : sentSeq[i] < Head(dQ)
<1>1. 1 \in DOMAIN dQ /\ Head(dQ) = dQ[1]
  BY DEF IInv, TypeOK
<1>2. Head(dQ) \in podMap
  BY <1>1 DEF IInv, PodMapBound
<1>3. Head(dQ) \in Attempt /\ run.nAtt \in Nat /\ cl.nAtt \in Nat
  BY <1>2 DEF IInv, TypeOK, Snap, MaxAttempts
<1>4. Head(dQ) <= run.nAtt /\ run.nAtt <= cl.nAtt
  BY <1>2 DEF IInv, PodMapBound
<1>5. \A i \in DOMAIN sentSeq : sentSeq[i] < Head(dQ)
  BY <1>1 DEF IInv, QueueOrder
<1>. QED
  BY <1>3, <1>4, <1>5 DEF Attempt, MaxAttempts

\* Every step of LiveReader is a step of PodReading or leaves its
\* variables unchanged.
LEMMA ReadingStep ==
    ASSUME IInv, [Next]_vars
    PROVE  [Reading!Next]_<<cl.nAtt, sentSeq>>
<1>1. CASE dSendPod
  <2>1. /\ Head(dQ) \in 1..cl.nAtt
        /\ \A i \in DOMAIN sentSeq : sentSeq[i] < Head(dQ)
    BY <1>1, NextPodFits DEF dSendPod
  <2>2. sentSeq' = Append(sentSeq, Head(dQ)) /\ cl' = cl
    BY <1>1 DEF dSendPod, clVars
  <2>. QED
    BY <2>1, <2>2 DEF Reading!Next, Reading!ReadPod
<1>2. CASE Cluster /\ clNewPod
  <2>1. cl.nAtt < MaxAttempts /\ cl' = [cl EXCEPT !.nAtt = @ + 1] /\ cl \in Snap
    BY <1>2 DEF clNewPod, Change, IInv, TypeOK
  <2>2. cl'.nAtt = cl.nAtt + 1 /\ sentSeq' = sentSeq
    BY <1>2, <2>1 DEF Cluster, Snap
  <2>. QED
    BY <2>1, <2>2 DEF Reading!Next, Reading!NewAttempt
<1>3. CASE Cluster /\ ~clNewPod
  <2>1. cl' = cl \/ cl' = [cl EXCEPT !.started = TRUE]
          \/ \E f \in BOOLEAN : cl' = [cl EXCEPT !.done = TRUE, !.failed = f]
    BY <1>3 DEF Cluster, ClusterProgress, clStart, clFinish, Change, podSettle, watchBreak
  <2>2. cl'.nAtt = cl.nAtt /\ sentSeq' = sentSeq
    BY <1>3, <2>1 DEF Cluster, IInv, TypeOK, Snap
  <2>. QED
    BY <2>2
<1>4. CASE Main \/ ForwardErrors \/ ReadPods
  <2>1. UNCHANGED <<cl, sentSeq>>
    BY <1>4 DEF Main, readTaskLog, openWatch, spawnA, spawnB, ForwardErrors, aDone, closeErrC,
       ReadPods, bWaitGet, bWaitVerdict, bStep, bStepsDone, closeLogC, clVars
  <2>. QED
    BY <2>1
<1>5. CASE dInit \/ dSendsDone \/ dEvent \/ dTimeout \/ dErrSend \/ dExit
  <2>1. UNCHANGED <<cl, sentSeq>>
    BY <1>5 DEF dInit, dSendsDone, dEvent, dTimeout, dErrSend, dExit, clVars
  <2>. QED
    BY <2>1
<1>6. CASE UNCHANGED vars
  BY <1>6 DEF vars, clVars
<1>. QED
  BY <1>1, <1>2, <1>3, <1>4, <1>5, <1>6 DEF Next, Discovery

\* Live mode implements the abstract reading of pods: every pod handed to B
\* belongs to an attempt the TaskRun has made, and none is handed over
\* twice or after a newer one, for every number of retries and steps.
THEOREM PodReadingRefinement == Spec => PodReadingRefined
<1>1. Init => Reading!Init
  BY DEF Init, Reading!Init
<1>2. IInv /\ [Next]_vars => [Reading!Next]_<<cl.nAtt, sentSeq>>
  BY ReadingStep
<1>. QED
  BY <1>1, <1>2, IInvSafe, PTL DEF Spec, PodReadingRefined, Reading!Spec, Reading!vars

-----------------------------------------------------------------------------
(* The order of the records on logC.  OutCursor places B: the records sent *)
(* so far belong to earlier pods than B's current one, or to earlier steps *)
(* of it.  A new pod comes from D after every pod sent (QueueOrder), and B *)
(* sends its step's EOFLOG at its place and moves past it.                 *)

LogInv == IInv /\ OutCursor /\ LiveLogOrder

\* The variables OutCursor and LiveLogOrder read.
outVars == <<bPc, out, sentSeq, cur, stepIdx>>

\* The records of logC, as a set the provers can name.
OutRecord == [pod : Attempt, step : 1..NSteps]

\* The pod and the step of every record are numbers, the pod an attempt.
LEMMA RecordFields ==
    ASSUME NEW q \in Seq([pod : Attempt, step : 1..NSteps])
    PROVE  \A i \in DOMAIN q : /\ q[i].pod \in Nat /\ q[i].step \in Nat
                              /\ q[i].pod \in Attempt
<1>1. q \in Seq(OutRecord)
  BY DEF OutRecord
<1>2. \A i \in DOMAIN q : q[i] \in OutRecord
  BY <1>1
<1>. QED
  BY <1>2 DEF OutRecord, Attempt, MaxAttempts

LEMMA OutFields ==
    ASSUME TypeOK
    PROVE  \A i \in DOMAIN out : /\ out[i].pod \in Nat /\ out[i].step \in Nat
                                /\ out[i].pod \in Attempt
BY RecordFields DEF TypeOK

\* A step that leaves B's place and the records alone keeps both.
LEMMA OutQuiet ==
    ASSUME OutCursor, LiveLogOrder, UNCHANGED outVars
    PROVE  (OutCursor /\ LiveLogOrder)'
BY DEF OutCursor, LiveLogOrder, StepBefore, outVars

\* A step that moves B forward within its pod, or out of its range loop,
\* without sending a record keeps both.
LEMMA OutMove ==
    ASSUME IInv, OutCursor, LiveLogOrder,
           UNCHANGED <<out, sentSeq, cur>>,
           \/ bPc = "recv" /\ bPc' \in {"recv", "done"}
           \/ bPc = "none" /\ bPc' = "recv"
           \/ bPc = "wait" /\ bPc' \in {"wait", "watch"}
           \/ bPc = "watch" /\ bPc' = "step" /\ stepIdx' = 1
           \/ bPc = "step" /\ bPc' = "step" /\ stepIdx' = stepIdx + 1
           \/ bPc = "step" /\ bPc' = "recv"
    PROVE  (OutCursor /\ LiveLogOrder)'
<1>1. \A i \in DOMAIN out : out[i].step \in Nat /\ out[i].pod \in Nat
  BY OutFields DEF IInv
<1>2. stepIdx \in Nat /\ cur \in Nat
  BY DEF IInv, TypeOK, Attempt, MaxAttempts
<1>. QED
  BY <1>1, <1>2 DEF OutCursor, LiveLogOrder, StepBefore

\* D hands B a new pod: it comes after every pod sent, so after every
\* record.
LEMMA OutNewPod ==
    ASSUME IInv, OutCursor, LiveLogOrder, dSendPod
    PROVE  (OutCursor /\ LiveLogOrder)'
<1>1. /\ Head(dQ) \in 1..cl.nAtt
      /\ \A i \in DOMAIN sentSeq : sentSeq[i] < Head(dQ)
  BY NextPodFits DEF dSendPod
<1>2. /\ cur' = Head(dQ) /\ sentSeq' = Append(sentSeq, Head(dQ))
      /\ bPc = "recv" /\ bPc' = "wait" /\ out' = out
  BY DEF dSendPod
<1>3. sentSeq \in Seq(Attempt) /\ Head(dQ) \in Nat
  BY <1>1 DEF IInv, TypeOK, Snap, MaxAttempts
<1>4. sentSeq' # << >> /\ cur' = sentSeq'[Len(sentSeq')]
  BY <1>2, <1>3
<1>5. \A i \in DOMAIN out : out[i].pod < cur'
  <2>1. SUFFICES ASSUME out # << >> PROVE \A i \in DOMAIN out : out[i].pod < cur'
    OBVIOUS
  <2>2. sentSeq # << >> /\ cur = sentSeq[Len(sentSeq)]
    BY <2>1 DEF OutCursor
  <2>3. Len(sentSeq) \in DOMAIN sentSeq
    BY <2>2, <1>3
  <2>4. sentSeq[Len(sentSeq)] < Head(dQ)
    BY <1>1, <2>3
  <2>5. cur < cur' /\ cur \in Nat /\ cur' \in Nat
    BY <1>2, <1>3, <2>2, <2>3, <2>4 DEF Attempt, MaxAttempts
  <2>6. \A i \in DOMAIN out : out[i].pod \in Nat /\ out[i].pod <= cur
    BY OutFields DEF IInv, OutCursor
  <2>. QED
    BY <2>5, <2>6
<1>6. \A i \in DOMAIN out : out[i].pod \in Nat
  BY OutFields DEF IInv
<1>. QED
  BY <1>2, <1>3, <1>4, <1>5, <1>6 DEF OutCursor, LiveLogOrder, StepBefore


\* B sends its step's EOFLOG at its place: after every record sent before.
LEMMA OutAppend ==
    ASSUME IInv, OutCursor, LiveLogOrder, bPc = "step",
           out' = Append(out, [pod |-> cur, step |-> stepIdx]),
           UNCHANGED <<sentSeq, cur>>,
           \/ bPc' = "step" /\ stepIdx' = stepIdx + 1
           \/ bPc' = "recv"
    PROVE  (OutCursor /\ LiveLogOrder)'
<1>1. \A i \in DOMAIN out : /\ out[i].pod \in Nat /\ out[i].step \in Nat
                           /\ out[i].pod <= cur
                           /\ (out[i].pod = cur => out[i].step < stepIdx)
  BY OutFields DEF IInv, OutCursor
<1>2. cur \in Nat /\ stepIdx \in Nat /\ out \in Seq(OutRecord)
  BY DEF IInv, TypeOK, Attempt, MaxAttempts, OutRecord
<1> DEFINE r == [pod |-> cur, step |-> stepIdx]
<1>0. r.pod = cur /\ r.step = stepIdx /\ out' = Append(out, r)
  OBVIOUS
<1>3. \A i \in DOMAIN out : StepBefore(out[i], r)
  <2> SUFFICES ASSUME NEW i \in DOMAIN out PROVE StepBefore(out[i], r)
    OBVIOUS
  <2>0. /\ out[i].pod \in Nat /\ out[i].step \in Nat /\ out[i].pod <= cur
        /\ (out[i].pod = cur => out[i].step < stepIdx)
    BY <1>1
  <2>1. CASE out[i].pod = cur
    <3>1. out[i].pod = r.pod /\ out[i].step < r.step
      BY <1>0, <2>0, <2>1
    <3>. QED
      BY <3>1 DEF StepBefore
  <2>2. CASE out[i].pod # cur
    <3>1. out[i].pod < r.pod
      BY <1>0, <1>2, <2>0, <2>2
    <3>. QED
      BY <3>1 DEF StepBefore
  <2>. QED
    BY <2>1, <2>2
<1>4. /\ DOMAIN out' = 1..(Len(out) + 1)
      /\ \A i \in DOMAIN out : out'[i] = out[i]
      /\ out'[Len(out) + 1] = r
      /\ DOMAIN out = 1..Len(out)
  BY <1>0, <1>2
<1>5. LiveLogOrder'
  <2> SUFFICES ASSUME NEW i \in DOMAIN out', NEW j \in DOMAIN out', i < j
               PROVE  StepBefore(out'[i], out'[j])
    BY DEF LiveLogOrder
  <2>1. CASE j = Len(out) + 1
    BY <1>3, <1>4, <2>1
  <2>2. CASE j # Len(out) + 1
    BY <1>4, <2>2 DEF LiveLogOrder
  <2>. QED
    BY <2>1, <2>2
<1>6. sentSeq # << >> /\ cur = sentSeq[Len(sentSeq)]
  BY DEF OutCursor
<1>7. \A i \in DOMAIN out' : /\ out'[i].pod <= cur
                            /\ (out'[i].pod = cur => out'[i].step <= stepIdx)
  <2> SUFFICES ASSUME NEW i \in DOMAIN out'
               PROVE  out'[i].pod <= cur /\ (out'[i].pod = cur => out'[i].step <= stepIdx)
    OBVIOUS
  <2>1. CASE i = Len(out) + 1
    BY <1>0, <1>2, <1>4, <2>1
  <2>2. CASE i # Len(out) + 1
    BY <1>1, <1>2, <1>4, <2>2
  <2>. QED
    BY <2>1, <2>2
<1>8. \A i \in DOMAIN out' : out'[i].step \in Nat
  BY <1>0, <1>1, <1>2, <1>4
<1>9. (sentSeq # << >> /\ cur = sentSeq[Len(sentSeq)])'
  BY <1>6
<1>10. CASE bPc' = "step" /\ stepIdx' = stepIdx + 1
  <2>1. OutCursor'
    BY <1>2, <1>7, <1>8, <1>9, <1>10 DEF OutCursor
  <2>. QED
    BY <1>5, <2>1
<1>11. CASE bPc' = "recv"
  <2>1. OutCursor'
    BY <1>7, <1>9, <1>11 DEF OutCursor
  <2>. QED
    BY <1>5, <2>1
<1>. QED
  BY <1>10, <1>11

\* One step of readStepsLogs keeps B's place and the order of the records.
LEMMA OutStep ==
    ASSUME IInv, OutCursor, LiveLogOrder, bStep
    PROVE  (OutCursor /\ LiveLogOrder)'
<1> DEFINE r == [pod |-> cur, step |-> stepIdx]
<1>1. bPc = "step" /\ UNCHANGED <<sentSeq, cur>>
  BY DEF bStep
<1>2. CASE out' = out /\ stepIdx' = stepIdx + 1 /\ bPc' = bPc
  BY <1>1, <1>2, OutMove
<1>3. CASE out' = Append(out, r) /\ stepIdx' = stepIdx + 1 /\ bPc' = bPc
  BY <1>1, <1>3, OutAppend DEF r
<1>4. CASE out' = Append(out, r) /\ stepIdx' = stepIdx /\ bPc' = "recv"
  BY <1>1, <1>4, OutAppend DEF r
<1>. QED
  BY <1>2, <1>3, <1>4, Zenon DEF bStep


THEOREM LogInvInit == Init => LogInv
<1> SUFFICES ASSUME Init PROVE LogInv
  OBVIOUS
<1>1. IInv
  BY IInvInit
<1>2. bPc = "none" /\ out = << >>
  BY DEF Init
<1>. QED
  BY <1>1, <1>2 DEF LogInv, OutCursor, LiveLogOrder

THEOREM LogInvStep == LogInv /\ [Next]_vars => LogInv'
<1> SUFFICES ASSUME LogInv, [Next]_vars PROVE LogInv'
  OBVIOUS
<1>0. IInv /\ OutCursor /\ LiveLogOrder
  BY DEF LogInv
<1>1. IInv'
  BY <1>0, IInvStep
<1> SUFFICES (OutCursor /\ LiveLogOrder)'
  BY <1>1 DEF LogInv
<1>3. CASE dSendPod
  BY <1>0, <1>3, OutNewPod
<1>4. CASE bStep
  BY <1>0, <1>4, OutStep
<1>5. CASE spawnB \/ bWaitGet \/ bWaitVerdict \/ bStepsDone \/ closeLogC
  <2>1. UNCHANGED <<out, sentSeq, cur>>
    BY <1>5 DEF spawnB, bWaitGet, bWaitVerdict, bStepsDone, closeLogC, bVars
  <2>2. \/ bPc = "recv" /\ bPc' \in {"recv", "done"}
        \/ bPc = "none" /\ bPc' = "recv"
        \/ bPc = "wait" /\ bPc' \in {"wait", "watch"}
        \/ bPc = "watch" /\ bPc' = "step" /\ stepIdx' = 1
        \/ bPc = "step" /\ bPc' = "step" /\ stepIdx' = stepIdx + 1
        \/ bPc = "step" /\ bPc' = "recv"
    <3>1. spawnB => bPc = "none" /\ bPc' = "recv"
      BY <1>0 DEF spawnB, SpawnOrder, IInv
    <3>2. bWaitGet => bPc = "wait" /\ bPc' \in {"wait", "watch"}
      BY DEF bWaitGet
    <3>3. bWaitVerdict => bPc = "watch" /\ bPc' = "step" /\ stepIdx' = 1
      BY DEF bWaitVerdict
    <3>4. bStepsDone => bPc = "step" /\ bPc' = "recv"
      BY DEF bStepsDone
    <3>5. closeLogC => bPc = "recv" /\ bPc' \in {"recv", "done"}
      BY DEF closeLogC
    <3>. QED
      BY <1>5, <3>1, <3>2, <3>3, <3>4, <3>5
  <2>. QED
    BY <1>0, <2>1, <2>2, OutMove
<1>6. CASE \/ Cluster \/ readTaskLog \/ openWatch \/ spawnA
           \/ dInit \/ dSendsDone \/ dEvent \/ dTimeout \/ dErrSend \/ dExit
           \/ aDone \/ closeErrC
  <2>1. UNCHANGED outVars
    BY <1>6 DEF Cluster, readTaskLog, openWatch, spawnA, dInit, dSendsDone, dEvent,
       dTimeout, dErrSend, dExit, aDone, closeErrC, outVars, bVars
  <2>. QED
    BY <1>0, <2>1, OutQuiet
<1>7. CASE UNCHANGED vars
  <2>1. UNCHANGED outVars
    BY <1>7 DEF vars, outVars, bVars
  <2>. QED
    BY <1>0, <2>1, OutQuiet
<1>. QED
  BY <1>3, <1>4, <1>5, <1>6, <1>7 DEF Next, Main, Discovery, ForwardErrors, ReadPods

\* In live mode B's EOFLOG records come pod by pod in the order D hands the
\* pods over, and step by step within a pod, none twice (readStepsLogs at
\* task_reader.go:154-193, its return after a Status error included), for
\* every number of retries and steps.
THEOREM LogOrderSafe == Spec => []LiveLogOrder
<1>1. LogInv => LiveLogOrder
  BY DEF LogInv
<1>. QED
  BY <1>1, LogInvInit, LogInvStep, PTL DEF Spec

=============================================================================
