-------------------------- MODULE TaskReaderProofs --------------------------
(***************************************************************************)
(* Proofs about TaskReader for every value of the constants: the type     *)
(* invariant and the order of the records sent on logC.                   *)
(***************************************************************************)
EXTENDS TaskReader, SequenceTheorems, TLAPS

USE ConstAssumption

-----------------------------------------------------------------------------
(* Lemmas about the TaskRun snapshot and the pod names sent on podC.        *)

\* The pod names sent form a sequence of at most MaxRetries + 1 pods.
LEMMA PodsToSendType ==
    ASSUME tr \in TaskRunSnapshot
    PROVE  /\ PodsToSend \in Seq(Pod)
           /\ Len(PodsToSend) <= MaxRetries + 1
           /\ tr.retries \in Seq(Pod)
<1>1. PICK n \in 0..MaxRetries : tr.retries \in [1..n -> Pod]
  BY DEF TaskRunSnapshot, RetrySeq
<1>2. tr.retries \in Seq(Pod) /\ Len(tr.retries) = n
  BY <1>1
<1>3. CASE tr.podName # NoPod
  <2>1. tr.podName \in Pod
    BY <1>3 DEF TaskRunSnapshot
  <2>2. PodsToSend = tr.retries \o << tr.podName >>
    BY <1>3 DEF PodsToSend
  <2>. QED
    BY <1>2, <2>1, <2>2
<1>4. CASE tr.podName = NoPod
  BY <1>2, <1>4 DEF PodsToSend
<1>. QED
  BY <1>2, <1>3, <1>4

\* The k-th pod name sent is attempt number k: the sender's order agrees
\* with the order of the TaskRun status.
LEMMA AttemptOfSent ==
    ASSUME tr \in TaskRunSnapshot,
           NEW k \in 1..Len(PodsToSend)
    PROVE  AttemptOf(tr, PodsToSend[k]) = k
<1>. DEFINE R == tr.retries
            pn == tr.podName
<1>1. R \in Seq(Pod)
  BY PodsToSendType
<1>2. pn # NoPod
  BY DEF PodsToSend
<1>3. PodsToSend = R \o << pn >>
  BY <1>2 DEF PodsToSend
<1>4. /\ \A i, j \in DOMAIN R : i # j => R[i] # R[j]
      /\ \A i \in DOMAIN R : R[i] # pn
  BY DEF TaskRunSnapshot
<1>5. CASE k = Len(R) + 1
  <2>1. PodsToSend[k] = pn
    BY <1>1, <1>3, <1>5
  <2>. QED
    BY <2>1, <1>5 DEF AttemptOf
<1>6. CASE k \in 1..Len(R)
  <2>1. PodsToSend[k] = R[k]
    BY <1>1, <1>3, <1>6
  <2>2. R[k] # pn
    BY <1>1, <1>4, <1>6
  <2>3. k \in DOMAIN R
    BY <1>1, <1>6
  <2>4. (CHOOSE i \in DOMAIN R : R[i] = R[k]) = k
    <3>1. \E i \in DOMAIN R : R[i] = R[k]
      BY <2>3
    <3>2. \A i \in DOMAIN R : R[i] = R[k] => i = k
      BY <1>4, <2>3
    <3>. QED
      BY <3>1, <3>2
  <2>. QED
    BY <2>1, <2>2, <2>4 DEF AttemptOf
<1>. QED
  BY <1>1, <1>3, <1>5, <1>6

\* Keys compare as a strict lexicographic order.
LEMMA KeyLessTrans ==
    ASSUME NEW k \in Int \X Int \X Int, NEW l \in Int \X Int \X Int,
           NEW m \in Int \X Int \X Int,
           KeyLess(k, l), KeyLess(l, m)
    PROVE  KeyLess(k, m)
BY DEF KeyLess

\* The cursor is a triple of integers.
LEMMA CursorType ==
    ASSUME TypeOK
    PROVE  Cursor \in Int \X Int \X Int
BY DEF TypeOK, Cursor

\* A step that sends nothing on logC and moves the cursor forward (or leaves
\* it) keeps every record below it.
LEMMA BelowCursorKept ==
    ASSUME BelowCursor, out' = out, tr' = tr,
           Cursor \in Int \X Int \X Int, Cursor' \in Int \X Int \X Int,
           Cursor' = Cursor \/ KeyLess(Cursor, Cursor')
    PROVE  BelowCursor'
<1> SUFFICES ASSUME NEW i \in DOMAIN out'
             PROVE  /\ Key(tr, out[i]) \in Nat \X Nat \X Nat
                    /\ KeyLess(Key(tr, out[i]), Cursor')
  BY DEF BelowCursor
<1>1. /\ Key(tr, out[i]) \in Nat \X Nat \X Nat
      /\ KeyLess(Key(tr, out[i]), Cursor)
  BY DEF BelowCursor
<1>. QED
  BY <1>1, KeyLessTrans

\* A step that sends nothing on logC preserves the invariant as soon as it
\* preserves its control part and does not move the cursor back.
LEMMA QuietStep ==
    ASSUME IInv, TypeOK', WgCount', SpawnOrder', CurSent', out' = out, tr' = tr,
           Cursor' = Cursor \/ KeyLess(Cursor, Cursor')
    PROVE  IInv'
<1>1. Cursor \in Int \X Int \X Int
  BY CursorType DEF IInv
<1>2. Cursor' \in Int \X Int \X Int
  BY DEF TypeOK, Cursor
<1>3. BelowCursor'
  BY <1>1, <1>2, BelowCursorKept DEF IInv
<1>4. LogOrder'
  BY DEF IInv, LogOrder
<1>. QED
  BY <1>3, <1>4 DEF IInv

\* A step that sends record r on logC preserves the invariant when r is not
\* below the cursor and the new cursor is above r.
LEMMA AppendStep ==
    ASSUME IInv, TypeOK', WgCount', SpawnOrder', CurSent', tr' = tr,
           NEW r, out' = Append(out, r),
           Key(tr, r) \in Nat \X Nat \X Nat,
           Cursor = Key(tr, r) \/ KeyLess(Cursor, Key(tr, r)),
           KeyLess(Key(tr, r), Cursor')
    PROVE  IInv'
<1>0. out \in Seq(LogRec)
  BY DEF IInv, TypeOK
<1>1. Cursor \in Int \X Int \X Int /\ Cursor' \in Int \X Int \X Int
  <2>1. Cursor \in Int \X Int \X Int
    BY CursorType DEF IInv
  <2>2. Cursor' \in Int \X Int \X Int
    BY DEF TypeOK, Cursor
  <2>. QED
    BY <2>1, <2>2
<1>2. ASSUME NEW i \in DOMAIN out
      PROVE  /\ Key(tr, out[i]) \in Nat \X Nat \X Nat
             /\ KeyLess(Key(tr, out[i]), Key(tr, r))
  <2>1. Key(tr, out[i]) \in Nat \X Nat \X Nat /\ KeyLess(Key(tr, out[i]), Cursor)
    BY DEF IInv, BelowCursor
  <2>. QED
    BY <1>1, <2>1, KeyLessTrans
<1>3. BelowCursor'
  <2> SUFFICES ASSUME NEW i \in DOMAIN out'
               PROVE  /\ Key(tr, out'[i]) \in Nat \X Nat \X Nat
                      /\ KeyLess(Key(tr, out'[i]), Cursor')
    BY DEF BelowCursor
  <2>1. CASE i \in DOMAIN out
    <3>1. out'[i] = out[i]
      BY <1>0, <2>1
    <3>. QED
      BY <1>1, <1>2, <2>1, <3>1, KeyLessTrans
  <2>2. CASE i = Len(out) + 1
    BY <1>0, <2>2
  <2>. QED
    BY <1>0, <2>1, <2>2
<1>4. LogOrder'
  <2> SUFFICES ASSUME NEW i \in DOMAIN out', NEW j \in DOMAIN out', i < j
               PROVE  KeyLess(Key(tr, out'[i]), Key(tr, out'[j]))
    BY DEF LogOrder
  <2>1. i \in DOMAIN out
    BY <1>0
  <2>2. out'[i] = out[i]
    BY <1>0, <2>1
  <2>3. CASE j \in DOMAIN out
    BY <1>0, <2>1, <2>2, <2>3 DEF IInv, LogOrder
  <2>4. CASE j = Len(out) + 1
    BY <1>0, <1>2, <2>1, <2>2, <2>4
  <2>. QED
    BY <1>0, <2>3, <2>4
<1>. QED
  BY <1>3, <1>4 DEF IInv

\* A send on errC keeps errs a sequence of errors.
LEMMA SendErrType ==
    ASSUME errs \in Seq(ErrRec), panicked \in BOOLEAN, NEW e \in ErrRec, SendErr(e)
    PROVE  errs' \in Seq(ErrRec) /\ panicked' \in BOOLEAN
<1>1. CASE errClosed
  BY <1>1 DEF SendErr
<1>2. CASE ~errClosed
  <2>1. errs' = Append(errs, e) /\ panicked' = panicked
    BY <1>2 DEF SendErr
  <2>. QED
    BY <2>1
<1>. QED
  BY <1>1, <1>2

-----------------------------------------------------------------------------
(* The inductive invariant.                                                 *)

\* The initial state of readTaskLog, before any goroutine starts, satisfies
\* the inductive invariant.
THEOREM IInvInit == Init => IInv
<1> SUFFICES ASSUME Init PROVE IInv
  OBVIOUS
<1>1. TypeOK
  <2>1. out \in Seq(LogRec) /\ errs \in Seq(ErrRec)
    BY DEF Init
  <2>2. podIdx \in 1..(MaxRetries + 2) /\ stepIdx \in 1..(NSteps + 1)
    BY DEF Init
  <2>3. tr \in TaskRunSnapshot /\ stream \in BOOLEAN
    BY DEF Init
  <2>4. /\ nSteps \in 0..NSteps /\ nLines \in 0..MaxLines /\ nErrs \in 0..MaxErrs
        /\ wg \in 0..2
    BY DEF Init
  <2>5. cur \in Pod \cup {NoPod}
    BY DEF Init
  <2>. QED
    BY <2>1, <2>2, <2>3, <2>4, <2>4, <2>5 DEF Init, TypeOK
<1>2. WgCount /\ SpawnOrder /\ CurSent
  BY DEF Init, WgCount, SpawnOrder, CurSent
<1>3. BelowCursor /\ LogOrder
  BY DEF Init, BelowCursor, LogOrder
<1>. QED
  BY <1>1, <1>2, <1>3 DEF IInv

\* Every step of readTaskLog, of the pod sender, of the error forwarder and
\* of the reading goroutine preserves the inductive invariant.
THEOREM IInvStep == IInv /\ [Next]_vars => IInv'
<1> SUFFICES ASSUME IInv, [Next]_vars PROVE IInv'
  OBVIOUS
<1>0. TypeOK /\ WgCount /\ SpawnOrder /\ CurSent
  BY DEF IInv
<1>p. PodsToSend \in Seq(Pod) /\ Len(PodsToSend) <= MaxRetries + 1
  BY <1>0, PodsToSendType DEF TypeOK
<1>c. bPc \in {"get", "step", "stream"} =>
        /\ podIdx - 1 \in 1..Len(PodsToSend)
        /\ cur = PodsToSend[podIdx - 1]
        /\ cur \in Pod
  BY <1>0, <1>p DEF CurSent, TypeOK
<1>1. CASE UNCHANGED vars
  <2>1. TypeOK'
    BY <1>0, <1>1 DEF vars, bLocals, TypeOK, WgCount, SpawnOrder
  <2>2. WgCount'
    BY <1>0, <1>1 DEF vars, bLocals, WgCount, SpawnOrder
  <2>3. CurSent'
    BY <1>0, <1>1 DEF vars, bLocals, CurSent, PodsToSend, TypeOK
  <2>4. SpawnOrder'
    BY <1>0, <1>1 DEF vars, bLocals, SpawnOrder
  <2>. QED
    BY <2>1, <2>2, <2>3, <2>4, <1>0, <1>1, QuietStep DEF vars, bLocals, Cursor, KeyLess, TypeOK
<1>2. CASE readTaskLog
  <2>1. TypeOK'
    BY <1>0, <1>2 DEF readTaskLog, bLocals, TypeOK, WgCount, SpawnOrder
  <2>2. WgCount'
    BY <1>0, <1>2 DEF readTaskLog, bLocals, WgCount, SpawnOrder
  <2>3. CurSent'
    BY <1>0, <1>2 DEF readTaskLog, bLocals, CurSent, PodsToSend, TypeOK
  <2>4. SpawnOrder'
    BY <1>0, <1>2 DEF readTaskLog, bLocals, SpawnOrder
  <2>. QED
    BY <2>1, <2>2, <2>3, <2>4, <1>0, <1>2, QuietStep DEF readTaskLog, bLocals, Cursor, KeyLess, TypeOK
<1>3. CASE spawnA
  <2>1. TypeOK'
    BY <1>0, <1>3 DEF spawnA, bLocals, TypeOK, WgCount, SpawnOrder
  <2>2. WgCount'
    BY <1>0, <1>3 DEF spawnA, bLocals, WgCount, SpawnOrder
  <2>3. CurSent'
    BY <1>0, <1>3 DEF spawnA, bLocals, CurSent, PodsToSend, TypeOK
  <2>4. SpawnOrder'
    BY <1>0, <1>3 DEF spawnA, bLocals, SpawnOrder
  <2>. QED
    BY <2>1, <2>2, <2>3, <2>4, <1>0, <1>3, QuietStep DEF spawnA, bLocals, Cursor, KeyLess, TypeOK
<1>4. CASE spawnB
  <2>1. TypeOK'
    BY <1>0, <1>4 DEF spawnB, bLocals, TypeOK, WgCount, SpawnOrder
  <2>2. WgCount'
    BY <1>0, <1>4 DEF spawnB, bLocals, WgCount, SpawnOrder
  <2>3. CurSent'
    BY <1>0, <1>4 DEF spawnB, bLocals, CurSent, PodsToSend, TypeOK
  <2>4. SpawnOrder'
    BY <1>0, <1>4 DEF spawnB, bLocals, SpawnOrder
  <2>. QED
    BY <2>1, <2>2, <2>3, <2>4, <1>0, <1>4, QuietStep DEF spawnB, bLocals, Cursor, KeyLess, TypeOK
<1>5. CASE sendPod
  <2>1. TypeOK'
    BY <1>0, <1>p, <1>5 DEF sendPod, bLocals, TypeOK, WgCount, SpawnOrder
  <2>2. WgCount'
    BY <1>0, <1>5 DEF sendPod, bLocals, WgCount, SpawnOrder
  <2>3. CurSent'
    BY <1>0, <1>p, <1>5 DEF sendPod, bLocals, CurSent, PodsToSend, TypeOK
  <2>4. SpawnOrder'
    BY <1>0, <1>5 DEF sendPod, bLocals, SpawnOrder
  <2>. QED
    BY <2>1, <2>2, <2>3, <2>4, <1>0, <1>5, QuietStep DEF sendPod, bLocals, Cursor, KeyLess, TypeOK
<1>6. CASE closePodC
  <2>1. TypeOK'
    BY <1>0, <1>6 DEF closePodC, bLocals, TypeOK, WgCount, SpawnOrder
  <2>2. WgCount'
    BY <1>0, <1>6 DEF closePodC, bLocals, WgCount, SpawnOrder
  <2>3. CurSent'
    BY <1>0, <1>6 DEF closePodC, bLocals, CurSent, PodsToSend, TypeOK
  <2>4. SpawnOrder'
    BY <1>0, <1>6 DEF closePodC, bLocals, SpawnOrder
  <2>. QED
    BY <2>1, <2>2, <2>3, <2>4, <1>0, <1>6, QuietStep DEF closePodC, bLocals, Cursor, KeyLess, TypeOK
<1>7. CASE forwardDone
  <2>1. TypeOK'
    BY <1>0, <1>7 DEF forwardDone, bLocals, TypeOK, WgCount, SpawnOrder
  <2>2. WgCount'
    BY <1>0, <1>7 DEF forwardDone, bLocals, WgCount, SpawnOrder
  <2>3. CurSent'
    BY <1>0, <1>7 DEF forwardDone, bLocals, CurSent, PodsToSend, TypeOK
  <2>4. SpawnOrder'
    BY <1>0, <1>7 DEF forwardDone, bLocals, SpawnOrder
  <2>. QED
    BY <2>1, <2>2, <2>3, <2>4, <1>0, <1>7, QuietStep DEF forwardDone, bLocals, Cursor, KeyLess, TypeOK
<1>8. CASE closeErrC
  <2>1. TypeOK'
    BY <1>0, <1>8 DEF closeErrC, bLocals, TypeOK, WgCount, SpawnOrder
  <2>2. WgCount'
    BY <1>0, <1>8 DEF closeErrC, bLocals, WgCount, SpawnOrder
  <2>3. CurSent'
    BY <1>0, <1>8 DEF closeErrC, bLocals, CurSent, PodsToSend, TypeOK
  <2>4. SpawnOrder'
    BY <1>0, <1>8 DEF closeErrC, bLocals, SpawnOrder
  <2>. QED
    BY <2>1, <2>2, <2>3, <2>4, <1>0, <1>8, QuietStep DEF closeErrC, bLocals, Cursor, KeyLess, TypeOK
<1>9. CASE getPod
  <2>1. TypeOK'
    <3>1. [pod |-> cur, kind |-> "get"] \in ErrRec
      BY <1>c, <1>9 DEF getPod, ErrRec, ErrKind
    <3>2. SendErr([pod |-> cur, kind |-> "get"]) => errs' \in Seq(ErrRec) /\ panicked' \in BOOLEAN
      BY <1>0, <3>1, SendErrType DEF TypeOK
    <3>3. CASE (\E n \in 0..NSteps : nSteps' = n) /\ UNCHANGED <<errs, panicked>>
      BY <1>0, <1>9, <3>3 DEF getPod, bLocals, TypeOK
    <3>4. CASE SendErr([pod |-> cur, kind |-> "get"]) /\ nSteps' = 0
      BY <1>0, <1>9, <3>2, <3>4 DEF getPod, bLocals, TypeOK
    <3>. QED
      BY <1>9, <3>3, <3>4 DEF getPod
  <2>2. WgCount'
    BY <1>0, <1>9 DEF getPod, bLocals, WgCount, SpawnOrder, SendErr, errClosed
  <2>3. CurSent'
    BY <1>0, <1>9 DEF getPod, bLocals, CurSent, PodsToSend, TypeOK, SendErr, errClosed
  <2>4. SpawnOrder'
    BY <1>0, <1>9 DEF getPod, bLocals, SpawnOrder, SendErr, errClosed
  <2>. QED
    BY <2>1, <2>2, <2>3, <2>4, <1>0, <1>9, QuietStep DEF getPod, bLocals, Cursor, KeyLess, TypeOK, SendErr, errClosed, CurSent
<1>10. CASE readStep
  <2>1. TypeOK'
    <3>1. [pod |-> cur, kind |-> "read"] \in ErrRec
      BY <1>c, <1>10 DEF readStep, ErrRec, ErrKind
    <3>2. SendErr([pod |-> cur, kind |-> "read"]) => errs' \in Seq(ErrRec) /\ panicked' \in BOOLEAN
      BY <1>0, <3>1, SendErrType DEF TypeOK
    <3>3. CASE stepIdx' = stepIdx + 1 /\ UNCHANGED <<bPc, logOpen, errOpen, nLines, nErrs, errs, panicked>>
      BY <1>0, <1>10, <3>3 DEF readStep, bLocals, TypeOK
    <3>4. CASE SendErr([pod |-> cur, kind |-> "read"]) /\ stepIdx' = stepIdx + 1
               /\ UNCHANGED <<bPc, logOpen, errOpen, nLines, nErrs>>
      BY <1>0, <1>10, <3>2, <3>4 DEF readStep, bLocals, TypeOK
    <3>5. CASE bPc' = "stream" /\ logOpen' = TRUE /\ errOpen' = TRUE /\ nLines' = 0
               /\ nErrs' = 0 /\ UNCHANGED <<stepIdx, errs, panicked>>
      BY <1>0, <1>10, <3>5 DEF readStep, bLocals, TypeOK
    <3>. QED
      BY <1>10, <3>3, <3>4, <3>5 DEF readStep
  <2>2. WgCount'
    BY <1>0, <1>10 DEF readStep, bLocals, WgCount, SpawnOrder, SendErr, errClosed
  <2>3. CurSent'
    BY <1>0, <1>10 DEF readStep, bLocals, CurSent, PodsToSend, TypeOK, SendErr, errClosed
  <2>4. SpawnOrder'
    BY <1>0, <1>10 DEF readStep, bLocals, SpawnOrder, SendErr, errClosed
  <2>. QED
    <3>1. CASE bPc' = "step"
      BY <2>1, <2>2, <2>3, <2>4, <1>0, <1>10, <3>1, QuietStep DEF readStep, bLocals, Cursor, KeyLess, TypeOK
    <3>2. CASE bPc' = "stream"
      BY <2>1, <2>2, <2>3, <2>4, <1>0, <1>10, <3>2, QuietStep DEF readStep, bLocals, Cursor, KeyLess, TypeOK
    <3>. QED
      BY <1>10, <3>1, <3>2 DEF readStep
<1>11. CASE stepsDone
  <2>1. TypeOK'
    BY <1>0, <1>c, <1>11 DEF stepsDone, bLocals, TypeOK, WgCount, SpawnOrder, SendErr, errClosed, ErrRec, ErrKind, CurSent
  <2>2. WgCount'
    BY <1>0, <1>11 DEF stepsDone, bLocals, WgCount, SpawnOrder, SendErr, errClosed
  <2>3. CurSent'
    BY <1>0, <1>11 DEF stepsDone, bLocals, CurSent, PodsToSend, TypeOK, SendErr, errClosed
  <2>4. SpawnOrder'
    BY <1>0, <1>11 DEF stepsDone, bLocals, SpawnOrder, SendErr, errClosed
  <2>. QED
    BY <2>1, <2>2, <2>3, <2>4, <1>0, <1>11, QuietStep DEF stepsDone, bLocals, Cursor, KeyLess, TypeOK, SendErr, errClosed, CurSent
<1>12. CASE readContainerErr
  <2>1. TypeOK'
    <3>1. [pod |-> cur, kind |-> "container"] \in ErrRec
      BY <1>c, <1>12 DEF readContainerErr, ErrRec, ErrKind
    <3>2. SendErr([pod |-> cur, kind |-> "container"]) => errs' \in Seq(ErrRec) /\ panicked' \in BOOLEAN
      BY <1>0, <3>1, SendErrType DEF TypeOK
    <3>. QED
      BY <1>0, <1>12, <3>2 DEF readContainerErr, bLocals, TypeOK, SendErr
  <2>2. WgCount'
    BY <1>0, <1>12 DEF readContainerErr, bLocals, WgCount, SpawnOrder, SendErr, errClosed
  <2>3. CurSent'
    BY <1>0, <1>12 DEF readContainerErr, bLocals, CurSent, PodsToSend, TypeOK, SendErr, errClosed
  <2>4. SpawnOrder'
    BY <1>0, <1>12 DEF readContainerErr, bLocals, SpawnOrder, SendErr, errClosed
  <2>. QED
    BY <2>1, <2>2, <2>3, <2>4, <1>0, <1>12, QuietStep DEF readContainerErr, bLocals, Cursor, KeyLess, TypeOK, SendErr, errClosed, CurSent
<1>13. CASE readErrEOF
  <2>1. TypeOK'
    BY <1>0, <1>c, <1>13 DEF readErrEOF, bLocals, TypeOK, WgCount, SpawnOrder, SendErr, errClosed, ErrRec, ErrKind, CurSent
  <2>2. WgCount'
    BY <1>0, <1>13 DEF readErrEOF, bLocals, WgCount, SpawnOrder, SendErr, errClosed
  <2>3. CurSent'
    BY <1>0, <1>13 DEF readErrEOF, bLocals, CurSent, PodsToSend, TypeOK, SendErr, errClosed
  <2>4. SpawnOrder'
    BY <1>0, <1>13 DEF readErrEOF, bLocals, SpawnOrder, SendErr, errClosed
  <2>. QED
    BY <2>1, <2>2, <2>3, <2>4, <1>0, <1>13, QuietStep DEF readErrEOF, bLocals, Cursor, KeyLess, TypeOK, SendErr, errClosed, CurSent
<1>14. CASE stepStatus
  <2>1. TypeOK'
    <3>1. [pod |-> cur, kind |-> "status"] \in ErrRec
      BY <1>c, <1>14 DEF stepStatus, ErrRec, ErrKind
    <3>2. SendErr([pod |-> cur, kind |-> "status"]) => errs' \in Seq(ErrRec) /\ panicked' \in BOOLEAN
      BY <1>0, <3>1, SendErrType DEF TypeOK
    <3>3. CASE stepIdx' = stepIdx + 1 /\ bPc' = "step" /\ UNCHANGED <<errs, panicked>>
      BY <1>0, <1>14, <3>3 DEF stepStatus, bLocals, TypeOK, CurSent
    <3>4. CASE SendErr([pod |-> cur, kind |-> "status"]) /\ bPc' = "recv" /\ UNCHANGED stepIdx
      BY <1>0, <1>14, <3>2, <3>4 DEF stepStatus, bLocals, TypeOK
    <3>. QED
      BY <1>14, <3>3, <3>4 DEF stepStatus
  <2>2. WgCount'
    BY <1>0, <1>14 DEF stepStatus, bLocals, WgCount, SpawnOrder, SendErr, errClosed
  <2>3. CurSent'
    BY <1>0, <1>14 DEF stepStatus, bLocals, CurSent, PodsToSend, TypeOK, SendErr, errClosed
  <2>4. SpawnOrder'
    BY <1>0, <1>14 DEF stepStatus, bLocals, SpawnOrder, SendErr, errClosed
  <2>. QED
    <3>1. CASE bPc' = "step"
      BY <2>1, <2>2, <2>3, <2>4, <1>0, <1>14, <3>1, QuietStep DEF stepStatus, bLocals, Cursor, KeyLess, TypeOK
    <3>2. CASE bPc' = "recv"
      BY <2>1, <2>2, <2>3, <2>4, <1>0, <1>14, <3>2, QuietStep DEF stepStatus, bLocals, Cursor, KeyLess, TypeOK
    <3>. QED
      BY <1>14, <3>1, <3>2 DEF stepStatus
<1>15. CASE closeLogC
  <2>1. TypeOK'
    BY <1>0, <1>c, <1>15 DEF closeLogC, bLocals, TypeOK, WgCount, SpawnOrder, SendErr, errClosed, ErrRec, ErrKind, CurSent
  <2>2. WgCount'
    BY <1>0, <1>15 DEF closeLogC, bLocals, WgCount, SpawnOrder, SendErr, errClosed
  <2>3. CurSent'
    BY <1>0, <1>15 DEF closeLogC, bLocals, CurSent, PodsToSend, TypeOK, SendErr, errClosed
  <2>4. SpawnOrder'
    BY <1>0, <1>15 DEF closeLogC, bLocals, SpawnOrder, SendErr, errClosed
  <2>. QED
    BY <2>1, <2>2, <2>3, <2>4, <1>0, <1>15, QuietStep DEF closeLogC, bLocals, Cursor, KeyLess, TypeOK, SendErr, errClosed, CurSent
<1>16. CASE readLine
  <2>1. TypeOK'
    BY <1>0, <1>c, <1>16 DEF readLine, TypeOK, LogRec, CurSent
  <2>2. WgCount'
    BY <1>0, <1>16 DEF readLine, WgCount
  <2>3. CurSent'
    BY <1>0, <1>16 DEF readLine, CurSent, PodsToSend
  <2>4. SpawnOrder'
    BY <1>0, <1>16 DEF readLine, SpawnOrder
  <2> DEFINE r == [pod |-> cur, step |-> stepIdx, log |-> nLines + 1]
  <2>5. AttemptOf(tr, cur) = podIdx - 1
    BY <1>0, <1>c, <1>16, AttemptOfSent DEF readLine, TypeOK
  <2>6. Key(tr, r) = << podIdx - 1, stepIdx, nLines + 1 >>
    BY <2>5, <1>0 DEF Key, LineRank, EOFLOG, TypeOK
  <2>7. Cursor = << podIdx - 1, stepIdx, nLines + 1 >>
    BY <1>16 DEF readLine, Cursor
  <2>8. Cursor' = << podIdx - 1, stepIdx, nLines + 2 >>
    BY <1>0, <1>16 DEF readLine, Cursor, TypeOK
  <2>9. Key(tr, r) \in Nat \X Nat \X Nat
    BY <2>6, <1>0, <1>c, <1>16 DEF readLine, TypeOK
  <2>10. out' = Append(out, r) /\ tr' = tr
    BY <1>16 DEF readLine, r
  <2>11. KeyLess(Key(tr, r), Cursor')
    BY <2>6, <2>8, <1>0 DEF TypeOK, KeyLess
  <2>. QED
    BY <2>1, <2>2, <2>3, <2>4, <2>6, <2>7, <2>9, <2>10, <2>11, AppendStep
<1>17. CASE readLogEOF
  <2>1. TypeOK'
    <3>1. [pod |-> cur, step |-> stepIdx, log |-> EOFLOG] \in LogRec
      BY <1>0, <1>c, <1>17 DEF readLogEOF, TypeOK, LogRec, CurSent, EOFLOG
    <3>2. out' \in Seq(LogRec)
      BY <3>1, <1>0, <1>17 DEF readLogEOF, TypeOK
    <3>. QED
      BY <3>2, <1>0, <1>17 DEF readLogEOF, TypeOK
  <2>2. WgCount'
    BY <1>0, <1>17 DEF readLogEOF, WgCount
  <2>3. CurSent'
    BY <1>0, <1>17 DEF readLogEOF, CurSent, PodsToSend
  <2>4. SpawnOrder'
    BY <1>0, <1>17 DEF readLogEOF, SpawnOrder
  <2> DEFINE r == [pod |-> cur, step |-> stepIdx, log |-> EOFLOG]
  <2>5. AttemptOf(tr, cur) = podIdx - 1
    BY <1>0, <1>c, <1>17, AttemptOfSent DEF readLogEOF, TypeOK
  <2>6. Key(tr, r) = << podIdx - 1, stepIdx, MaxLines + 1 >>
    BY <2>5 DEF Key, LineRank
  <2>7. Cursor = << podIdx - 1, stepIdx, nLines + 1 >>
    BY <1>17 DEF readLogEOF, Cursor
  <2>8. Cursor' = << podIdx - 1, stepIdx, MaxLines + 2 >>
    BY <1>17 DEF readLogEOF, Cursor
  <2>9. Key(tr, r) \in Nat \X Nat \X Nat
    BY <2>6, <1>0, <1>c, <1>17 DEF readLogEOF, TypeOK
  <2>10. Cursor = Key(tr, r) \/ KeyLess(Cursor, Key(tr, r))
    BY <2>6, <2>7, <1>0 DEF TypeOK, KeyLess
  <2>11. out' = Append(out, r) /\ tr' = tr
    BY <1>17 DEF readLogEOF, r
  <2>12. KeyLess(Key(tr, r), Cursor')
    BY <2>6, <2>8, <1>0 DEF TypeOK, KeyLess
  <2>. QED
    BY <2>1, <2>2, <2>3, <2>4, <2>9, <2>10, <2>11, <2>12, AppendStep
<1>. QED
  BY <1>1, <1>2, <1>3, <1>4, <1>5, <1>6, <1>7, <1>8, <1>9, <1>10, <1>11, <1>12,
     <1>13, <1>14, <1>15, <1>16, <1>17 DEF Next, Main, Producer, ForwardErrors, ReadPods

-----------------------------------------------------------------------------
(* The invariants of every behaviour of the reader.                         *)

\* Type correctness: every variable of the reader, its goroutines and its
\* channels stays in its type in every reachable state.
THEOREM TypeCorrect == Spec => []TypeOK
<1>1. Init => IInv
  BY IInvInit
<1>2. IInv /\ [Next]_vars => IInv'
  BY IInvStep
<1>3. IInv => TypeOK
  BY DEF IInv
<1>. QED
  BY <1>1, <1>2, <1>3, PTL DEF Spec

\* The records readStepsLogs sends on logC come in the order of the
\* attempts, then of the steps, then of the lines, and each EOFLOG after its
\* step's lines, whatever the interleaving of the pod sender, the error
\* forwarder and the reading goroutine.
THEOREM OrderSafe == Spec => []LogOrder
<1>1. Init => IInv
  BY IInvInit
<1>2. IInv /\ [Next]_vars => IInv'
  BY IInvStep
<1>3. IInv => LogOrder
  BY DEF IInv
<1>. QED
  BY <1>1, <1>2, <1>3, PTL DEF Spec

\* The inductive invariant of the reader (the WaitGroup counts the running
\* goroutines, they start in order, the reading goroutine works on the last
\* pod sent, and every record sent is below the cursor) holds throughout.
THEOREM IInvSafe == Spec => []IInv
BY IInvInit, IInvStep, PTL DEF Spec
=============================================================================
