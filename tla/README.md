# Verification of the task log reader

These are TLA+ models of the concurrent core of `tkn`'s log reading:
- `src/pkg/log/task_reader.go`, the task run log reader;
- `src/unnamed/part_000`, which holds `pkg/pods/pod.go` (the pod watcher `Wait`).

The project contains TLC configurations for small instances and TLAPS proofs for every instance.

## The system

A `Reader` turns one TaskRun into two unbuffered channels: `logC` for log records and `errC` for errors.

- **`readTaskLog`** (`task_reader.go:48-67`) fetches the TaskRun. It then chooses one of two modes:
  - **available** mode (`readAvailableTaskLogs`, 100-147): the task is done, or `follow` is off;
  - **live** mode (`readLiveTaskLogs` / `getTaskRunPodNames`, 87-98 and 273-355).
- **Pod-name producer.** In available mode, a goroutine sends the retry pods (oldest first) and then the current pod on `podC`, and closes it. In live mode, a watch goroutine does the same from TaskRun events, with a pod set and a one-shot activity timeout.
- **`readPodLogs`** (197-267) starts two goroutines under a `sync.WaitGroup`:
  - **A** forwards the producer's errors. It then calls `wg.Done()` and `wg.Wait()`, and closes `errC`.
  - **B** ranges over `podC`. For each pod it calls `Get` (or `Wait` in follow mode), sends any error, selects the steps, and runs **`readStepsLogs`** (149-195). When `podC` is closed, B closes `logC` and calls `wg.Done()`.
- **`readStepsLogs`** reads each step's container. A `select` loop multiplexes the line channel and the error channel. It sends `EOFLOG` when the line channel closes, and then checks `container.Status()`.
- **`pods.Pod.Wait`** (`pod.go:74-105`) is used in follow mode. It involves three actors:
  - the goroutine in `Wait`: a `Get` probe, then an informer started by `watcher`, then a range over `eventC` until `checkPodStatus` gives a verdict;
  - the informer's handler goroutine (`AddFunc`, `UpdateFunc`, `DeleteFunc`), which takes `mu`, checks `stopC` and sends on `eventC`;
  - a deferred function of `Wait` that closes both channels under `mu`.

## Modules

| module | models | source |
|---|---|---|
| `TaskReader` | available mode: `readTaskLog`, the pod sender, `readPodLogs` with goroutines A and B and the WaitGroup, `readStepsLogs` | `task_reader.go:48-267` |
| `MC_TaskReader` | TLC instance: two pods (one retry, one current) | |
| `TaskReaderProofs` | TLAPS proofs about `TaskReader` | |
| `PodWatcher` | `Wait`, `watcher`, the three handlers with `mu` and `stopC`, `checkPodStatus`, the cluster producing notifications | `pod.go:74-196` |
| `MC_PodWatcher` | TLC instance: three notifications | |
| `PodWatcherProofs` | TLAPS proofs about `PodWatcher` | |
| `LiveReader` | live mode: `readTaskLog`, `readLiveTaskLogs`, `getTaskRunPodNames` (goroutine D), `readPodLogs` in follow mode (A and B, with `Wait` as its Get probe and its verdict), `readStepsLogs` per step, the TaskRun and its pods in the cluster | `task_reader.go:48-98, 149-355, 429-459`, `pod.go:74-105` |
| `MC_LiveReader` | TLC instance: two retries (three attempts), two steps per pod for the ordering run and one for the others | |
| `LiveReaderProofs` | TLAPS proofs about `LiveReader` | |
| `PodReading` | abstract specification of which pods the reader reads: attempts appear one by one, and the reader reads an existing attempt's pod, once, never older than one already read | spec: "pod names observed across a task's retries are unique and visited in retry order" |
| `StepSelection` | `filterSteps`, `getSteps`, `getInitSteps` as operators, one step computing them | `task_reader.go:357-427` |
| `MC_StepSelection` | TLC instance: container bases `a` and `b` | |

### TaskReader

Each goroutine is a program counter:
- `mainPc` is the caller;
- `pPc` is the pod sender;
- `aPc` is goroutine A;
- `bPc` is goroutine B, together with its locals `cur`, `nSteps`, `stepIdx`, `logOpen`, `errOpen`, `nLines` and `nErrs`.

`wg` is the WaitGroup counter, and `Wait` is the guard `wg = 0`.

Channels are modelled as follows:
- `podC` is unbuffered. A send is one joint step of the sender and of B (`sendPod`).
- `logC` and `errC` are drained by the caller. A send on them appends to `out` or `errs`.
- A send on a closed `errC` sets `panicked` (`SendErr`), and nothing runs after a panic.

Data is abstracted:
- the TaskRun is a snapshot `tr` with `started`, `failed`, `podName` and an injective `retries` sequence;
- a log line is its index in the step (`EOFLOG` is 0);
- an error is a pair of a pod and the call that failed;
- `filterSteps` is abstracted to the number of steps it returns.

Each action is one step of the code:
- `readTaskLog`: the three outcomes of the start, from `GetTaskRun` to the checks of `readAvailableTaskLogs`;
- `spawnA` and `spawnB`: the two `wg.Add(1); go`;
- `sendPod` and `closePodC`: the pod sender;
- `forwardDone` and `closeErrC`: goroutine A;
- `getPod`: `p.Get()`, with the error sent and the empty pod returned by the client;
- `readStep`: the step is skipped, `Read()` fails, or the step is opened;
- `readLine`, `readLogEOF`, `readContainerErr` and `readErrEOF`: the four branches of the select;
- `stepStatus`: `Status()`;
- `stepsDone` and `closeLogC`: the end of the step loop, and the end of the range over `podC`.

### PodWatcher

The variables are:
- `wPc`: the `Wait` goroutine;
- `hPc` and `hEv`: the handler and the notification it is delivering;
- `mu`: the holder of the mutex;
- `stopClosed` and `eventClosed`: whether the two channels are closed;
- `history`: the notifications the cluster has produced;
- `hNext`: the index of the next notification to deliver;
- `panic`.

A notification is abstracted to what `checkPodStatus` and the handlers distinguish: pending, ready, deleting, image-pull failure, or a `DeletedFinalStateUnknown` tombstone.

The handler steps are:
- `handlerLock`;
- `handlerSelect`: the `stopC` check, or the log line that asserts `*corev1.Pod`;
- `handlerSend`: a joint step with `Wait`'s receive and `checkPodStatus`.

The deferred Lock/close/close/Unlock is a single step (`deferClose`), because the handler cannot run while `mu` is held.

### LiveReader

The TaskRun is abstracted to a snapshot `[started, done, failed, nAtt]`. Attempt `i` runs pod `i`: `status.podName` is attempt `nAtt` and `retriesStatus` holds the attempts before it. The cluster (`cl`) starts the run, makes a new attempt while retries remain, and finishes it (failed or not). It also settles a pod (`podSettle`: the pod reaches a state `checkPodStatus` decides on) and may end the watch (`watchBreak`).

The watch is a queue `wq` of events. It starts with the current object, because `actions.Watch` lists from no resource version, and each change of `cl` is appended while the watch is open. A broken watch appends an event `cast2taskrun` rejects.

The actors are:
- **main** (`mainPc`): `readTaskLog` (a start error, available mode, or live mode with the snapshot `run`), `openWatch` (`actions.Watch`, the start of D), then `spawnA` and `spawnB` in `readPodLogs`;
- **D** (`dPc`, `run`, `podMap`, `dQ`, `dAfter`, `timerUsed`):
  - `dInit` queues the retries and the pod name of the first snapshot;
  - `dSendPod` is `podC <- name`, a joint step with B's receive; `sentSeq` records the sends;
  - `dEvent` is the event branch (`cast2taskrun`, `addPod` through `podMap`, `areRetriesScheduled`);
  - `dTimeout` is the one-shot timeout branch (`hasTaskRunFailed`, then continue, return or "not started");
  - `dErrSend` is `errC <- err`, forwarded by A;
  - `dExit` is the deferred close of `podC` and `podErrC` and `watchRun.Stop()`;
- **A** (`aPc`): `aDone` when `podErrC` is closed, then `closeErrC` after `wg.Wait()`;
- **B** (`bPc`, `cur`, `nSteps`, `stepIdx`, `waitErr`):
  - `bWaitGet` is `Wait`'s Get probe; its failure sends the error, and `filterSteps(nil)` then panics;
  - `bWaitVerdict` is `Wait`'s verdict for a settled pod, with or without an error, and the number of steps `filterSteps` returns;
  - `bStep` is one step of `readStepsLogs`: a `Read` error, or the step's `EOFLOG` followed by `Status()`, whose error ends the pod;
  - `bStepsDone` and `closeLogC` end the pod and the range over `podC`.

`PodWatcher` models `Wait` in detail; here `Wait` is two steps, since its deadlock and tombstone findings are covered there.

### PodReading and the refinement

`PodReading` says what the reader promises about pods, with no goroutines and no channels. `attempts` counts the TaskRun's attempts. `read` lists the attempts whose pods were read. `NewAttempt` makes an attempt (at most `Limit`). `ReadPod(p)` reads the pod of an existing attempt `p` that is newer than every pod read before.

`LiveReader` instantiates it as `Reading`, with `Limit <- MaxAttempts`, `attempts <- cl.nAtt` and `read <- sentSeq` (the pods D has handed to B). Each step of live mode maps to one of these:
- the cluster's new attempt (`clNewPod`) is `NewAttempt`;
- D's `podC <- name` (`dSendPod`) is `ReadPod`;
- every other step leaves both mapped variables alone, so it is a stutter.

`PodReadingRefined == Reading!Spec` is the property. It replaces the earlier `PodsInOrder` invariant and says more: each pod read is also an attempt the cluster has already made.

### StepSelection

A container name is a base from `Base` with or without the `step-` prefix. A pod has unique container names across its init containers and its containers, and statuses for some of them. The initial states enumerate every such pod, the `allSteps` flag and every allow-list up to `MaxGiven` names; one step computes `filterSteps`. The properties compare the result with the spec's description: start from the regular containers, prepend the init containers when all steps are asked for, and intersect with the allow-list.

## Runs

| run | cfg | expect | what it shows |
|---|---|---|---|
| `taskreader_order` | `MC_TaskReader.cfg` | pass | `TypeOK`, `LogOrder` and `Termination` (see below) |
| `taskreader_errc_race` | `MC_TaskReader_ErrCRace.cfg` | violation | `NoSendOnClosedErrC`: goroutine A closes `errC` before the second `wg.Add(1)` |
| `podwatcher_safety` | `MC_PodWatcher.cfg` | pass | `NoSendOnClosedEventC` and `FirstVerdict` (see below) |
| `podwatcher_deadlock` | `MC_PodWatcher_Deadlock.cfg` | violation | `WaitReturns`: `Wait` hangs in its deferred `mu.Lock()` |
| `podwatcher_tombstone` | `MC_PodWatcher_Tombstone.cfg` | violation | `NoHandlerPanic`: `DeleteFunc` panics on a tombstone |
| `livereader_order` | `MC_LiveReader.cfg` | pass | `TypeOK`, `PodReadingRefined`, `NoSendOnClosedErrC` and `LiveLogOrder` |
| `livereader_lost_pods` | `MC_LiveReader_PodsComplete.cfg` | violation | `PodsComplete`: attempts made before the first event are never read |
| `livereader_nil_pod` | `MC_LiveReader_NoNilPodPanic.cfg` | violation | `NoNilPodPanic`: a failed Get in `Wait` leads to `filterSteps(nil)` |
| `livereader_logs_after_error` | `MC_LiveReader_NoLogsAfterPodError.cfg` | violation | `NoLogsAfterPodError`: steps are read after `Wait` fails |
| `livereader_pending` | `MC_LiveReader_Pending.cfg` | violation | `WaitEnds`: a pod that never settles holds B in `Wait` |
| `stepselection_regular` | `MC_StepSelection.cfg` | pass | `RegularStepsAsSpecified` |
| `stepselection_allowlist` | `MC_StepSelection_AllowList.cfg` | violation | `StepsAsSpecified`: the allow-list does not filter init steps |

The passing runs check these properties:
- **`LogOrder`**: the records on `logC` are strictly ordered by attempt (retries oldest first, then the current pod), then by step, then by line, with each `EOFLOG` after its step's lines.
- **`Termination`** (available mode): the reader ends. It either returns a start error, or closes both channels, or panics.
- **`NoSendOnClosedEventC`**: the handler never sends on a closed `eventC`.
- **`FirstVerdict`**: `Wait` returns the verdict of the first notification that is not pending.
- **`PodReadingRefined`**: live mode implements `PodReading`. The pods B receives are attempts the TaskRun has made, in strictly increasing order: no pod is read twice, and none after a later one.
- **`LiveLogOrder`** (live mode): the `EOFLOG` records on `logC` come pod by pod, in the order D hands the pods over, and step by step within a pod. No step gets two. This holds on both error paths of `readStepsLogs`: a `Read` error skips the step, and a `Status` error ends the pod (`task_reader.go:164`, 188-191).
- **`NoSendOnClosedErrC`** (live mode): nothing is sent on `errC` after A closes it. Unlike available mode this holds: D cannot close `podErrC` before B has been added to the WaitGroup and has received a pod, so A's `wg.Wait()` waits for B.
- **`RegularStepsAsSpecified`**: the steps `filterSteps` takes from the regular containers are the spec's, in declaration order, after every init step.

### Findings

1. **Send on closed `errC`** (`task_reader.go:232`). In available mode `podErrC` is nil, so goroutine A calls `wg.Done()`, `wg.Wait()` and `close(errC)` straight away.
   - If A runs before the caller's second `wg.Add(1)`, `Wait` returns with the counter at zero.
   - Goroutine B's first error send (Get, Read, container or Status) then panics.
   - TLC's trace is: `spawnA`, `forwardDone`, `closeErrC`, `spawnB`, `sendPod`, `getPod` with an error.
2. **Deadlock in `Wait`** (`pod.go:85`). Once the range loop has its verdict, it stops receiving. A handler for a later notification (an update, or the informer's 10 s resync) takes `mu`, sees `stopC` open, and blocks on `eventC <- obj`. The deferred `mu.Lock()` then waits forever.
3. **Tombstone panic** (`pod.go:147`). `DeleteFunc` evaluates `obj.(*corev1.Pod).Name` before the select. A `DeletedFinalStateUnknown` tombstone therefore panics in the informer goroutine, and `checkPodStatus`'s "failed to cast" branch is never reached.

4. **Lost retry pods** (`task_reader.go:329`). Each event adds only `status.podName`. If the TaskRun made several attempts between the `GetTaskRun` snapshot and the first event, the intermediate pods are never sent. (The model's watch delivers every change of the TaskRun after it opens, so only this gap is shown.) TLC's trace: the snapshot has no pod, the cluster makes attempts 1 to 3, the first event shows attempt 3, D sends pod 3 and returns because no retry is left.
5. **Nil pod** (`task_reader.go:259`). In follow mode `Wait` returns `(nil, err)` when its Get probe fails (`pod.go:77-78`). B sends the error and then calls `filterSteps(nil, ...)`, which dereferences the pod.
6. **Steps read after a pod error** (`task_reader.go:256-260`). After `Wait` returns an error, B still reads the pod's steps. The spec says the error is forwarded and the reader continues with the next pod.
7. **Unbounded wait** (`pod.go:97`). `Wait` has no timeout. A pod that never becomes readable or failed holds B, and the whole stream, for good. The spec promises a WatchTimeout error.
8. **Allow-list and init steps** (`task_reader.go:370-388`). With `--all` every init step is kept, and the allow-list filters only the regular steps. The spec applies the allow-list to the whole list.

### Bounds

`MC_TaskReader` uses:
- two pods (one retry and the current pod), because order across attempts needs at least two;
- two steps, because order across steps and the skip path need two;
- two lines per step, because line order needs two;
- one container error.

Every branch of every action fires; the run reaches 1.4 M distinct states in about 70 s.

`MC_PodWatcher` allows three notifications: a pending one, the verdict, and one that races the return. This is the fewest that shows both the deadlock and the first-verdict order.

`MC_LiveReader` allows two retries (three attempts), because the lost-pod trace needs two attempts that the first event skips, and the order of pods needs at least two sends. The ordering run (`livereader_order`) has two steps per pod (`MC_NStepsOrder`), so that the records of one pod can come out of step order. It reaches 3,685,910 distinct states in about 2 min 20 s. The violation runs keep one step per pod (`MC_NSteps`), because `readStepsLogs` is abstracted to one record per step and their traces need no second step.

`MC_StepSelection` uses two bases, one init container, two containers and allow-lists of one name. With these, the allow-list both keeps and drops a step, and prefixed and plain names of the same base occur. Every such pod, flag and allow-list is an initial state (17,780 states).

### Fairness

Each goroutine gets weak fairness on its own steps, because the Go scheduler runs every runnable goroutine. The cluster gets no fairness, because a pod may never change. Runs do not check deadlock, because the reader really stops: it either returns or blocks for good.

In `LiveReader`, `Spec` has weak fairness for main, D, A and B, and none for the cluster: a TaskRun that never starts, or a pod that stays Pending, is possible. No termination property is claimed for live mode. D ends only when the cluster changes the TaskRun, which the code does not control. The model's `Wait` (`bWaitVerdict`) also returns once its pod settles, and so it leaves out the deferred `mu.Lock` hang of `pods.Pod.Wait` (`podwatcher_deadlock`). A termination property checked on this model would claim more than the code does. `livereader_pending` shows the wait that never ends. `StepSelection` stops after its one step, so deadlock is not checked there either.

### Mutants

Each property of a passing run is broken by a plausible bug in the code it is about:

| property | mutated definition | plausible bug |
|---|---|---|
| `TypeOK` | `forwardDone` → `forwardDoneTwice` | Done called twice |
| `LogOrder` | `PodsToSend` → `PodsToSendCurrentFirst` | current pod sent first |
| `Termination` | `sendPod` → `sendPodStalls` | sender stalls before the last pod and never reaches its deferred `close(podC)` |
| `NoSendOnClosedEventC` | `deferClose` → `deferCloseNoLock` | channels closed without `mu` |
| `FirstVerdict` | `handlerLock` → `handlerLockNewest` | the handler is given the newest notification instead of the next |
| `TypeOK` (live) | `aDone` → `aDoneTwice` | Done called twice |
| `PodReadingRefined` | `dEvent` → `dEventNoDedupe` | `addPod` without the `podMap` check |
| `LiveLogOrder` | `bStep` → `bStepNoAdvance` | the step loop does not move on after a step's `EOFLOG` |
| `NoSendOnClosedErrC` (live) | `closeErrC` → `closeErrCNoWait` | `errC` closed without `wg.Wait()` |
| `RegularStepsAsSpecified` | `filterSteps` → `filterStepsByContainer` | allow-list matched against the container name |

## Proofs (TLAPS)

### `TaskReaderProofs`

The module proves `TypeCorrect` (`Spec => []TypeOK`), `OrderSafe` (`Spec => []LogOrder`) and `IInvSafe` (`Spec => []IInv`). The only assumption is `ConstAssumption`: `NoPod` is not a pod, and the bounds are naturals.

`LogOrder` is not inductive on its own. It is proved through `IInv`, which has these conjuncts:
- `WgCount`: `wg` counts A while it runs, plus B while it is not done. Without it, the type of `wg` cannot be shown.
- `SpawnOrder`: goroutines start in order.
- `CurSent`: B's current pod is the last one sent, and its step index is within the steps.
- `BelowCursor`: every record sent so far has a key below a **cursor**. The cursor is the least key B can send next, computed from its program counter.

Each step either leaves the cursor alone or moves it forward (`QuietStep`). A step that sends a record sends it at the cursor and moves the cursor past it (`AppendStep`). The key of B's current pod equals its send index (`AttemptOfSent`), because the retry list is injective and does not contain the current pod.

### `PodWatcherProofs`

The module proves `SendSafe` (`Spec => []NoSendOnClosedEventC`), `FirstVerdictSafe` (`Spec => []FirstVerdict`) and `TypeCorrect`. It uses the invariant `MuHeld /\ ClosedTogether /\ SendSawOpen`:
- the handler holds `mu` exactly between its Lock and its Unlock;
- `Wait` closes both channels in one critical section;
- a handler waiting to send saw `stopC` open.

`FirstVerdictSafe` uses the strengthening `FVInv`. Besides `IInv`, it has these conjuncts:
- `NothingBeforeRecv`: before the range loop starts, nothing was notified and no verdict exists.
- `CurrentEvent`: the handler's event is the last notification delivered.
- `RecvAllPending`: while `Wait` ranges over `eventC`, every event it has received (`Delivered`) was pending.
- `VerdictKept`: once `Wait` leaves the loop with a verdict, that verdict is the first non-pending one of the history (`FirstIn`). It stays so as notifications are appended (`FirstInAppend`).

`FirstVerdict` alone is not inductive. A state where the loop holds a verdict is only safe if every event before it was pending, and that is what `RecvAllPending` records.


### `LiveReaderProofs`

The module proves `IInvSafe`, `ErrCSafe` (`Spec => []NoSendOnClosedErrC`), `PodOrderSafe` (`Spec => []PodsInOrder`), `TypeCorrect` and `PodReadingRefinement` (`Spec => PodReadingRefined`), for every number of retries and steps. The only assumption is `LiveConstAssumption`: both are naturals.

`IInv` has these conjuncts:
- `WgCount`: `wg` counts A while it runs, plus B while it is between receives.
- `SpawnOrder`: main, D, A and B start in order, and the watch delivers nothing before it is opened.
- `ErrCAfterPods`: A leaves its range only once D is done, and closes `errC` only when B is waiting on `podC` or finished. With `WgCount`, this is what makes `NoSendOnClosedErrC` inductive: every send of B happens while B is counted.
- `PodMapBound`: what was sent or is queued is in `podMap`; `podMap` holds no attempt after D's `run`; the queued events lie between `run` and the cluster, in order.
- `QueueOrder`: D's queue is increasing and after everything sent.

`PodsInOrder` needs `PodMapBound` and `QueueOrder`: an event's pod is in `podMap` (and dropped), or it is newer than every pod sent, because the watch delivers snapshots in the cluster's order and never older than `run`. The lemmas `WqAppend` and `ChangeStep` show that a change of the cluster keeps the queue bounds; `ClusterStep` covers every step of the cluster.

`LogOrderSafe` (`Spec => []LiveLogOrder`) uses `LogInv == IInv /\ OutCursor /\ LiveLogOrder`. `OutCursor` places B:
- its current pod is the last one D handed over;
- every record sent so far is of an earlier pod, or, while B is in its steps, of an earlier step of its pod;
- while B waits in `Wait`, every record is of an earlier pod.

Each kind of step has a lemma:
- a step that touches none of these variables (`OutQuiet`);
- a move of B that sends nothing (`OutMove`);
- D's send of a new pod, which comes after every pod sent because of `QueueOrder` (`OutNewPod`, through `NextPodFits`);
- B's `EOFLOG`, sent at its place (`OutAppend` and `OutStep`).

`LiveLogOrder` alone is not inductive: it says nothing about where B will send next.

`PodReadingRefinement` follows the usual pattern:
- `Init` maps to `Reading!Init`: no attempt and nothing sent;
- under `IInv`, every step maps to a step of `Reading!Next` or to a stutter (`ReadingStep`).

For `dSendPod` the lemma `NextPodFits` supplies the guard of `ReadPod`: the head of D's queue is an attempt the cluster has made (`PodMapBound`), and it is newer than everything sent (`QueueOrder`). The proof needs nothing beyond `IInv`. The cluster's `NewAttempt` guard is the cluster's own retry bound.

### What stays with TLC

Each `IInv` was checked by TLC on its module's main instance (with `INVARIANT IInv` added to the cfg) before it was proved. Now that the proofs cover every instance, no run checks it.

Liveness (`Termination` of the available mode, and the violations of `WaitReturns` and `WaitEnds`) depends on fairness and `ENABLED`, which the prover does not handle. The step-selection properties are also checked only by TLC:
- they rest on `SelectSeq`, and what it computes for every input needs induction over sequences, which the provers cannot instantiate;
- `StepSelection` extends `SequencesExt`, which declares `RECURSIVE` operators.

`PodsInOrder` is still proved (`PodOrderSafe`). No run checks it any more, because the refinement run implies it.

## Not modelled yet, and the plan

- **One EOFLOG per step.** `readStepsLogs` skips a step's `EOFLOG` after a `Read` error (`task_reader.go:164`), where the spec promises one `EOFLOG` per step. A `Status` error skips the later steps, as the spec says. `LiveLogOrder` shows that neither path sends a step twice or out of order. No run compares the missing `EOFLOG` with the spec yet.
- **Refinement of available mode.** Available mode reads one fixed snapshot and keeps no record of the pods it sent (only `podIdx`). A mapping to `PodReading` would therefore say little beyond `LogOrder`, which is already proved. An abstract specification of the records (one sequence per attempt and step) is still missing.
- **Full composition.** `LiveReader` uses a two-step `Wait`. `PodWatcher` could be instantiated for each pod instead, at the cost of a much larger state space.
- **Out of scope.** `formTaskName` and the logging only name things. The vendored AWS KMS client and the docs do not take part in log reading.
