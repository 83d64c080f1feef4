-------------------------- MODULE NativeQueueProofs -------------------------
(***************************************************************************)
(* Proofs that NativeQueue keeps its inductive invariant, and what follows *)
(* from it for any number of queues, of any length.                        *)
(***************************************************************************)
EXTENDS NativeQueueInv, TLAPS

\* The bounds, without the kinds of operations.
LEMMA Bounds ==
  /\ MaxStarts \in Nat /\ MaxLen \in Nat \ {0} /\ MaxProgress \in Nat \ {0}
  /\ Gated \in BOOLEAN /\ SpawnMayFail \in BOOLEAN /\ MayClose \in BOOLEAN
  BY ConstAssumption

\* NoRef is no worker: the names of workers start at 1.
LEMMA NoRefNotWorker == NoRef \notin Workers
  BY DEF NoRef, Workers

\* A worker is the pair of its queue and of its job.
LEMMA WorkerPair ==
  ASSUME NEW w \in Workers
  PROVE  /\ w[1] \in 1..MaxStarts /\ w[2] \in 1..MaxLen
         /\ w = <<w[1], w[2]>>
  BY DEF Workers

\* A worker's operation is of one of the four kinds.
LEMMA KindRange ==
  ASSUME NEW w \in Workers
  PROVE  KindsAt[w[2]] \subseteq AllKinds
  BY ConstAssumption, WorkerPair

\* Every entry names a worker.
LEMMA EntryBy ==
  ASSUME QueueTypeOK
  PROVE  \A i \in 1..Len(results) : results[i].by \in Workers
<1> TAKE i \in 1..Len(results)
<1>1. results[i] \in Entries
  BY DEF QueueTypeOK
<1>2. QED
  BY <1>1 DEF Entries

\* The initial state satisfies the inductive invariant.
LEMMA InitInv == Init => IInv
<1> SUFFICES ASSUME Init PROVE IInv
  OBVIOUS
<1> USE Bounds
<1>1. TypeOK
  <2>1. QueueTypeOK
    BY DEF Init, QueueTypeOK
  <2>2. FlagTypeOK
    BY DEF Init, FlagTypeOK
  <2>3. RefTypeOK
    BY DEF Init, RefTypeOK, Refs
  <2>4. CellTypeOK
    BY DEF Init, CellTypeOK
  <2>5. WorkerTypeOK
    BY DEF Init, WorkerTypeOK, WorkerStates, Codes, Outputs, Removed
  <2>6. QED
    BY <2>1, <2>2, <2>3, <2>4, <2>5 DEF TypeOK
<1>2. RefsOK
  BY DEF Init, RefsOK
<1>3. Fresh
  BY DEF Init, Fresh
<1>4. HeapOK
  BY DEF Init, HeapOK, InFlight
<1>5. WorkersOK
  BY DEF Init, WorkersOK, LeftBehind, Written
<1>6. CancelOK
  BY DEF Init, CancelOK
<1>7. ResultsOK
  BY DEF Init, ResultsOK
<1>8. GateOK /\ FracOK
  BY DEF Init, GateOK, FracOK, InFlight
<1>9. QED
  BY <1>1, <1>2, <1>3, <1>4, <1>5, <1>6, <1>7, <1>8 DEF IInv

\* The steps of a worker isolate.
LEMMA WorkerStep ==
  ASSUME IInv, NEW w \in Workers,
         WorkerBegin(w) \/ SpawnFails(w) \/ NativeProgress(w) \/ NativeOk(w)
           \/ NativeCancelled(w) \/ NativeError(w) \/ WorkerSend(w)
  PROVE  IInv'
<1> USE Bounds DEF IInv, blocVars, worldVars
<1>1. TypeOK'
  <2>1. QueueTypeOK' /\ FlagTypeOK' /\ RefTypeOK'
    BY DEF TypeOK, QueueTypeOK, FlagTypeOK, RefTypeOK, WorkerBegin,
         SpawnFails, NativeProgress, NativeOk,
           NativeCancelled, NativeError, WorkerSend
  <2>2. CellTypeOK'
    <3> HIDE DEF IInv
    <3>0. CellTypeOK
      BY DEF IInv, TypeOK
    <3>1. CASE WorkerBegin(w)
      BY <3>1, <3>0
         DEF WorkerBegin, CellTypeOK
    <3>2. CASE SpawnFails(w)
      BY <3>2, <3>0
         DEF SpawnFails, CellTypeOK
    <3>3. CASE NativeProgress(w)
      BY <3>3, <3>0
         DEF NativeProgress, CellTypeOK
    <3>4. CASE NativeOk(w)
      BY <3>4, <3>0
         DEF NativeOk, CellTypeOK
    <3>5. CASE NativeCancelled(w)
      BY <3>5, <3>0
         DEF NativeCancelled, CellTypeOK
    <3>6. CASE NativeError(w)
      BY <3>6, <3>0
         DEF NativeError, CellTypeOK
    <3>7. CASE WorkerSend(w)
      BY <3>7, <3>0
         DEF WorkerSend, CellTypeOK
    <3>8. QED
      BY <3>1, <3>2, <3>3, <3>4, <3>5, <3>6, <3>7
  <2>3. WorkerTypeOK'
    <3> HIDE DEF IInv
    <3>0. WorkerTypeOK
      BY DEF IInv, TypeOK
    <3>1. CASE WorkerBegin(w)
      BY <3>1, <3>0, KindRange
         DEF WorkerBegin, WorkerTypeOK, WorkerStates, Codes
    <3>2. CASE SpawnFails(w)
      BY <3>2, <3>0
         DEF SpawnFails, WorkerTypeOK, WorkerStates, Codes
    <3>3. CASE NativeProgress(w)
      BY <3>3, <3>0
         DEF NativeProgress, WorkerTypeOK, WorkerStates, Codes, Outputs, Written,
             Removed
    <3>4. CASE NativeOk(w)
      BY <3>4, <3>0
         DEF NativeOk, WorkerTypeOK, WorkerStates, Codes, Outputs, Written,
             Removed
    <3>5. CASE NativeCancelled(w)
      BY <3>5, <3>0
         DEF NativeCancelled, WorkerTypeOK, WorkerStates, Codes, Outputs, Written,
             Removed
    <3>6. CASE NativeError(w)
      BY <3>6, <3>0
         DEF NativeError, Leftovers, WorkerTypeOK, WorkerStates, Codes, Outputs,
             Written, Removed
    <3>7. CASE WorkerSend(w)
      BY <3>7, <3>0
         DEF WorkerSend, AfterCleanup, WorkerTypeOK, WorkerStates, Codes,
             Outputs, Written, Removed
    <3>8. QED
      BY <3>1, <3>2, <3>3, <3>4, <3>5, <3>6, <3>7
  <2>4. QED
    BY <2>1, <2>2, <2>3 DEF TypeOK
<1>2. RefsOK'
  BY DEF RefsOK, Current, TypeOK, WorkerBegin, SpawnFails, NativeProgress,
         NativeOk, NativeCancelled, NativeError, WorkerSend
<1>3. Fresh'
  BY DEF Fresh, TypeOK, RefTypeOK, CellTypeOK, WorkerTypeOK, WorkerBegin,
       SpawnFails, NativeProgress,
         NativeOk, NativeCancelled, NativeError, WorkerSend
<1>4. HeapOK'
  BY DEF HeapOK, InFlight, TypeOK, RefTypeOK, CellTypeOK, WorkerTypeOK,
       WorkerBegin, SpawnFails, NativeProgress,
         NativeOk, NativeCancelled, NativeError, WorkerSend
<1>5. WorkersOK'
  <2> HIDE DEF IInv
  <2>0. WorkersOK /\ TypeOK
    BY DEF IInv
  <2> USE <2>0
  <2>1. CASE WorkerBegin(w)
    BY <2>1, KindRange
       DEF WorkerBegin, WorkersOK, LeftBehind, TypeOK, WorkerTypeOK,
           CellTypeOK, AllKinds, Outputs, Written, Removed
  <2>2. CASE SpawnFails(w)
    BY <2>2, Bounds
       DEF SpawnFails, WorkersOK, LeftBehind, TypeOK, WorkerTypeOK,
           CellTypeOK, AllKinds, Outputs, Written, Removed
  <2>3. CASE NativeProgress(w)
    BY <2>3, Bounds
       DEF NativeProgress, WorkersOK, LeftBehind, TypeOK, WorkerTypeOK,
           CellTypeOK, AllKinds, Outputs, Written, Removed
  <2>4. CASE NativeOk(w)
    BY <2>4, Bounds
       DEF NativeOk, WorkersOK, LeftBehind, TypeOK, WorkerTypeOK,
           CellTypeOK, AllKinds, Outputs, Written, Removed
  <2>5. CASE NativeCancelled(w)
    BY <2>5, Bounds
       DEF NativeCancelled, WorkersOK, LeftBehind, TypeOK, WorkerTypeOK,
           CellTypeOK, AllKinds, Outputs, Written, Removed
  <2>6. CASE NativeError(w)
    BY <2>6, Bounds
       DEF NativeError, Leftovers, WorkersOK, LeftBehind, TypeOK, WorkerTypeOK,
           CellTypeOK, AllKinds, Outputs, Written, Removed
  <2>7. CASE WorkerSend(w)
    BY <2>7, Bounds
       DEF WorkerSend, AfterCleanup, WorkersOK, LeftBehind, TypeOK, WorkerTypeOK,
           CellTypeOK, AllKinds, Outputs, Written, Removed
  <2>8. QED
    BY <2>1, <2>2, <2>3, <2>4, <2>5, <2>6, <2>7
<1>6. CancelOK'
  BY DEF CancelOK, WorkerBegin, SpawnFails, NativeProgress,
         NativeOk, NativeCancelled, NativeError, WorkerSend
<1>7. ResultsOK'
  <2>1. \A v \in Workers : wk[v] = "delivered" =>
          wk'[v] = "delivered" /\ output'[v] = output[v]
    BY DEF TypeOK, WorkerTypeOK, WorkerBegin, SpawnFails, NativeProgress,
           NativeOk, NativeCancelled, NativeError, WorkerSend
  <2>2. UNCHANGED <<results, starts, idx, total, ui, queueCancelled>>
    BY DEF WorkerBegin, SpawnFails, NativeProgress, NativeOk,
           NativeCancelled, NativeError, WorkerSend
  <2>3. \A i \in 1..Len(results) : results[i].by \in Workers
    BY EntryBy DEF TypeOK
  <2>4. QED
    BY <2>1, <2>2, <2>3 DEF ResultsOK
<1>8. GateOK'
  BY DEF GateOK, InFlight, TypeOK, WorkerTypeOK, WorkerBegin, SpawnFails,
         NativeProgress, NativeOk, NativeCancelled, NativeError, WorkerSend
<1>9. FracOK'
  <2>1. /\ \A v \in Workers : progressCell'[v] >= progressCell[v]
        /\ \A v \in Workers : progressCell[v] \in Nat /\ progressCell'[v] \in Nat
    BY <1>1 DEF TypeOK, CellTypeOK, WorkerBegin, SpawnFails, NativeProgress,
       NativeOk, NativeCancelled, NativeError, WorkerSend
  <2>2. UNCHANGED <<active, frac, cells>>
    BY DEF WorkerBegin, SpawnFails, NativeProgress, NativeOk, NativeCancelled,
       NativeError, WorkerSend
  <2>3. active => cells \in Workers
    BY DEF RefsOK
  <2>4. frac \in Nat
    BY DEF TypeOK, QueueTypeOK
  <2>5. QED
    BY <2>1, <2>2, <2>3, <2>4 DEF FracOK
<1>10. QED
  BY <1>1, <1>2, <1>3, <1>4, <1>5, <1>6, <1>7, <1>8, <1>9

\* The bloc's steps that start no worker.
LEMMA CancelIdleStep == IInv /\ CancelIdle => IInv'
<1> SUFFICES ASSUME IInv, CancelIdle PROVE IInv'
  OBVIOUS
<1> USE Bounds
    DEF IInv, CancelIdle, DisposeIdleResources, DropReferences, EmitDone,
        FreedHeap, workerVars
<1>0. cells = NoRef /\ port = NoRef /\ timer = NoRef /\ ~active
  BY DEF RefsOK
<1>1. TypeOK'
  <2>1. QueueTypeOK'
    BY <1>0 DEF TypeOK, QueueTypeOK
  <2>2. FlagTypeOK'
    BY DEF TypeOK, FlagTypeOK
  <2>3. RefTypeOK'
    BY <1>0 DEF TypeOK, RefTypeOK, Refs
  <2>4. CellTypeOK'
    BY <1>0 DEF TypeOK, CellTypeOK, RefTypeOK, Refs
  <2>5. WorkerTypeOK'
    BY DEF TypeOK, WorkerTypeOK
  <2>6. QED
    BY <2>1, <2>2, <2>3, <2>4, <2>5 DEF TypeOK
<1>2. RefsOK'
  BY <1>0 DEF RefsOK
<1>3. Fresh'
  BY DEF Fresh
<1>4. HeapOK'
  BY <1>0 DEF HeapOK, InFlight
<1>5. WorkersOK'
  BY DEF WorkersOK, LeftBehind
<1>6. CancelOK'
  BY DEF CancelOK
<1>7. ResultsOK'
  BY DEF ResultsOK
<1>8. GateOK'
  BY <1>0 DEF GateOK, InFlight
<1>9. FracOK'
  BY DEF FracOK
<1>10. QED
  BY <1>1, <1>2, <1>3, <1>4, <1>5, <1>6, <1>7, <1>8, <1>9

\* A cancel under a running native call keeps everything it refers to.
LEMMA CancelActiveStep == IInv /\ CancelActive => IInv'
<1> SUFFICES ASSUME IInv, CancelActive PROVE IInv'
  OBVIOUS
<1> USE Bounds DEF IInv, CancelActive, Signalled, workerVars
<1>0. cells = Current /\ port = Current /\ Current \in Workers
      /\ Current # NoRef /\ ui = "progress" /\ idx < total /\ ~closed
  BY NoRefNotWorker DEF RefsOK
<1>1. TypeOK'
  <2>1. QueueTypeOK'
    BY <1>0 DEF TypeOK, QueueTypeOK
  <2>2. FlagTypeOK'
    BY DEF TypeOK, FlagTypeOK
  <2>3. RefTypeOK'
    BY <1>0 DEF TypeOK, RefTypeOK, Refs
  <2>4. CellTypeOK'
    BY <1>0 DEF TypeOK, CellTypeOK, RefTypeOK, Refs
  <2>5. WorkerTypeOK'
    BY DEF TypeOK, WorkerTypeOK
  <2>6. QED
    BY <2>1, <2>2, <2>3, <2>4, <2>5 DEF TypeOK
<1>2. RefsOK'
  BY <1>0 DEF RefsOK, Current
<1>3. Fresh'
  BY DEF Fresh
<1>4. HeapOK'
  BY <1>0 DEF HeapOK, InFlight, TypeOK, RefTypeOK, CellTypeOK, WorkerTypeOK
<1>5. WorkersOK'
  BY <1>0 DEF WorkersOK, LeftBehind, TypeOK, RefTypeOK, CellTypeOK, WorkerTypeOK
<1>6. CancelOK'
  BY DEF CancelOK
<1>7. ResultsOK'
  BY <1>0 DEF ResultsOK
<1>8. GateOK'
  BY DEF GateOK, InFlight
<1>9. FracOK'
  BY DEF FracOK
<1>10. QED
  BY <1>1, <1>2, <1>3, <1>4, <1>5, <1>6, <1>7, <1>8, <1>9

\* A tick shows a fraction the current cell has reached.
LEMMA ProgressTickStep == IInv /\ ProgressTick => IInv'
<1> SUFFICES ASSUME IInv, ProgressTick PROVE IInv'
  OBVIOUS
<1> USE Bounds DEF IInv, ProgressTick, worldVars, workerVars
<1>1. TypeOK'
  <2>1. QueueTypeOK'
    BY DEF TypeOK, QueueTypeOK, CellTypeOK, RefTypeOK, Refs
  <2>2. FlagTypeOK'
    BY DEF TypeOK, FlagTypeOK
  <2>3. RefTypeOK'
    BY DEF TypeOK, RefTypeOK, Refs
  <2>4. CellTypeOK'
    BY DEF TypeOK, CellTypeOK, RefTypeOK, Refs
  <2>5. WorkerTypeOK'
    BY DEF TypeOK, WorkerTypeOK
  <2>6. QED
    BY <2>1, <2>2, <2>3, <2>4, <2>5 DEF TypeOK
<1>2. RefsOK'
  BY DEF RefsOK, Current
<1>3. Fresh' /\ HeapOK' /\ WorkersOK' /\ CancelOK' /\ ResultsOK'
  BY DEF Fresh, HeapOK, InFlight, WorkersOK, LeftBehind, CancelOK, ResultsOK
<1>4. GateOK' /\ FracOK'
  BY DEF GateOK, InFlight, FracOK, RefsOK, TypeOK, CellTypeOK
<1>5. QED
  BY <1>1, <1>2, <1>3, <1>4

\* Closing the bloc frees idle cells and abandons those in use.
LEMMA CloseStep == IInv /\ Close => IInv'
<1> SUFFICES ASSUME IInv, Close PROVE IInv'
  OBVIOUS
<1> USE Bounds
    DEF IInv, Close, SignalAndDetach, DisposeIdleResources, DropReferences,
        Signalled, FreedHeap, workerVars
<1>1. TypeOK'
  <2>1. QueueTypeOK'
    BY DEF TypeOK, QueueTypeOK
  <2>2. FlagTypeOK'
    BY DEF TypeOK, FlagTypeOK
  <2>3. RefTypeOK'
    BY DEF TypeOK, RefTypeOK, Refs
  <2>4. CellTypeOK'
    BY DEF TypeOK, CellTypeOK, RefTypeOK, Refs
  <2>5. WorkerTypeOK'
    BY DEF TypeOK, WorkerTypeOK
  <2>6. QED
    BY <2>1, <2>2, <2>3, <2>4, <2>5 DEF TypeOK
<1>2. RefsOK'
  BY DEF RefsOK
<1>3. Fresh'
  BY DEF Fresh
<1>4. HeapOK'
  BY NoRefNotWorker DEF HeapOK, InFlight, RefsOK, TypeOK, RefTypeOK,
       CellTypeOK, WorkerTypeOK
<1>5. WorkersOK'
  BY NoRefNotWorker DEF WorkersOK, LeftBehind, RefsOK, TypeOK, RefTypeOK, CellTypeOK,
       WorkerTypeOK
<1>6. CancelOK'
  BY DEF CancelOK
<1>7. ResultsOK'
  BY DEF ResultsOK
<1>8. GateOK'
  BY DEF GateOK, InFlight
<1>9. FracOK'
  BY DEF FracOK
<1>10. QED
  BY <1>1, <1>2, <1>3, <1>4, <1>5, <1>6, <1>7, <1>8, <1>9

\* A result that arrives is the current worker's.
LEMMA ArrivalIsCurrent ==
  ASSUME IInv, NEW w \in Workers, ResultArrives(w)
  PROVE  active /\ w = Current /\ cells = w /\ port = w /\ w # NoRef
  BY NoRefNotWorker DEF IInv, RefsOK, ResultArrives

\* A cancelled result ends the queue and records nothing.
LEMMA FinishCancelledStep ==
  ASSUME IInv, NEW w \in Workers, FinishCancelled(w)
  PROVE  IInv'
<1> USE Bounds
    DEF IInv, FinishCancelled, DisposeIdleResources, DropReferences,
        EmitDone, FreedHeap
<1>0. active /\ w = Current /\ cells = w /\ port = w /\ w # NoRef
  BY ArrivalIsCurrent
<1>1. TypeOK'
  <2>1. QueueTypeOK'
    BY <1>0 DEF TypeOK, QueueTypeOK
  <2>2. FlagTypeOK'
    BY DEF TypeOK, FlagTypeOK
  <2>3. RefTypeOK'
    BY <1>0 DEF TypeOK, RefTypeOK, Refs
  <2>4. CellTypeOK'
    BY <1>0 DEF TypeOK, CellTypeOK, RefTypeOK, Refs
  <2>5. WorkerTypeOK'
    BY DEF TypeOK, WorkerTypeOK, WorkerStates
  <2>6. QED
    BY <2>1, <2>2, <2>3, <2>4, <2>5 DEF TypeOK
<1>2. RefsOK'
  BY <1>0 DEF RefsOK
<1>3. Fresh'
  BY <1>0 DEF Fresh, TypeOK, RefTypeOK, CellTypeOK, WorkerTypeOK, ResultArrives
<1>4. HeapOK'
  BY <1>0 DEF HeapOK, InFlight, TypeOK, RefTypeOK, CellTypeOK, WorkerTypeOK,
       ResultArrives
<1>5. WorkersOK'
  BY <1>0 DEF WorkersOK, LeftBehind, TypeOK, RefTypeOK, CellTypeOK, WorkerTypeOK,
       ResultArrives
<1>6. CancelOK'
  BY DEF CancelOK
<1>7. ResultsOK'
  <2>1. \A i \in 1..Len(results) : results[i].by \in Workers
    BY EntryBy DEF TypeOK
  <2>2. \A v \in Workers : wk[v] = "delivered" => wk'[v] = "delivered"
    BY DEF TypeOK, WorkerTypeOK
  <2>3. queueCancelled
    BY <1>0 DEF WasCancelled, CancelOK, WorkersOK, LeftBehind, ResultArrives
  <2>4. QED
    BY <2>1, <2>2, <2>3 DEF ResultsOK
<1>8. GateOK'
  BY <1>0 DEF GateOK, InFlight, TypeOK, WorkerTypeOK, ResultArrives
<1>9. FracOK'
  BY DEF FracOK
<1>10. QED
  BY <1>1, <1>2, <1>3, <1>4, <1>5, <1>6, <1>7, <1>8, <1>9

\* What freeing the current cells does to the heap, cell by cell.
LEMMA FreedHeapPointwise ==
  ASSUME RefTypeOK, CellTypeOK
  PROVE  /\ FreedHeap \in [Workers -> {"none", "live", "freed"}]
         /\ \A v \in Workers :
              FreedHeap[v] = IF v = cells THEN "freed" ELSE heap[v]
  BY NoRefNotWorker DEF FreedHeap, RefTypeOK, CellTypeOK, Refs

\* What setting the current cancel cell does to the cells.
LEMMA SignalledPointwise ==
  ASSUME RefTypeOK, CellTypeOK
  PROVE  /\ Signalled \in [Workers -> BOOLEAN]
         /\ \A v \in Workers : v # cells => Signalled[v] = cancelCell[v]
         /\ cells \in Workers => Signalled[cells] = TRUE
  BY NoRefNotWorker DEF Signalled, RefTypeOK, CellTypeOK, Refs

\* What a launch changes, cell by cell and worker by worker.
LEMMA LaunchPointwise ==
  ASSUME NEW w \in Workers, CellTypeOK, WorkerTypeOK,
         NEW h \in [Workers -> {"none", "live", "freed"}],
         NEW c \in [Workers -> BOOLEAN],
         NEW k \in [Workers -> WorkerStates],
         heap' = [h EXCEPT ![w] = "live"],
         cancelCell' = [c EXCEPT ![w] = FALSE],
         progressCell' = [progressCell EXCEPT ![w] = 0],
         wk' = [k EXCEPT ![w] = "spawning"]
  PROVE  /\ CellTypeOK'
         /\ wk' \in [Workers -> WorkerStates]
         /\ heap'[w] = "live" /\ cancelCell'[w] = FALSE
         /\ wk'[w] = "spawning" /\ progressCell'[w] = 0
         /\ \A v \in Workers : v # w =>
              heap'[v] = h[v] /\ cancelCell'[v] = c[v] /\ wk'[v] = k[v]
<1>1. heap' \in [Workers -> {"none", "live", "freed"}] /\ heap'[w] = "live"
      /\ \A v \in Workers : v # w => heap'[v] = h[v]
  OBVIOUS
<1>2. cancelCell' \in [Workers -> BOOLEAN] /\ cancelCell'[w] = FALSE
      /\ \A v \in Workers : v # w => cancelCell'[v] = c[v]
  OBVIOUS
<1>3. progressCell' \in [Workers -> 0..MaxProgress] /\ progressCell'[w] = 0
      /\ \A v \in Workers : v # w => progressCell'[v] = progressCell[v]
  BY Bounds DEF CellTypeOK
<1>4. wk' \in [Workers -> WorkerStates] /\ wk'[w] = "spawning"
      /\ \A v \in Workers : v # w => wk'[v] = k[v]
  BY DEF WorkerStates
<1>5. CellTypeOK'
  BY <1>1, <1>2, <1>3 DEF CellTypeOK
<1>6. QED
  BY <1>1, <1>2, <1>3, <1>4, <1>5

\* A recorded result is the current job's; the next one takes its place.
LEMMA FinishRecordedStep ==
  ASSUME IInv, NEW w \in Workers, FinishRecorded(w)
  PROVE  IInv'
<1> USE Bounds DEF IInv, FinishRecorded, Record
<1> DEFINE nxt == <<starts, idx + 2>>
<1>0. /\ active /\ w = Current /\ cells = w /\ port = w /\ w # NoRef
      /\ idx < total /\ ui = "progress" /\ ~closed /\ wk[w] = "sent"
  BY ArrivalIsCurrent DEF RefsOK, ResultArrives
<1>1. results' \in Seq(Entries) /\ Len(results') = idx + 1
      /\ \A i \in 1..idx : results'[i] = results[i]
      /\ results'[idx + 1] = [by |-> w, code |-> code[w]]
  <2>1. code[w] \in {"ok", "error"}
    BY <1>0 DEF WorkersOK, LeftBehind, WasCancelled
  <2>2. [by |-> w, code |-> code[w]] \in Entries
    BY <2>1 DEF Entries
  <2>3. results \in Seq(Entries) /\ Len(results) = idx
    BY DEF TypeOK, QueueTypeOK, ResultsOK
  <2>4. results' = Append(results, [by |-> w, code |-> code[w]])
    OBVIOUS
  <2> HIDE DEF IInv, FinishRecorded, Record
  <2>5. QED
    BY <2>2, <2>3, <2>4
<1>r. results'[idx + 1] = [by |-> w, code |-> code[w]]
  BY <1>1
<1>w. /\ [wk EXCEPT ![w] = "delivered"] \in [Workers -> WorkerStates]
      /\ \A v \in Workers : [wk EXCEPT ![w] = "delivered"][v] =
                               IF v = w THEN "delivered" ELSE wk[v]
  BY DEF TypeOK, WorkerTypeOK, WorkerStates
<1>3. CASE NextJobExists
  <2>0. /\ nxt \in Workers /\ nxt # w /\ nxt # NoRef /\ idx + 1 < total
        /\ wk[nxt] = "none" /\ output[nxt] = "absent" /\ nxt = Current'
    <3>1. idx + 1 < total /\ starts \in 1..MaxStarts /\ idx \in Nat
          /\ total <= MaxLen /\ total \in Nat
      BY <1>0, <1>3
         DEF NextJobExists, Current, Workers, RefsOK, TypeOK, QueueTypeOK
    <3>2. nxt \in Workers
      BY <3>1 DEF Workers
    <3>3. nxt # w
      BY <1>0, <3>1 DEF Current
    <3>4. wk[nxt] = "none" /\ output[nxt] = "absent"
      BY <3>1, <3>2 DEF Fresh
    <3>5. nxt = Current'
      BY <1>3, <3>1 DEF Current
    <3>6. QED
      BY <3>1, <3>2, <3>3, <3>4, <3>5, NoRefNotWorker
  <2>j. StartJob(nxt, FreedHeap, cancelCell, [wk EXCEPT ![w] = "delivered"])
    BY <1>3
  <2>p. /\ CellTypeOK' /\ wk' \in [Workers -> WorkerStates]
        /\ progressCell'[nxt] = 0
        /\ heap'[nxt] = "live" /\ cancelCell'[nxt] = FALSE
        /\ wk'[nxt] = "spawning" /\ wk'[w] = "delivered"
        /\ heap'[w] = "freed" /\ cancelCell'[w] = cancelCell[w]
        /\ \A v \in Workers \ {w, nxt} :
             heap'[v] = heap[v] /\ cancelCell'[v] = cancelCell[v]
             /\ wk'[v] = wk[v]
        /\ \A v \in Workers \ {nxt} : progressCell'[v] = progressCell[v]
    <3>1. cancelCell \in [Workers -> BOOLEAN]
      BY DEF TypeOK, CellTypeOK
    <3>2. /\ heap' = [FreedHeap EXCEPT ![nxt] = "live"]
          /\ cancelCell' = [cancelCell EXCEPT ![nxt] = FALSE]
          /\ progressCell' = [progressCell EXCEPT ![nxt] = 0]
          /\ wk' = [[wk EXCEPT ![w] = "delivered"] EXCEPT ![nxt] = "spawning"]
      BY <2>j DEF StartJob, LaunchWorker
    <3>3. FreedHeap \in [Workers -> {"none", "live", "freed"}]
          /\ \A v \in Workers :
               FreedHeap[v] = IF v = w THEN "freed" ELSE heap[v]
      BY <1>0, FreedHeapPointwise DEF TypeOK
    <3>4. /\ CellTypeOK' /\ wk' \in [Workers -> WorkerStates]
          /\ progressCell'[nxt] = 0
          /\ heap'[nxt] = "live" /\ cancelCell'[nxt] = FALSE
          /\ wk'[nxt] = "spawning"
          /\ \A v \in Workers : v # nxt =>
               /\ heap'[v] = FreedHeap[v]
               /\ cancelCell'[v] = cancelCell[v]
               /\ wk'[v] = [wk EXCEPT ![w] = "delivered"][v]
      BY <1>w, <2>0, <3>1, <3>2, <3>3, LaunchPointwise DEF TypeOK
    <3>5. \A v \in Workers \ {nxt} : progressCell'[v] = progressCell[v]
      BY <2>0, <3>2 DEF TypeOK, CellTypeOK
    <3>6. QED
      BY <1>w, <2>0, <3>3, <3>4, <3>5
  <2>q. /\ UNCHANGED <<output, code, kind, starts, total, queueCancelled>>
        /\ closed' = closed /\ idx' = idx + 1 /\ ui' = "progress"
        /\ active' = TRUE /\ cancelReq' = FALSE /\ frac' = 0 /\ cells' = nxt
        /\ port' = nxt /\ timer' = nxt
        /\ timers' = (timers \ {timer}) \cup {nxt}
        /\ openPorts' = (openPorts \ {port}) \cup {nxt}
    BY <2>j DEF StartJob, LaunchWorker
  <2> HIDE DEF FinishRecorded, Record
  <2>1. TypeOK'
    <3>1. QueueTypeOK'
      BY <1>0, <1>1, <2>0, <2>q DEF TypeOK, QueueTypeOK
    <3>2. FlagTypeOK'
      BY <2>q DEF TypeOK, FlagTypeOK
    <3>3. RefTypeOK'
      BY <2>0, <2>q DEF TypeOK, RefTypeOK, Refs
    <3>4. WorkerTypeOK'
      BY <2>p, <2>q DEF TypeOK, WorkerTypeOK
    <3>5. QED
      BY <3>1, <3>2, <3>3, <3>4, <2>p DEF TypeOK
  <2>2. RefsOK'
    BY <1>0, <2>0, <2>q DEF RefsOK
  <2>3. Fresh'
    <3> SUFFICES ASSUME NEW v \in Workers,
                        v[1] > starts \/ (v[1] = starts /\ v[2] > idx + 2)
                 PROVE  wk'[v] = "none" /\ output[v] = "absent"
      BY <2>q DEF Fresh, TypeOK, QueueTypeOK
    <3>0. v[1] > starts \/ (v[1] = starts /\ v[2] > idx + 2)
      OBVIOUS
    <3>1. v[1] > starts \/ (v[1] = starts /\ v[2] > idx + 1)
      BY WorkerPair DEF TypeOK, QueueTypeOK
    <3>2. v # w
      BY <1>0, WorkerPair DEF Current, TypeOK, QueueTypeOK
    <3>3. QED
      <4>1. v # nxt
        BY <2>0, WorkerPair, <3>0 DEF TypeOK, QueueTypeOK
      <4>2. QED
        BY <2>p, <3>1, <3>2, <4>1 DEF Fresh
  <2>4. HeapOK'
    BY <1>0, <2>0, <2>p, <2>q DEF HeapOK, InFlight
  <2>5. WorkersOK'
    BY <1>0, <2>0, <2>p, <2>q DEF WorkersOK, LeftBehind
  <2>6. CancelOK'
    BY <1>3, <2>0, <2>p, <2>q DEF CancelOK, NextJobExists
  <2>7. ResultsOK'
    <3>1. \A i \in 1..idx : results[i].by \in Workers
                           /\ wk[results[i].by] = "delivered"
      BY EntryBy DEF ResultsOK, TypeOK
    <3>2. (code[w] = "ok") <=> (output[w] \in Written)
      BY <1>0 DEF WorkersOK, LeftBehind
    <3>3. \A i \in 1..(idx + 1) :
            /\ results'[i].by = <<starts, i>>
            /\ wk'[results'[i].by] = "delivered"
            /\ (results'[i].code = "ok") <=> (output[results'[i].by] \in Written)
      <4> TAKE i \in 1..(idx + 1)
      <4>1. CASE i = idx + 1
        <5>1. results'[i].by = w /\ results'[i].code = code[w]
          BY <1>r, <4>1
        <5>2. wk'[w] = "delivered" /\ w = <<starts, i>>
          BY <1>0, <2>p, <4>1 DEF Current
        <5>3. QED
          BY <3>2, <5>1, <5>2
      <4>2. CASE i # idx + 1
        <5>1. i \in 1..idx /\ results'[i] = results[i]
          BY <1>1, <4>2 DEF TypeOK, QueueTypeOK
        <5>2. wk'[results[i].by] = "delivered"
          BY <1>0, <2>0, <2>p, <3>1, <5>1
        <5>3. QED
          BY <5>1, <5>2 DEF ResultsOK
      <4>3. QED
        BY <4>1, <4>2
    <3>4. QED
      BY <1>0, <1>1, <2>0, <2>q, <3>3 DEF ResultsOK, TypeOK, QueueTypeOK
  <2>8. GateOK'
    BY <1>0, <2>0, <2>p, <2>q DEF GateOK, InFlight
  <2>9. FracOK'
    BY <2>0, <2>p, <2>q DEF FracOK
  <2>10. QED
    BY <2>1, <2>2, <2>3, <2>4, <2>5, <2>6, <2>7, <2>8, <2>9
<1>4. CASE ~NextJobExists
  <2>p. /\ heap' \in [Workers -> {"none", "live", "freed"}]
        /\ wk' \in [Workers -> WorkerStates]
        /\ \A v \in Workers : wk'[v] = IF v = w THEN "delivered" ELSE wk[v]
        /\ \A v \in Workers :
             heap'[v] = IF v = w THEN "freed" ELSE heap[v]
    BY <1>0, <1>4, <1>w, FreedHeapPointwise DEF TypeOK, DisposeIdleResources
  <2>q. /\ UNCHANGED <<output, code, kind, starts, total, queueCancelled,
                       cancelCell, progressCell>>
        /\ closed' = closed /\ idx' = idx + 1 /\ ui' = "done"
        /\ active' = FALSE /\ cancelReq' = FALSE /\ frac' = 0 /\ cells' = NoRef
        /\ port' = NoRef /\ timer' = NoRef /\ timers' = timers \ {timer}
        /\ openPorts' = openPorts \ {port}
    BY <1>4 DEF DisposeIdleResources, DropReferences, EmitDone
  <2> HIDE DEF FinishRecorded, Record
  <2>1. TypeOK'
    <3>1. QueueTypeOK'
      BY <1>0, <1>1, <2>q DEF TypeOK, QueueTypeOK
    <3>2. FlagTypeOK'
      BY <2>q DEF TypeOK, FlagTypeOK
    <3>3. RefTypeOK'
      BY <2>q DEF TypeOK, RefTypeOK, Refs
    <3>4. CellTypeOK'
      BY <2>p, <2>q DEF TypeOK, CellTypeOK
    <3>5. WorkerTypeOK'
      BY <2>p, <2>q DEF TypeOK, WorkerTypeOK
    <3>6. QED
      BY <3>1, <3>2, <3>3, <3>4, <3>5 DEF TypeOK
  <2>2. RefsOK'
    BY <1>0, <2>q DEF RefsOK
  <2>3. Fresh'
    <3> SUFFICES ASSUME NEW v \in Workers,
                        v[1] > starts \/ (v[1] = starts /\ v[2] > idx + 2)
                 PROVE  wk'[v] = "none" /\ output[v] = "absent"
      BY <2>q DEF Fresh, TypeOK, QueueTypeOK
    <3>1. v[1] > starts \/ (v[1] = starts /\ v[2] > idx + 1)
      BY WorkerPair DEF TypeOK, QueueTypeOK
    <3>2. v # w
      BY <1>0, WorkerPair DEF Current, TypeOK, QueueTypeOK
    <3>3. QED
      BY <2>p, <3>1, <3>2 DEF Fresh
  <2>4. HeapOK'
    BY <1>0, <2>p, <2>q DEF HeapOK, InFlight
  <2>5. WorkersOK'
    BY <1>0, <2>p, <2>q DEF WorkersOK, LeftBehind
  <2>6. CancelOK'
    BY <2>q DEF CancelOK
  <2>7. ResultsOK'
    <3>1. \A i \in 1..idx : results[i].by \in Workers
                           /\ wk[results[i].by] = "delivered"
      BY EntryBy DEF ResultsOK, TypeOK
    <3>2. (code[w] = "ok") <=> (output[w] \in Written)
      BY <1>0 DEF WorkersOK, LeftBehind
    <3>3. \A i \in 1..(idx + 1) :
            /\ results'[i].by = <<starts, i>>
            /\ wk'[results'[i].by] = "delivered"
            /\ (results'[i].code = "ok") <=> (output[results'[i].by] \in Written)
      <4> TAKE i \in 1..(idx + 1)
      <4>1. CASE i = idx + 1
        <5>1. results'[i].by = w /\ results'[i].code = code[w]
          BY <1>r, <4>1
        <5>2. wk'[w] = "delivered" /\ w = <<starts, i>>
          BY <1>0, <2>p, <4>1 DEF Current
        <5>3. QED
          BY <3>2, <5>1, <5>2
      <4>2. CASE i # idx + 1
        <5>1. i \in 1..idx /\ results'[i] = results[i]
          BY <1>1, <4>2 DEF TypeOK, QueueTypeOK
        <5>2. wk'[results[i].by] = "delivered"
          BY <1>0, <2>p, <3>1, <5>1
        <5>3. QED
          BY <5>1, <5>2 DEF ResultsOK
      <4>3. QED
        BY <4>1, <4>2
    <3>4. ui' = "done" /\ ~queueCancelled' => idx' = total'
      BY <1>0, <1>4, <2>q DEF NextJobExists, TypeOK, QueueTypeOK
    <3>5. QED
      BY <1>0, <1>1, <2>q, <3>3, <3>4 DEF ResultsOK, TypeOK, QueueTypeOK
  <2>8. GateOK'
    BY <1>0, <2>p, <2>q DEF GateOK, InFlight
  <2>9. FracOK'
    BY <2>q DEF FracOK
  <2>10. QED
    BY <2>1, <2>2, <2>3, <2>4, <2>5, <2>6, <2>7, <2>8, <2>9
<1>5. QED
  BY <1>3, <1>4

\* A new queue replaces the old one, abandoning a native call in flight.
LEMMA StartChdStep ==
  ASSUME IInv, NEW n \in 1..MaxLen, StartChd(n)
  PROVE  IInv'
<1> USE Bounds DEF IInv
<1> DEFINE new == <<starts + 1, 1>>
<1>0. /\ new \in Workers /\ new # NoRef /\ new = Current' /\ new # cells
      /\ wk[new] = "none" /\ output[new] = "absent"
  BY NoRefNotWorker
     DEF StartChd, Current, Workers, NoRef, TypeOK, QueueTypeOK, Fresh, RefsOK
<1>1. active => cells \in Workers
  BY DEF RefsOK
<1>2. ~active => cells = NoRef
  BY DEF RefsOK
<1>3. PICK h \in [Workers -> {"none", "live", "freed"}] :
        /\ heap' = [h EXCEPT ![new] = "live"]
        /\ \A v \in Workers : h[v] = heap[v]
  <2>1. CASE active
    BY <2>1 DEF StartChd, StartJob, LaunchWorker, TypeOK, CellTypeOK
  <2>2. CASE ~active
    <3>1. FreedHeap = heap
      BY <1>2, <2>2 DEF FreedHeap
    <3>2. QED
      BY <2>2, <3>1 DEF StartChd, StartJob, LaunchWorker, TypeOK, CellTypeOK
  <2>3. QED
    BY <2>1, <2>2
<1>4. PICK c \in [Workers -> BOOLEAN] :
        /\ cancelCell' = [c EXCEPT ![new] = FALSE]
        /\ \A v \in Workers : v # cells => c[v] = cancelCell[v]
        /\ cells \in Workers => c[cells]
  <2>1. CASE active
    BY <2>1, SignalledPointwise
       DEF StartChd, StartJob, LaunchWorker, TypeOK, CellTypeOK
  <2>2. CASE ~active
    BY <1>2, <2>2, NoRefNotWorker
       DEF StartChd, StartJob, LaunchWorker, TypeOK, CellTypeOK
  <2>3. QED
    BY <2>1, <2>2
<1>q. /\ UNCHANGED <<output, code, kind>>
      /\ total' = n /\ queueCancelled' = FALSE /\ results' = <<>>
      /\ starts' = starts + 1 /\ starts < MaxStarts /\ ~closed
      /\ closed' = closed /\ idx' = 0 /\ ui' = "progress"
      /\ active' = TRUE /\ cancelReq' = FALSE /\ frac' = 0 /\ cells' = new
      /\ port' = new /\ timer' = new
      /\ timers' = (timers \ {timer}) \cup {new}
      /\ openPorts' = (openPorts \ {port}) \cup {new}
  BY DEF StartChd, StartJob, LaunchWorker
<1>p. /\ CellTypeOK' /\ wk' \in [Workers -> WorkerStates]
      /\ heap'[new] = "live" /\ cancelCell'[new] = FALSE
      /\ progressCell'[new] = 0
      /\ wk'[new] = "spawning"
      /\ \A v \in Workers \ {new} :
           /\ heap'[v] = heap[v] /\ cancelCell'[v] = c[v] /\ wk'[v] = wk[v]
           /\ progressCell'[v] = progressCell[v]
  <2>1. /\ progressCell' = [progressCell EXCEPT ![new] = 0]
        /\ wk' = [wk EXCEPT ![new] = "spawning"]
    BY DEF StartChd, StartJob, LaunchWorker
  <2>2. CellTypeOK /\ WorkerTypeOK /\ wk \in [Workers -> WorkerStates]
    BY DEF TypeOK, WorkerTypeOK
  <2>3. /\ CellTypeOK' /\ wk' \in [Workers -> WorkerStates]
        /\ heap'[new] = "live" /\ cancelCell'[new] = FALSE
        /\ progressCell'[new] = 0
        /\ wk'[new] = "spawning"
        /\ \A v \in Workers : v # new =>
             heap'[v] = h[v] /\ cancelCell'[v] = c[v] /\ wk'[v] = wk[v]
    <3>1. new \in Workers
      BY <1>0
    <3>2. heap' = [h EXCEPT ![new] = "live"]
          /\ cancelCell' = [c EXCEPT ![new] = FALSE]
      BY <1>3, <1>4
    <3> HIDE DEF new, IInv
    <3>3. QED
      BY <3>1, <3>2, <2>1, <2>2, LaunchPointwise, ZenonT(30)
  <2>4. \A v \in Workers \ {new} : progressCell'[v] = progressCell[v]
    BY <1>0, <2>1 DEF TypeOK, CellTypeOK
  <2>5. QED
    BY <1>3, <2>3, <2>4
<1>5. TypeOK'
  <2>1. QueueTypeOK'
    BY <1>q DEF TypeOK, QueueTypeOK
  <2>2. FlagTypeOK'
    BY <1>q DEF TypeOK, FlagTypeOK
  <2>3. RefTypeOK'
    BY <1>0, <1>q DEF TypeOK, RefTypeOK, Refs
  <2>4. WorkerTypeOK'
    BY <1>p, <1>q DEF TypeOK, WorkerTypeOK
  <2>5. QED
    BY <2>1, <2>2, <2>3, <2>4, <1>p DEF TypeOK
<1>6. RefsOK'
  BY <1>0, <1>q DEF RefsOK
<1>h. \A v \in Workers \ {new} :
        heap'[v] = heap[v] /\ cancelCell'[v] = c[v] /\ wk'[v] = wk[v]
  BY <1>p
<1>7. Fresh'
  <2> SUFFICES ASSUME NEW v \in Workers,
                      v[1] > starts + 1 \/ (v[1] = starts + 1 /\ v[2] > 1)
               PROVE  wk'[v] = "none" /\ output[v] = "absent"
    BY <1>q DEF Fresh, TypeOK, QueueTypeOK
  <2>1. v[1] > starts /\ v # new
    BY WorkerPair DEF TypeOK, QueueTypeOK
  <2>2. QED
    BY <1>h, <2>1 DEF Fresh
<1>8. HeapOK'
  <2>1. \A v \in Workers : InFlight(v)' => heap'[v] = "live"
    BY <1>h, <1>p DEF HeapOK, InFlight
  <2>2. \A v \in Workers : heap'[v] = "live" /\ v # new => cancelCell'[v]
    BY <1>h, <1>4 DEF HeapOK
  <2>3. QED
    BY <1>p, <1>q, <2>1, <2>2 DEF HeapOK, InFlight
<1>9. WorkersOK'
  <2>1. \A v \in Workers \ {new} : cancelCell[v] => cancelCell'[v]
    BY <1>p, <1>4
  <2>2. QED
    BY <1>0, <1>p, <1>q, <2>1 DEF WorkersOK, LeftBehind
<1>10. CancelOK'
  BY <1>0, <1>p, <1>q DEF CancelOK
<1>11. ResultsOK'
  BY <1>q DEF ResultsOK, TypeOK, QueueTypeOK
<1>12. GateOK'
  <2>1. Gated => \A v \in Workers : ~InFlight(v)
    <3>1. Gated => ~active
      BY DEF StartChd, RefsOK
    <3>2. QED
      BY <1>2, <1>q, <3>1, NoRefNotWorker DEF GateOK
  <2>2. QED
    BY <1>0, <1>p, <1>q, <2>1 DEF GateOK, InFlight
<1>13. FracOK'
  BY <1>0, <1>p, <1>q DEF FracOK
<1>14. QED
  BY <1>5, <1>6, <1>7, <1>8, <1>9, <1>10, <1>11, <1>12, <1>13

\* The invariant is inductive.
LEMMA NextInv == IInv /\ [Next]_vars => IInv'
<1> SUFFICES ASSUME IInv, [Next]_vars PROVE IInv'
  OBVIOUS
<1>1. ASSUME NEW n \in 1..MaxLen, StartChd(n) PROVE IInv'
  BY <1>1, StartChdStep
<1>2. CASE CancelIdle
  BY <1>2, CancelIdleStep
<1>3. CASE CancelActive
  BY <1>3, CancelActiveStep
<1>4. CASE ProgressTick
  BY <1>4, ProgressTickStep
<1>5. CASE Close
  BY <1>5, CloseStep
<1>6. ASSUME NEW w \in Workers, FinishCancelled(w) PROVE IInv'
  BY <1>6, FinishCancelledStep
<1>7. ASSUME NEW w \in Workers, FinishRecorded(w) PROVE IInv'
  BY <1>7, FinishRecordedStep
<1>8. ASSUME NEW w \in Workers,
             WorkerBegin(w) \/ SpawnFails(w) \/ NativeProgress(w) \/ NativeOk(w)
               \/ NativeCancelled(w) \/ NativeError(w) \/ WorkerSend(w)
      PROVE IInv'
  BY <1>8, WorkerStep
<1>9. CASE UNCHANGED vars
  BY <1>9 DEF vars, blocVars, worldVars, workerVars, IInv, TypeOK, QueueTypeOK,
     FlagTypeOK, RefTypeOK, CellTypeOK, WorkerTypeOK, RefsOK, Current, Fresh,
     HeapOK, InFlight, WorkersOK, LeftBehind, CancelOK, ResultsOK, GateOK, FracOK
<1>10. QED
  BY <1>1, <1>2, <1>3, <1>4, <1>5, <1>6, <1>7, <1>8, <1>9 DEF Next

\* The inductive invariant always holds.
THEOREM Invariance == Spec => []IInv
<1>1. Init => IInv
  BY InitInv
<1>2. IInv /\ [Next]_vars => IInv'
  BY NextInv
<1>3. QED
  BY <1>1, <1>2, PTL DEF Spec

\* Every variable keeps its type and the queue position stays in the list.
THEOREM TypeCorrect == Spec => []TypeOK
<1>1. IInv => TypeOK
  BY DEF IInv
<1>2. QED
  BY <1>1, Invariance, PTL

\* ChdBloc and ArchiveBloc never free a cell a native call may still touch,
\* however the user starts, cancels, restarts and closes.
THEOREM Safety_NoUseAfterFree == Spec => []NoUseAfterFree
<1>1. IInv => NoUseAfterFree
  BY DEF IInv, HeapOK, NoUseAfterFree
<1>2. QED
  BY <1>1, Invariance, PTL

\* Timers, ports and cells do not outlive their use, except the cells of an
\* operation abandoned in flight, which was told to stop.
THEOREM Safety_NothingLeaks == Spec => []NothingLeaks
<1>1. IInv => NothingLeaks
  <2> SUFFICES ASSUME IInv PROVE NothingLeaks
    OBVIOUS
  <2>1. timers \subseteq Workers /\ openPorts \subseteq Workers
    BY DEF IInv, TypeOK, RefTypeOK
  <2>2. ui # "progress" => ~active
    BY DEF IInv, RefsOK
  <2>3. QED
    BY <2>1, <2>2, NoRefNotWorker DEF IInv, HeapOK, RefsOK, NothingLeaks
<1>2. QED
  BY <1>1, Invariance, PTL

\* A queue's entries are its own jobs', in order, and a success has written its
\* output to the end.
THEOREM Safety_ResultsFaithful == Spec => []ResultsFaithful
<1>1. IInv => ResultsFaithful
  BY DEF IInv, TypeOK, QueueTypeOK, ResultsOK, ResultsFaithful
<1>2. QED
  BY <1>1, Invariance, PTL

\* A queue that ends uncancelled has handled every one of its jobs.
THEOREM Safety_DoneIsComplete == Spec => []DoneIsComplete
<1>1. IInv => DoneIsComplete
  BY DEF IInv, ResultsOK, DoneIsComplete
<1>2. QED
  BY <1>1, Invariance, PTL

\* A partial output nobody tried to remove is left behind by a failed CD
\* extraction, or by a chdman call that failed before its loop, and by nothing
\* else.
THEOREM Safety_CleanupTried == Spec => []CleanupTried
<1>1. IInv => CleanupTried
  BY DEF IInv, WorkersOK, LeftBehind, CleanupTried
<1>2. QED
  BY <1>1, Invariance, PTL

\* With the screen's gate two native calls never overlap.
THEOREM Safety_OneNativeCall == Gated => (Spec => []OneNativeCall)
<1> SUFFICES ASSUME Gated PROVE Spec => []OneNativeCall
  OBVIOUS
<1>1. IInv => OneNativeCall
  BY DEF IInv, GateOK, OneNativeCall
<1>2. QED
  BY <1>1, Invariance, PTL

\* After a cancel, only a new Start spawns a worker.
THEOREM Safety_CancelStopsQueue == Spec => CancelStopsQueue
<1> DEFINE Step == queueCancelled /\ starts' = starts =>
                     \A w \in Workers : wk[w] = "none" => wk'[w] = "none"
<1>1. IInv /\ [Next]_vars => [Step]_vars
  <2> SUFFICES ASSUME IInv, [Next]_vars, queueCancelled, starts' = starts,
                      NEW v \in Workers, wk[v] = "none"
               PROVE  wk'[v] = "none"
    OBVIOUS
  <2>0. wk \in [Workers -> WorkerStates] /\ starts \in Nat
    BY DEF IInv, TypeOK, WorkerTypeOK, QueueTypeOK
  <2>1. ASSUME NEW n \in 1..MaxLen, StartChd(n) PROVE wk'[v] = "none"
    BY <2>0, <2>1 DEF StartChd
  <2>2. CASE CancelIdle \/ CancelActive \/ ProgressTick \/ Close
    BY <2>2 DEF CancelIdle, CancelActive, ProgressTick, Close, workerVars
  <2>3. ASSUME NEW w \in Workers, FinishCancelled(w) PROVE wk'[v] = "none"
    BY <2>0, <2>3 DEF FinishCancelled, ResultArrives
  <2>4. ASSUME NEW w \in Workers, FinishRecorded(w) PROVE wk'[v] = "none"
    <3>1. ~NextJobExists
      BY DEF NextJobExists
    <3>2. QED
      BY <2>0, <2>4, <3>1 DEF FinishRecorded, Record, ResultArrives
  <2>5. ASSUME NEW w \in Workers,
               WorkerBegin(w) \/ SpawnFails(w) \/ NativeProgress(w)
                 \/ NativeOk(w) \/ NativeCancelled(w) \/ NativeError(w)
                 \/ WorkerSend(w)
        PROVE  wk'[v] = "none"
    BY <2>0, <2>5 DEF WorkerBegin, SpawnFails, NativeProgress, NativeOk,
       NativeCancelled, NativeError, WorkerSend
  <2>6. CASE UNCHANGED vars
    BY <2>6 DEF vars, workerVars
  <2>7. QED
    BY <2>1, <2>2, <2>3, <2>4, <2>5, <2>6 DEF Next
<1>2. QED
  BY <1>1, Invariance, PTL DEF Spec, CancelStopsQueue

\* The fraction shown for one job never goes backwards.
THEOREM Safety_ProgressMonotone == Spec => ProgressMonotone
<1> DEFINE Step == ui = "progress" /\ ui' = "progress"
                   /\ <<starts, idx>>' = <<starts, idx>> => frac' >= frac
<1>1. IInv /\ [Next]_vars => [Step]_vars
  <2> SUFFICES ASSUME IInv, [Next]_vars, ui = "progress", ui' = "progress",
                      starts' = starts, idx' = idx
               PROVE  frac' >= frac
    OBVIOUS
  <2>0. frac \in Nat /\ starts \in Nat /\ idx \in Nat
    BY DEF IInv, TypeOK, QueueTypeOK
  <2>1. ASSUME NEW n \in 1..MaxLen, StartChd(n) PROVE frac' >= frac
    BY <2>0, <2>1 DEF StartChd
  <2>2. CASE CancelIdle
    BY <2>2 DEF CancelIdle, EmitDone
  <2>3. CASE CancelActive \/ Close
    BY <2>0, <2>3 DEF CancelActive, Close
  <2>4. CASE ProgressTick
    BY <2>0, <2>4 DEF ProgressTick, IInv, RefsOK, FracOK
  <2>5. ASSUME NEW w \in Workers, FinishCancelled(w) PROVE frac' >= frac
    BY <2>5 DEF FinishCancelled, EmitDone
  <2>6. ASSUME NEW w \in Workers, FinishRecorded(w) PROVE frac' >= frac
    BY <2>0, <2>6 DEF FinishRecorded, Record
  <2>7. ASSUME NEW w \in Workers,
               WorkerBegin(w) \/ SpawnFails(w) \/ NativeProgress(w)
                 \/ NativeOk(w) \/ NativeCancelled(w) \/ NativeError(w)
                 \/ WorkerSend(w)
        PROVE  frac' >= frac
    BY <2>0, <2>7 DEF WorkerBegin, SpawnFails, NativeProgress, NativeOk,
       NativeCancelled, NativeError, WorkerSend, blocVars
  <2>8. CASE UNCHANGED vars
    BY <2>0, <2>8 DEF vars, blocVars
  <2>9. QED
    BY <2>1, <2>2, <2>3, <2>4, <2>5, <2>6, <2>7, <2>8 DEF Next
<1>2. QED
  BY <1>1, Invariance, PTL DEF Spec, ProgressMonotone

-----------------------------------------------------------------------------
(***************************************************************************)
(* NativeQueue implements JobQueue: what each action is for the screen.    *)
(***************************************************************************)

\* A queue that promises nothing more never promises anything again.
LEMMA AbandonedStays ==
  ASSUME IInv, [Next]_vars, Abandoned
  PROVE  Abandoned'
<1>0. wk \in [Workers -> WorkerStates] /\ starts \in Nat /\ idx \in Nat
  BY DEF IInv, TypeOK, WorkerTypeOK, QueueTypeOK
<1>1. closed => closed'
  BY DEF Next, StartChd, CancelIdle, CancelActive, ProgressTick, Close,
     FinishCancelled, FinishRecorded, Record, WorkerBegin, SpawnFails, NativeProgress,
     NativeOk, NativeCancelled, NativeError, WorkerSend, vars, blocVars
<1>2. ASSUME NEW v \in Workers, wk[v] = "failed" PROVE wk'[v] = "failed"
  <2>1. ASSUME NEW n \in 1..MaxLen, StartChd(n) PROVE wk'[v] = "failed"
    <3>1. <<starts + 1, 1>> \in Workers
      BY <1>0, <2>1, Bounds DEF StartChd, Workers
    <3>2. wk[<<starts + 1, 1>>] = "none"
      BY <1>0, <3>1 DEF IInv, Fresh
    <3>3. wk' = [wk EXCEPT ![<<starts + 1, 1>>] = "spawning"]
      BY <2>1 DEF StartChd, StartJob, LaunchWorker
    <3>4. QED
      BY <1>0, <1>2, <3>1, <3>2, <3>3
  <2>2. CASE CancelIdle \/ CancelActive \/ ProgressTick \/ Close
    BY <1>2, <2>2 DEF CancelIdle, CancelActive, ProgressTick, Close, workerVars
  <2>3. ASSUME NEW w \in Workers, FinishCancelled(w) PROVE wk'[v] = "failed"
    BY <1>0, <1>2, <2>3 DEF FinishCancelled, ResultArrives
  <2>4. ASSUME NEW w \in Workers, FinishRecorded(w) PROVE wk'[v] = "failed"
    <3> DEFINE sent == [wk EXCEPT ![w] = "delivered"]
    <3>1. sent[v] = "failed"
      BY <1>0, <1>2, <2>4 DEF FinishRecorded, ResultArrives
    <3>2. CASE NextJobExists
      <4>1. <<starts, idx + 2>> \in Workers
        BY <1>0, <3>2, <2>4, ArrivalIsCurrent, Bounds
           DEF NextJobExists, FinishRecorded, IInv, RefsOK, TypeOK, QueueTypeOK,
               Workers, Current
      <4>2. wk[<<starts, idx + 2>>] = "none"
        BY <1>0, <4>1 DEF IInv, Fresh
      <4>3. wk' = [sent EXCEPT ![<<starts, idx + 2>>] = "spawning"]
        BY <2>4, <3>2 DEF FinishRecorded, Record, StartJob, LaunchWorker
      <4>4. QED
        BY <1>0, <1>2, <3>1, <4>1, <4>2, <4>3
    <3>3. CASE ~NextJobExists
      BY <2>4, <3>1, <3>3 DEF FinishRecorded, Record
    <3>4. QED
      BY <3>2, <3>3
  <2>5. ASSUME NEW w \in Workers,
               WorkerBegin(w) \/ SpawnFails(w) \/ NativeProgress(w)
                 \/ NativeOk(w) \/ NativeCancelled(w) \/ NativeError(w)
                 \/ WorkerSend(w)
        PROVE  wk'[v] = "failed"
    BY <1>0, <1>2, <2>5 DEF WorkerBegin, SpawnFails, NativeProgress, NativeOk,
       NativeCancelled, NativeError, WorkerSend
  <2>6. CASE UNCHANGED vars
    BY <1>2, <2>6 DEF vars, workerVars
  <2>7. QED
    BY <2>1, <2>2, <2>3, <2>4, <2>5, <2>6 DEF Next
<1>3. QED
  BY <1>1, <1>2 DEF Abandoned

\* What the screen sees of a queue that keeps its promises.
LEMMA ListShown ==
  ASSUME ~Abandoned
  PROVE  /\ ListPhase = (IF ui = "progress" THEN "running" ELSE ui)
         /\ ListTotal = total
         /\ ListOutcomes = [i \in DOMAIN results |-> results[i].code = "ok"]
         /\ ListStopped <=> queueCancelled
         /\ ListStopped \in BOOLEAN
  BY DEF ListPhase, ListTotal, ListOutcomes, ListStopped

LEMMA ListShownNext ==
  ASSUME ~Abandoned'
  PROVE  /\ ListPhase' = (IF ui' = "progress" THEN "running" ELSE ui')
         /\ ListTotal' = total'
         /\ ListOutcomes' = [i \in DOMAIN results' |-> results'[i].code = "ok"]
         /\ ListStopped' <=> queueCancelled'
         /\ ListStopped' \in BOOLEAN
  BY DEF ListPhase, ListTotal, ListOutcomes, ListStopped

\* An abandoned queue looks disposed.
LEMMA ListDisposed ==
  /\ Abandoned => ListPhase = "disposed" /\ ListTotal = 0 /\ ListOutcomes = <<>>
                  /\ ListStopped = FALSE
  /\ Abandoned' => ListPhase' = "disposed" /\ ListTotal' = 0 /\ ListOutcomes' = <<>>
                   /\ ListStopped' = FALSE
  BY DEF ListPhase, ListTotal, ListOutcomes, ListStopped

\* The entry a worker's result becomes is the outcome of its job.
LEMMA OutcomeAppended ==
  ASSUME NEW w \in Workers, results \in Seq(Entries),
         results' = Append(results, [by |-> w, code |-> code[w]])
  PROVE  [i \in DOMAIN results' |-> results'[i].code = "ok"]
           = Append([i \in DOMAIN results |-> results[i].code = "ok"], code[w] = "ok")
<1> DEFINE old == [i \in DOMAIN results |-> results[i].code = "ok"]
           new == [i \in DOMAIN results' |-> results'[i].code = "ok"]
<1>1. Len(results) \in Nat /\ DOMAIN results = 1..Len(results)
  OBVIOUS
<1>2. /\ DOMAIN results' = 1..(Len(results) + 1)
      /\ \A i \in 1..Len(results) : results'[i] = results[i]
      /\ results'[Len(results) + 1] = [by |-> w, code |-> code[w]]
  OBVIOUS
<1>3. old \in Seq(BOOLEAN) /\ Len(old) = Len(results)
  BY <1>1
<1>4. /\ Append(old, code[w] = "ok") \in Seq(BOOLEAN)
      /\ DOMAIN Append(old, code[w] = "ok") = 1..(Len(results) + 1)
      /\ \A i \in 1..Len(results) : Append(old, code[w] = "ok")[i] = old[i]
      /\ Append(old, code[w] = "ok")[Len(results) + 1] = (code[w] = "ok")
  BY <1>1, <1>3
<1>5. new \in [1..(Len(results) + 1) -> BOOLEAN]
  BY <1>2
<1>6. \A i \in 1..(Len(results) + 1) : new[i] = Append(old, code[w] = "ok")[i]
  <2> SUFFICES ASSUME NEW i \in 1..(Len(results) + 1)
               PROVE  new[i] = Append(old, code[w] = "ok")[i]
    OBVIOUS
  <2>1. CASE i \in 1..Len(results)
    BY <1>1, <1>2, <1>4, <2>1
  <2>2. CASE i = Len(results) + 1
    BY <1>2, <1>4, <2>2
  <2>3. QED
    BY <1>1, <2>1, <2>2
<1>7. Append(old, code[w] = "ok") = [i \in 1..(Len(results) + 1) |->
                                       Append(old, code[w] = "ok")[i]]
  BY <1>4
<1>8. QED
  BY <1>5, <1>6, <1>7, <1>2

\* A Start replaces the list.
LEMMA StartRefines ==
  ASSUME IInv, ~Abandoned', NEW n \in 1..MaxLen, StartChd(n), ~Abandoned
  PROVE  Queue!Submit(n)
<1>1. ui' = "progress" /\ total' = n /\ results' = <<>> /\ queueCancelled' = FALSE
  BY DEF StartChd, StartJob, LaunchWorker
<1>2. ui # "disposed"
  BY DEF IInv, TypeOK, QueueTypeOK
<1>3. [i \in DOMAIN results' |-> results'[i].code = "ok"] = <<>>
  BY <1>1
<1>4. QED
  BY <1>1, <1>2, <1>3, ListShown, ListShownNext DEF Queue!Submit

\* A cancel ends an idle queue and is remembered by a running one.
LEMMA CancelRefines ==
  ASSUME IInv, ~Abandoned', CancelIdle \/ CancelActive, ~Abandoned
  PROVE  Queue!Cancel
<1>1. /\ queueCancelled' = TRUE /\ total' = total /\ results' = results
      /\ ui' = "done" \/ (ui = "progress" /\ ui' = "progress")
  BY DEF CancelIdle, EmitDone, CancelActive, IInv, RefsOK
<1>2. ui # "disposed"
  BY DEF IInv, TypeOK, QueueTypeOK
<1>3. QED
  BY <1>1, <1>2, ListShown, ListShownNext DEF Queue!Cancel

\* The result of a cancelled job ends its list.
LEMMA FinishCancelledRefines ==
  ASSUME IInv, ~Abandoned', NEW w \in Workers, FinishCancelled(w), ~Abandoned
  PROVE  Queue!Stop
<1>1. ui = "progress" /\ cells = w /\ w # NoRef
  BY ArrivalIsCurrent DEF FinishCancelled, IInv, RefsOK
<1>2. queueCancelled
  BY <1>1 DEF FinishCancelled, WasCancelled, ResultArrives, IInv, CancelOK, WorkersOK
<1>3. /\ ui' = "done" /\ queueCancelled' = queueCancelled /\ total' = total
      /\ results' = results
  BY DEF FinishCancelled, EmitDone
<1>4. QED
  BY <1>1, <1>2, <1>3, ListShown, ListShownNext DEF Queue!Stop

\* A recorded result is the outcome of the job whose turn it is.
LEMMA FinishRecordedRefines ==
  ASSUME IInv, ~Abandoned', NEW w \in Workers, FinishRecorded(w), ~Abandoned
  PROVE  Queue!Complete(code[w] = "ok")
<1>1. ui = "progress" /\ active /\ idx < total
  BY ArrivalIsCurrent DEF FinishRecorded, IInv, RefsOK
<1>2. ~queueCancelled
  BY <1>1 DEF FinishRecorded, WasCancelled, IInv, CancelOK
<1>3. /\ results \in Seq(Entries) /\ Len(results) = idx
      /\ idx \in Nat /\ total \in Nat
  BY DEF IInv, TypeOK, QueueTypeOK, ResultsOK
<1>4. /\ results' = Append(results, [by |-> w, code |-> code[w]])
      /\ queueCancelled' = queueCancelled /\ total' = total
      /\ ui' = IF idx + 1 = total THEN "done" ELSE "progress"
  BY <1>1, <1>2, <1>3 DEF FinishRecorded, Record, NextJobExists, StartJob, LaunchWorker,
     EmitDone
<1>5. ListOutcomes' = Append(ListOutcomes, code[w] = "ok")
  BY <1>3, <1>4, OutcomeAppended, ListShown, ListShownNext
<1>6. Len(ListOutcomes) = idx
  BY <1>3, ListShown
<1>7. ListPhase = "running" /\ ListTotal = total
      /\ ListPhase' = (IF idx + 1 = total THEN "done" ELSE "running")
      /\ ListTotal' = ListTotal
  BY <1>1, <1>4, ListShown, ListShownNext
<1>8. ListStopped = FALSE /\ ListStopped' = FALSE
  BY <1>2, <1>4, ListShown, ListShownNext
<1>9. QED
  BY <1>5, <1>6, <1>7, <1>8 DEF Queue!Complete

\* Every step of the bloc, of an isolate or of a native call is a step of the
\* abstract queue or leaves it as it is.
LEMMA StepRefines ==
  ASSUME IInv, [Next]_vars
  PROVE  [Queue!Next]_(Queue!vars)
<1>1. CASE Abandoned
  BY <1>1, AbandonedStays, ListDisposed DEF Queue!vars
<1>2. CASE ~Abandoned /\ Abandoned'
  <2>1. ListPhase # "disposed"
    BY <1>2, ListShown DEF IInv, TypeOK, QueueTypeOK
  <2>2. Queue!Dispose
    BY <1>2, <2>1, ListDisposed DEF Queue!Dispose
  <2>3. QED
    BY <2>2 DEF Queue!Next
<1>3. CASE ~Abandoned /\ ~Abandoned'
  <2>1. ASSUME NEW n \in 1..MaxLen, StartChd(n) PROVE Queue!Next
    BY <1>3, <2>1, StartRefines DEF Queue!Next
  <2>2. CASE CancelIdle \/ CancelActive
    BY <1>3, <2>2, CancelRefines DEF Queue!Next
  <2>3. ASSUME NEW w \in Workers, FinishCancelled(w) PROVE Queue!Next
    BY <1>3, <2>3, FinishCancelledRefines DEF Queue!Next, Queue!End
  <2>4. ASSUME NEW w \in Workers, FinishRecorded(w) PROVE Queue!Next
    <3>1. Queue!Complete(code[w] = "ok") /\ (code[w] = "ok") \in BOOLEAN
      BY <1>3, <2>4, FinishRecordedRefines
    <3>2. QED
      BY <3>1 DEF Queue!Next, Queue!End
  <2>5. CASE Close
    BY <1>3, <2>5 DEF Close, Abandoned
  <2>6. ASSUME UNCHANGED <<ui, total, results, queueCancelled>>
        PROVE  UNCHANGED Queue!vars
    <3>1. ListPhase' = ListPhase /\ ListTotal' = ListTotal
          /\ ListOutcomes' = ListOutcomes
      BY <1>3, <2>6, ListShown, ListShownNext
    <3>2. ListStopped' = ListStopped
      BY <1>3, <2>6, ListShown, ListShownNext
    <3>3. QED
      BY <3>1, <3>2 DEF Queue!vars
  <2>7. CASE ProgressTick
    BY <2>6, <2>7 DEF ProgressTick
  <2>8. ASSUME NEW w \in Workers,
               WorkerBegin(w) \/ SpawnFails(w) \/ NativeProgress(w)
                 \/ NativeOk(w) \/ NativeCancelled(w) \/ NativeError(w)
                 \/ WorkerSend(w)
        PROVE  UNCHANGED Queue!vars
    BY <2>6, <2>8 DEF WorkerBegin, SpawnFails, NativeProgress, NativeOk,
       NativeCancelled, NativeError, WorkerSend, blocVars
  <2>9. CASE UNCHANGED vars
    BY <2>6, <2>9 DEF vars, blocVars
  <2>10. QED
    BY <2>1, <2>2, <2>3, <2>4, <2>5, <2>7, <2>8, <2>9 DEF Next
<1>4. QED
  BY <1>1, <1>2, <1>3

\* The bloc, its isolates and its native calls are, for the screen, the abstract
\* queue: the safety part of the refinement, for any number of Starts and jobs.
THEOREM Refines_JobQueue == Spec => ImplementsJobQueue
<1>1. Init => Queue!Init
  BY DEF Init, Queue!Init, ListPhase, ListTotal, ListOutcomes, ListStopped, Abandoned
<1>2. IInv /\ [Next]_vars => [Queue!Next]_(Queue!vars)
  BY StepRefines
<1>3. QED
  BY <1>1, <1>2, Invariance, PTL DEF Spec, ImplementsJobQueue, Queue!Spec
=============================================================================
