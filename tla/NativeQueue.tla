---------------------------- MODULE NativeQueue -----------------------------
(***************************************************************************)
(* The queue runner shared by ChdBloc and ArchiveBloc: a list of jobs, one *)
(* worker isolate per job, each blocked in a synchronous native call.  The *)
(* bloc and the native call share two Int32 cells on the C heap: progress  *)
(* (written by the call, polled by a 150 ms timer) and cancel (written by  *)
(* the bloc, polled by the call).  An isolate cannot be stopped while it   *)
(* is in the native call, so the cells may be freed only after it returns. *)
(*                                                                         *)
(* One turn of the bloc's event loop is one action: an event added by a    *)
(* port, a timer or the screen is handled by a synchronous handler in the  *)
(* same turn.  A worker is named <<s, i>>, the i-th job of the s-th Start; *)
(* its cells, its port and its timer carry the same name.                  *)
(***************************************************************************)
EXTENDS Naturals, Sequences

CONSTANTS
  MaxStarts,      \* bound: how many queues the user starts
  MaxLen,         \* bound: the longest queue
  MaxProgress,    \* bound: ticks of the progress cell (0..1000 in the code)
  KindsAt,        \* bound: the kinds of operation at each position of a queue
  Gated,          \* TRUE: the screen never starts a queue over a running one
  SpawnMayFail,   \* TRUE: Isolate.spawn may fail asynchronously
  MayClose        \* TRUE: the bloc may be closed

\* What the native side does with a partial output tells the kinds apart.
\* "archiveFile" (compress, raw restore) tries to remove it on every failure;
\* "chdFile" (create CD or DVD, extract DVD) on every failure but those between
\* the creation of the file and the first hunk; "cdExtract" only when cancelled;
\* "container" leaves the directory for the Dart worker to remove.
AllKinds == {"archiveFile", "chdFile", "cdExtract", "container"}

ASSUME ConstAssumption ==
  /\ MaxStarts \in Nat
  /\ MaxLen \in Nat \ {0}
  /\ MaxProgress \in Nat \ {0}
  /\ KindsAt \in [1..MaxLen -> SUBSET AllKinds]
  /\ Gated \in BOOLEAN
  /\ SpawnMayFail \in BOOLEAN
  /\ MayClose \in BOOLEAN

Workers == (1..MaxStarts) \X (1..MaxLen)

\* The null of _progressCell and _cancelCell, _receivePort, _progressTimer.
NoRef == <<0, 0>>

VARIABLES
  \* the bloc
  ui,              \* the state last emitted: "idle", "progress" or "done"
  frac,            \* the fraction ChdProgress carries (0 in other states)
  total,           \* _jobs.length
  idx,             \* _currentIndex
  results,         \* _results: each entry's worker and result code
  active,          \* _workerActive
  cancelReq,       \* _cancelRequested
  queueCancelled,  \* _queueCancelled
  cells,           \* _progressCell and _cancelCell, always set together
  port,            \* _receivePort
  timer,           \* _progressTimer
  starts,          \* how many Start events were handled
  closed,          \* close() was called
  \* the runtime around it
  heap,            \* the two cells of each worker: "none", "live" or "freed"
  cancelCell,      \* the cancel cell's value
  progressCell,    \* the progress cell's value
  openPorts,       \* receive ports that deliver
  timers,          \* periodic timers that fire
  \* the worker isolates and what they leave on disk
  wk,              \* where each worker is
  kind,            \* the kind of its operation
  code,            \* what its native call returned
  output           \* its output file, see Outputs

blocVars == <<ui, frac, total, idx, results, active, cancelReq, queueCancelled,
              cells, port, timer, starts, closed>>
worldVars == <<heap, cancelCell, progressCell, openPorts, timers>>
workerVars == <<wk, kind, code, output>>
vars == <<blocVars, worldVars, workerVars>>

WorkerStates ==
  {"none", "spawning", "failed", "native", "returned", "sent", "delivered"}
Codes == {"none", "ok", "error", "cancelled"}

\* Calls do not look at what their last steps return: archive_write_close and
\* finish_entry, fclose, the read_data of a CD, the count of bytes MAME's
\* compressor reads.  What such a step loses makes a written output "damaged".
Written == {"complete", "damaged"}

\* Removals are best effort, their failure is never reported: the output is gone,
\* or the file (part of the directory) is "stuck" on disk.
Removed == {"absent", "stuck"}

Outputs == {"partial"} \cup Written \cup Removed
Entries == [by : Workers, code : {"ok", "error"}]

-----------------------------------------------------------------------------
Init ==
  /\ ui = "idle" /\ frac = 0
  /\ total = 0 /\ idx = 0 /\ results = <<>>
  /\ active = FALSE /\ cancelReq = FALSE /\ queueCancelled = FALSE
  /\ cells = NoRef /\ port = NoRef /\ timer = NoRef
  /\ starts = 0 /\ closed = FALSE
  /\ heap = [w \in Workers |-> "none"]
  /\ cancelCell = [w \in Workers |-> FALSE]
  /\ progressCell = [w \in Workers |-> 0]
  /\ openPorts = {} /\ timers = {}
  /\ wk = [w \in Workers |-> "none"]
  /\ kind = [w \in Workers |-> "none"]
  /\ code = [w \in Workers |-> "none"]
  /\ output = [w \in Workers |-> "absent"]

\* calloc.free on the cells the bloc refers to, if any.
FreedHeap ==
  IF cells = NoRef THEN heap ELSE [heap EXCEPT ![cells] = "freed"]

\* Mutant of Signalled: the call in flight is never told to stop.
NotSignalled == cancelCell

\* _cancelCell?.value = 1
Signalled ==
  IF cells = NoRef THEN cancelCell ELSE [cancelCell EXCEPT ![cells] = TRUE]

\* The part _disposeIdleResources and _detachResources share: stop the timer,
\* close the port, forget every reference.
DropReferences ==
  /\ timers' = timers \ {timer} /\ timer' = NoRef
  /\ openPorts' = openPorts \ {port} /\ port' = NoRef
  /\ cells' = NoRef
  /\ active' = FALSE

\* _disposeIdleResources: drop the references and free the cells.
DisposeIdleResources ==
  /\ DropReferences
  /\ heap' = FreedHeap
  /\ UNCHANGED cancelCell

\* _cancelCell?.value = 1 and _detachResources: the cells are not freed.
SignalAndDetach ==
  /\ DropReferences
  /\ cancelCell' = Signalled
  /\ UNCHANGED heap

\* _startJob for worker w, but for its timer, its port and its fraction.
LaunchWorker(w, h, c, k) ==
  /\ ui' = "progress"
  /\ cancelReq' = FALSE
  /\ cells' = w
  /\ heap' = [h EXCEPT ![w] = "live"]
  /\ cancelCell' = [c EXCEPT ![w] = FALSE]
  /\ progressCell' = [progressCell EXCEPT ![w] = 0]
  /\ wk' = [k EXCEPT ![w] = "spawning"]
  /\ active' = TRUE

\* Mutant of StartJob: the port of the previous job stays open.
StartJobOverOpenPort(w, h, c, k) ==
  /\ LaunchWorker(w, h, c, k)
  /\ frac' = 0
  /\ timers' = (timers \ {timer}) \cup {w} /\ timer' = w
  /\ openPorts' = openPorts \cup {w} /\ port' = w

\* _startJob for worker w, after the caller disposed of (or detached) what the
\* bloc held: h, c and k are the heap, cancel cells and workers it left.
StartJob(w, h, c, k) ==
  /\ LaunchWorker(w, h, c, k)
  /\ frac' = 0
  /\ timers' = (timers \ {timer}) \cup {w} /\ timer' = w
  /\ openPorts' = (openPorts \ {port}) \cup {w} /\ port' = w

\* _onStartChd.  An operation still in flight is told to stop and abandoned.
StartChd(n) ==
  /\ ~closed
  /\ starts < MaxStarts
  /\ Gated => ui # "progress"
  /\ starts' = starts + 1
  /\ total' = n /\ idx' = 0 /\ results' = <<>>
  /\ queueCancelled' = FALSE
  /\ IF active
     THEN StartJob(<<starts + 1, 1>>, heap, Signalled, wk)
     ELSE StartJob(<<starts + 1, 1>>, FreedHeap, cancelCell, wk)
  /\ UNCHANGED <<closed, kind, code, output>>

\* emit(_doneState())
EmitDone == ui' = "done" /\ frac' = 0

\* _onCancelChd with nothing native running.
CancelIdle ==
  /\ ~closed
  /\ ~active
  /\ queueCancelled' = TRUE
  /\ DisposeIdleResources
  /\ EmitDone
  /\ UNCHANGED <<total, idx, results, cancelReq, starts, closed, progressCell,
                 workerVars>>

\* Mutant of CancelActive: the cells are freed under the running native call.
CancelActiveFreeing ==
  /\ ~closed
  /\ active
  /\ queueCancelled' = TRUE
  /\ DisposeIdleResources
  /\ ui' = "done" /\ frac' = 0
  /\ UNCHANGED <<total, idx, results, cancelReq, starts, closed, progressCell,
                 workerVars>>

\* Mutant of CancelActive: the port is closed before the result came.
CancelActiveDeaf ==
  /\ ~closed
  /\ active
  /\ queueCancelled' = TRUE
  /\ cancelReq' = TRUE
  /\ cancelCell' = Signalled
  /\ timers' = timers \ {timer} /\ timer' = NoRef
  /\ openPorts' = openPorts \ {port}
  /\ UNCHANGED <<ui, frac, total, idx, results, active, cells, port, starts,
                 closed, heap, progressCell, workerVars>>

\* _onCancelChd with a native call in flight: ask, and wait for its result.
CancelActive ==
  /\ ~closed
  /\ active
  /\ queueCancelled' = TRUE
  /\ cancelReq' = TRUE
  /\ cancelCell' = Signalled
  /\ timers' = timers \ {timer} /\ timer' = NoRef
  /\ UNCHANGED <<ui, frac, total, idx, results, active, cells, port, starts,
                 closed, heap, progressCell, openPorts, workerVars>>

\* Mutant of NextJobExists: the last job of the list is skipped.
NextJobExistsShort == ~queueCancelled /\ idx + 2 < total

\* !_queueCancelled && _currentIndex < _jobs.length, after the increment.
NextJobExists == ~queueCancelled /\ idx + 1 < total

\* The result of w reaches _onChdFinished: its port is still open.
ResultArrives(w) == w \in openPorts /\ wk[w] = "sent"

WasCancelled(w) == cancelReq \/ code[w] = "cancelled"

\* _onChdFinished on a cancelled job: it leaves no entry and ends the queue.
FinishCancelled(w) ==
  /\ ResultArrives(w)
  /\ WasCancelled(w)
  /\ wk' = [wk EXCEPT ![w] = "delivered"]
  /\ cancelReq' = FALSE
  /\ DisposeIdleResources
  /\ EmitDone
  /\ UNCHANGED <<total, idx, results, queueCancelled, starts, closed,
                 progressCell, kind, code, output>>

\* Record the result of w, then start the next job (if more) or end.
Record(w, more) ==
  /\ results' = Append(results, [by |-> w, code |-> code[w]])
  /\ idx' = idx + 1
  /\ LET workers == [wk EXCEPT ![w] = "delivered"]
     IN IF more
        THEN StartJob(<<starts, idx + 2>>, FreedHeap, cancelCell, workers)
        ELSE /\ wk' = workers
             /\ cancelReq' = FALSE
             /\ DisposeIdleResources
             /\ EmitDone
             /\ UNCHANGED progressCell
  /\ UNCHANGED <<total, queueCancelled, starts, closed, kind, code, output>>

\* Mutant of FinishRecorded: only the worker's word counts as a cancel.
FinishRecordedIgnoringCancel(w) ==
  /\ ResultArrives(w)
  /\ code[w] # "cancelled"
  /\ Record(w, idx + 1 < total)

\* _onChdFinished on a job that was not cancelled.
FinishRecorded(w) ==
  /\ ResultArrives(w)
  /\ ~WasCancelled(w)
  /\ Record(w, NextJobExists)

\* The periodic timer reads the progress cell and _onChdProgressUpdate shows
\* it while an operation is in flight.
ProgressTick ==
  /\ timers # {}
  /\ cells # NoRef
  /\ ui = "progress"
  /\ frac' = progressCell[cells]
  /\ UNCHANGED <<ui, total, idx, results, active, cancelReq, queueCancelled,
                 cells, port, timer, starts, closed, worldVars, workerVars>>

\* close()
Close ==
  /\ MayClose
  /\ ~closed
  /\ closed' = TRUE
  /\ IF active THEN SignalAndDetach ELSE DisposeIdleResources
  /\ UNCHANGED <<ui, frac, total, idx, results, cancelReq, queueCancelled,
                 starts, progressCell, workerVars>>

-----------------------------------------------------------------------------
\* The isolate starts and enters the native call.
WorkerBegin(w) ==
  /\ wk[w] = "spawning"
  /\ wk' = [wk EXCEPT ![w] = "native"]
  /\ \E k \in KindsAt[w[2]] : kind' = [kind EXCEPT ![w] = k]
  /\ UNCHANGED <<blocVars, worldVars, code, output>>

\* Isolate.spawn is asynchronous and nothing awaits it, so _startJob's catch
\* never sees its failure.
SpawnFails(w) ==
  /\ SpawnMayFail
  /\ wk[w] = "spawning"
  /\ wk' = [wk EXCEPT ![w] = "failed"]
  /\ UNCHANGED <<blocVars, worldVars, kind, code, output>>

\* The native loop writes some output and the progress cell.
NativeProgress(w) ==
  /\ wk[w] = "native"
  /\ progressCell[w] < MaxProgress
  /\ progressCell' = [progressCell EXCEPT ![w] = @ + 1]
  /\ output' = [output EXCEPT ![w] = "partial"]
  /\ UNCHANGED <<blocVars, heap, cancelCell, openPorts, timers, wk, kind, code>>

\* The loop ran to its end, whatever the steps nobody looks at did.
NativeOk(w) ==
  /\ wk[w] = "native"
  /\ wk' = [wk EXCEPT ![w] = "returned"]
  /\ code' = [code EXCEPT ![w] = "ok"]
  /\ progressCell' = [progressCell EXCEPT ![w] = MaxProgress]
  /\ \E o \in Written : output' = [output EXCEPT ![w] = o]
  /\ UNCHANGED <<blocVars, heap, cancelCell, openPorts, timers, kind>>

\* The loop polled a non-zero cancel cell.
NativeCancelled(w) ==
  /\ wk[w] = "native"
  /\ cancelCell[w]
  /\ wk' = [wk EXCEPT ![w] = "returned"]
  /\ code' = [code EXCEPT ![w] = "cancelled"]
  /\ \E o \in IF kind[w] = "container" THEN {output[w]} ELSE Removed :
       output' = [output EXCEPT ![w] = o]
  /\ UNCHANGED <<blocVars, worldVars, kind>>

\* The outputs an error return may leave.
Leftovers(w) ==
  CASE kind[w] \in {"cdExtract", "container"} -> {output[w], "partial"}
    [] kind[w] = "chdFile" /\ progressCell[w] = 0 -> Removed \cup {"partial"}
    [] OTHER -> Removed

NativeError(w) ==
  /\ wk[w] = "native"
  /\ wk' = [wk EXCEPT ![w] = "returned"]
  /\ code' = [code EXCEPT ![w] = "error"]
  /\ \E left \in Leftovers(w) : output' = [output EXCEPT ![w] = left]
  /\ UNCHANGED <<blocVars, worldVars, kind>>

NativeReturn(w) == NativeOk(w) \/ NativeCancelled(w) \/ NativeError(w)

\* Mutant of WorkerSend: a partial extraction directory stays.
WorkerSendNoCleanup(w) ==
  /\ wk[w] = "returned"
  /\ wk' = [wk EXCEPT ![w] = "sent"]
  /\ UNCHANGED <<blocVars, worldVars, kind, code, output>>

\* What _cleanupPartial may leave: only a directory that is there and whose
\* extraction did not succeed is deleted.
AfterCleanup(w) ==
  IF kind[w] = "container" /\ code[w] # "ok" /\ output[w] # "absent"
  THEN Removed ELSE {output[w]}

\* The Dart worker tries to delete a partial extraction directory and sends its
\* result.  To a closed port the result is lost.
WorkerSend(w) ==
  /\ wk[w] = "returned"
  /\ wk' = [wk EXCEPT ![w] = "sent"]
  /\ \E o \in AfterCleanup(w) : output' = [output EXCEPT ![w] = o]
  /\ UNCHANGED <<blocVars, worldVars, kind, code>>

-----------------------------------------------------------------------------
Finished(w) == FinishCancelled(w) \/ FinishRecorded(w)

Next ==
  \/ \E n \in 1..MaxLen : StartChd(n)
  \/ CancelIdle
  \/ CancelActive
  \/ ProgressTick
  \/ Close
  \/ \E w \in Workers :
       \/ FinishCancelled(w)
       \/ FinishRecorded(w)
       \/ WorkerBegin(w)
       \/ SpawnFails(w)
       \/ NativeProgress(w)
       \/ NativeOk(w)
       \/ NativeCancelled(w)
       \/ NativeError(w)
       \/ WorkerSend(w)

\* Isolates that were spawned start, native calls return (their inputs are
\* finite files), and the event loop delivers what was sent.
Fairness ==
  \A w \in Workers :
    /\ WF_vars(WorkerBegin(w))
    /\ WF_vars(NativeReturn(w))
    /\ WF_vars(WorkerSend(w))
    /\ WF_vars(Finished(w))

Spec == Init /\ [][Next]_vars
FairSpec == Spec /\ Fairness

-----------------------------------------------------------------------------
Refs == Workers \cup {NoRef}

QueueTypeOK ==
  /\ ui \in {"idle", "progress", "done"}
  /\ frac \in 0..MaxProgress
  /\ total \in 0..MaxLen /\ idx \in 0..MaxLen
  /\ starts \in 0..MaxStarts
  /\ results \in Seq(Entries)

FlagTypeOK ==
  /\ active \in BOOLEAN /\ cancelReq \in BOOLEAN
  /\ queueCancelled \in BOOLEAN /\ closed \in BOOLEAN

RefTypeOK ==
  /\ cells \in Refs /\ port \in Refs /\ timer \in Refs
  /\ openPorts \subseteq Workers /\ timers \subseteq Workers

CellTypeOK ==
  /\ heap \in [Workers -> {"none", "live", "freed"}]
  /\ cancelCell \in [Workers -> BOOLEAN]
  /\ progressCell \in [Workers -> 0..MaxProgress]

WorkerTypeOK ==
  /\ wk \in [Workers -> WorkerStates]
  /\ kind \in [Workers -> AllKinds \cup {"none"}]
  /\ code \in [Workers -> Codes]
  /\ output \in [Workers -> Outputs]

\* Every variable holds a value of its type; a position past the list, or a
\* reference to a worker that cannot exist, is out of it.
TypeOK == QueueTypeOK /\ FlagTypeOK /\ RefTypeOK /\ CellTypeOK /\ WorkerTypeOK

\* A worker that holds the addresses of its cells and has not come back.
InFlight(w) == wk[w] \in {"spawning", "native"}

\* Nobody touches freed cells: neither a native call, whatever the user
\* cancelled or restarted under it, nor the bloc through its own references
\* (the reason ChdBloc signals instead of freeing or killing).
NoUseAfterFree ==
  /\ \A w \in Workers : InFlight(w) => heap[w] = "live"
  /\ cells # NoRef => heap[cells] = "live"

\* Nothing outlives its use: at most the current timer and port are alive,
\* none once the queue is done, and the only cells never freed are those of an
\* operation abandoned in flight, which was told to stop.
NothingLeaks ==
  /\ timers \subseteq {timer} /\ openPorts \subseteq {port}
  /\ ui # "progress" => timers = {} /\ openPorts = {} /\ cells = NoRef
  /\ \A w \in Workers : heap[w] = "live" /\ w # cells => cancelCell[w]

\* The i-th entry of a queue's results is the i-th job of that very queue, never
\* a late result of an earlier one, and it is a success just when that job's
\* output was written to its end and is still there (what the steps nobody looks
\* at lost of it, no flag tells).
ResultsFaithful ==
  \A i \in DOMAIN results :
    /\ results[i].by = <<starts, i>>
    /\ (results[i].code = "ok") <=> (output[results[i].by] \in Written)

\* A queue that ended and was not cancelled has one entry for each of its jobs.
DoneIsComplete ==
  ui = "done" /\ ~queueCancelled => Len(results) = total

\* The failures that leave a file behind: chdman_extract_cd_ex removes the .cue
\* and the .bin when cancelled, not on its error returns; the other chdman calls
\* return without a removal from the steps before their loop.
LeftBehind(w) ==
  /\ code[w] = "error"
  /\ kind[w] = "cdExtract" \/ (kind[w] = "chdFile" /\ progressCell[w] = 0)

\* Once its result is sent a worker leaves a partial output that nobody tried to
\* remove in the two cases of LeftBehind only: never when its call saw the cancel,
\* and never for an archive.
CleanupTried ==
  \A w \in Workers :
    wk[w] \in {"sent", "delivered"} /\ output[w] = "partial" => LeftBehind(w)

\* With the screen's gate no two native calls run at the same time.
OneNativeCall ==
  \A v, w \in Workers : InFlight(v) /\ InFlight(w) => v = w

\* "so no further jobs are started": after a cancel only a new Start spawns.
CancelStopsQueue ==
  [][ queueCancelled /\ starts' = starts =>
        \A w \in Workers : wk[w] = "none" => wk'[w] = "none" ]_vars

\* The fraction shown for one job never goes backwards.
ProgressMonotone ==
  [][ ui = "progress" /\ ui' = "progress" /\ <<starts, idx>>' = <<starts, idx>>
        => frac' >= frac ]_vars

\* Nobody tells the bloc of a spawn that failed after _onStart returned: its
\* queue shows progress until it is started over or closed.
Abandoned == closed \/ \E w \in Workers : wk[w] = "failed"

\* The refinement mapping.  Abandoned, the queue promises nothing more.
ListPhase == IF Abandoned THEN "disposed"
             ELSE IF ui = "progress" THEN "running" ELSE ui
ListTotal == IF Abandoned THEN 0 ELSE total
ListOutcomes == IF Abandoned THEN <<>>
                ELSE [i \in DOMAIN results |-> results[i].code = "ok"]
ListStopped == queueCancelled /\ ~Abandoned

Queue == INSTANCE JobQueue WITH
  phase <- ListPhase, total <- ListTotal, outcomes <- ListOutcomes,
  stopped <- ListStopped, session <- 0

\* The queue, seen from the screen, is the abstract one: whatever is started over,
\* cancelled and abandoned, one outcome per job in the order of the jobs, "done"
\* with the last or after a cancel, and never without one.
ImplementsJobQueue == Queue!Spec

\* It ends, cancelled or not, although nothing interrupts its native call.
QueueEnds == Queue!Progress
=============================================================================
