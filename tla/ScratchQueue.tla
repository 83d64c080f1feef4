---------------------------- MODULE ScratchQueue ----------------------------
(***************************************************************************)
(* The queue runner of NszBloc and NspUnmergeBloc: a list of jobs, one     *)
(* worker isolate per job, killed to cancel it.  NszBloc hands each worker *)
(* a scratch directory which it creates before the spawn and asks to be    *)
(* deleted when the job is over; nobody awaits the deletion, or hears of   *)
(* its failure.  _startJob awaits twice, for the directory and for         *)
(* Isolate.spawn; the fields _tempDirPath, _receivePort and _isolate are   *)
(* set after an await, and a cancel or a close may come in between.        *)
(* The process may die and be launched again, which starts a purge of the  *)
(* scratch directories on disk; Clear cache starts one at any time.        *)
(*                                                                         *)
(* NszBenchmarkScreen does the same for a single job without a bloc, and   *)
(* keeps the directory of a run that succeeded.                            *)
(*                                                                         *)
(* One turn of the bloc's event loop is one action.  A worker is named     *)
(* <<s, i>>, the i-th job of the s-th Start; its port, its isolate and its *)
(* scratch directory carry the same name.                                  *)
(***************************************************************************)
EXTENDS Naturals, Sequences

CONSTANTS
  MaxStarts,        \* bound: how many queues the user starts
  MaxLen,           \* bound: the longest queue
  LenAt,            \* bound: the longest queue at each Start
  Variants,         \* who runs the jobs: "nsz", "unmerge", "benchmark"
  MayFail,          \* TRUE: Isolate.spawn and createScratchDir may fail, and an
                    \* isolate may die
  MayClose,         \* TRUE: the bloc may be closed
  MaxRestarts,      \* bound: how many times the process dies
  MaxClearStarts    \* bound: up to which Start Clear cache is used

ASSUME ConstAssumption ==
  /\ MaxStarts \in Nat
  /\ MaxLen \in Nat \ {0}
  /\ LenAt \in [1..MaxStarts -> 1..MaxLen]
  /\ Variants \subseteq {"nsz", "unmerge", "benchmark"}
  /\ MayFail \in BOOLEAN
  /\ MayClose \in BOOLEAN
  /\ MaxRestarts \in Nat
  /\ MaxClearStarts \in Nat

Workers == (1..MaxStarts) \X (1..MaxLen)

\* The null of _isolate, _receivePort and _tempDirPath.
NoRef == <<0, 0>>

VARIABLES
  variant,         \* the bloc or screen this is
  ui,              \* the state last emitted: "idle", "running" or "done"
  total,           \* _jobs.length
  idx,             \* _currentIndex
  results,         \* _results: each entry's success flag
  queueCancelled,  \* _queueCancelled
  isolate,         \* _isolate
  port,            \* _receivePort
  tempDir,         \* _tempDirPath
  starts,          \* how many Start events were handled
  closed,          \* close() was called
  step,            \* where each _startJob is, see Steps
  openPorts,       \* receive ports that deliver
  disk,            \* where each scratch directory is, see DiskStates
  deleting,        \* directories whose deleteScratchDir is under way
  wk,              \* where each isolate is
  overtaken,       \* history: a cancel or a close found a _startJob awaiting
  session,         \* how many processes came before this one
  before,          \* how many of the starts were theirs
  purging          \* directories a running purge has still to visit

refs == <<isolate, port, tempDir>>
queueVars == <<total, idx, results, queueCancelled, starts>>
processVars == <<session, before, purging>>
vars == <<variant, ui, queueVars, refs, closed, step, openPorts, disk, deleting,
          wk, overtaken, processVars>>

Steps == {"none", "scratch", "spawn", "returned", "threw"}
WorkerStates ==
  {"none", "starting", "up", "succeeded", "failed", "ended", "died"}

\* A directory is "left" when its deletion was tried and refused.
OnDisk == {"live", "left"}
DiskStates == {"none", "deleted"} \cup OnDisk

-----------------------------------------------------------------------------
Init ==
  /\ variant \in Variants
  /\ ui = "idle"
  /\ total = 0 /\ idx = 0 /\ results = <<>>
  /\ queueCancelled = FALSE
  /\ isolate = NoRef /\ port = NoRef /\ tempDir = NoRef
  /\ starts = 0 /\ closed = FALSE
  /\ step = [w \in Workers |-> "none"]
  /\ openPorts = {}
  /\ disk = [w \in Workers |-> "none"]
  /\ deleting = {}
  /\ wk = [w \in Workers |-> "none"]
  /\ overtaken = FALSE
  /\ session = 0 /\ before = 0 /\ purging = {}

Awaiting(w) == step[w] \in {"scratch", "spawn"}

-----------------------------------------------------------------------------
\* Mutant of Killed: the worker runs on.
NotKilled(k) == k

\* _isolate?.kill(): a worker that has sent its result has ended already.
Killed(k) ==
  IF isolate # NoRef /\ k[isolate] = "up"
  THEN [k EXCEPT ![isolate] = "ended"] ELSE k

\* Mutant of PortsLeft: the port stays open.
PortsKept == openPorts

\* _receivePort?.close()
PortsLeft == openPorts \ {port}

\* Mutant of ToDelete: the scratch directory is forgotten, not deleted.
ToForget == deleting

\* FileService.deleteScratchDir(_tempDirPath), fired and forgotten.
ToDelete == IF tempDir = NoRef THEN deleting ELSE deleting \cup {tempDir}

\* _cleanupIsolate, k being the workers as the caller left them.
CleanupIsolate(k) ==
  /\ wk' = Killed(k)
  /\ openPorts' = PortsLeft
  /\ isolate' = NoRef /\ port' = NoRef

\* _cleanup
Cleanup(k) ==
  /\ CleanupIsolate(k)
  /\ deleting' = ToDelete
  /\ tempDir' = NoRef

\* The listener is attached to a fresh port and the spawn is asked for.  A port
\* the field still refers to is dropped without being closed.
OpenPortAndSpawn(w, ports, k, st) ==
  /\ port' = w
  /\ openPorts' = ports \cup {w}
  /\ wk' = [k EXCEPT ![w] = "starting"]
  /\ step' = [st EXCEPT ![w] = "spawn"]

\* _cleanup, then _startJob for worker w up to its first await.  The benchmark
\* starts without a clean-up.
CleanupAndStartJob(w, k, st) ==
  /\ ui' = "running"
  /\ \/ /\ variant = "nsz"
        /\ Cleanup(k)
        /\ step' = [st EXCEPT ![w] = "scratch"]
     \/ /\ variant = "unmerge"
        /\ OpenPortAndSpawn(w, PortsLeft, Killed(k), st)
        /\ isolate' = NoRef
        /\ UNCHANGED <<tempDir, deleting>>
     \/ /\ variant = "benchmark"
        /\ wk' = k
        /\ step' = [st EXCEPT ![w] = "scratch"]
        /\ UNCHANGED <<refs, openPorts, deleting>>

\* _onStartNsz, _startBenchmark.  The screen offers it while nothing runs.
StartNsz(n) ==
  /\ ~closed
  /\ variant = "benchmark" => n = 1
  /\ ui # "running"
  /\ starts < MaxStarts
  /\ n <= LenAt[starts + 1]
  /\ starts' = starts + 1
  /\ total' = n /\ idx' = 0 /\ results' = <<>>
  /\ queueCancelled' = FALSE
  /\ CleanupAndStartJob(<<starts + 1, 1>>, wk, step)
  /\ UNCHANGED <<variant, closed, disk, overtaken, processVars>>

\* _onCancelNsz, _cancelBenchmark; the latter is offered while it runs.
CancelNsz ==
  /\ ~closed
  /\ variant = "benchmark" => ui = "running"
  /\ queueCancelled' = TRUE
  /\ Cleanup(wk)
  /\ ui' = "done"
  /\ overtaken' = (overtaken \/ \E w \in Workers : Awaiting(w))
  /\ UNCHANGED <<variant, total, idx, results, starts, closed, step, disk,
                 processVars>>

\* close()
Close ==
  /\ MayClose
  /\ ~closed
  /\ closed' = TRUE
  /\ Cleanup(wk)
  /\ overtaken' = (overtaken \/ \E w \in Workers : Awaiting(w))
  /\ UNCHANGED <<variant, ui, queueVars, step, disk, processVars>>

\* await createScratchDir() returns, whatever happened meanwhile.
ScratchReady(w) ==
  /\ step[w] = "scratch"
  /\ tempDir' = w
  /\ disk' = [disk EXCEPT ![w] = "live"]
  /\ OpenPortAndSpawn(w, openPorts, wk, step)
  /\ UNCHANGED <<variant, ui, queueVars, isolate, closed, deleting, overtaken,
                 processVars>>

\* await createScratchDir() throws, outside the try: nobody is told.
ScratchFails(w) ==
  /\ MayFail
  /\ step[w] = "scratch"
  /\ step' = [step EXCEPT ![w] = "threw"]
  /\ UNCHANGED <<variant, ui, queueVars, refs, closed, openPorts, disk, deleting,
                 wk, overtaken, processVars>>

\* await Isolate.spawn() returns: _isolate = isolate, cancelled or not.
SpawnResolves(w) ==
  /\ step[w] = "spawn"
  /\ wk[w] \notin {"none", "starting"}
  /\ step' = [step EXCEPT ![w] = "returned"]
  /\ isolate' = w
  /\ UNCHANGED <<variant, ui, queueVars, port, tempDir, closed, openPorts, disk,
                 deleting, wk, overtaken, processVars>>

\* !_queueCancelled && _currentIndex < _jobs.length, after the increment.
NextJobExists == ~queueCancelled /\ idx + 1 < total

\* _onSuccess keeps the scratch directory, _onError does not.
BenchmarkEnds(success, k, st) ==
  /\ results' = <<success>> /\ idx' = 1
  /\ ui' = "done" /\ step' = st
  /\ IF success THEN CleanupIsolate(k) /\ UNCHANGED <<tempDir, deleting>>
                ELSE Cleanup(k)

\* The result is lost: a closed bloc refuses the event, a screen that is gone
\* cannot set its state, _jobs[_currentIndex] throws when no job is left, and the
\* length of the benchmark's output cannot be asked for when _outputPath (set and
\* forgotten with _tempDirPath) is not the worker's own.
ResultLost(w, success) ==
  \/ closed
  \/ variant # "benchmark" /\ idx >= total
  \/ variant = "benchmark" /\ success /\ tempDir # w

\* add(_NszFinished) for worker w; otherwise the result is taken for the current
\* job's, whoever sent it.  st is where the _startJobs are.
HandleResult(w, success, st) ==
  LET k == [wk EXCEPT ![w] = "ended"]
  IN \/ /\ ResultLost(w, success)
        /\ wk' = k /\ step' = st
        /\ UNCHANGED <<ui, queueVars, refs, openPorts, deleting>>
     \/ /\ ~closed /\ variant # "benchmark" /\ idx < total
        /\ results' = Append(results, success)
        /\ idx' = idx + 1
        /\ IF NextJobExists
           THEN CleanupAndStartJob(<<starts, idx + 2>>, k, st)
           ELSE Cleanup(k) /\ ui' = "done" /\ step' = st
        /\ UNCHANGED <<total, queueCancelled, starts>>
     \/ /\ ~closed /\ variant = "benchmark"
        /\ success => tempDir # NoRef
        /\ BenchmarkEnds(success, k, st)
        /\ UNCHANGED <<total, queueCancelled, starts>>

\* A result reaches _onNszFinished, after the message that resolves the spawn.
ResultArrives(w) ==
  /\ wk[w] \in {"succeeded", "failed"}
  /\ w \in openPorts
  /\ step[w] = "returned"
  /\ HandleResult(w, wk[w] = "succeeded", step)
  /\ UNCHANGED <<variant, closed, disk, overtaken, processVars>>

\* Mutant of SpawnFails: the catch reports nothing.
SpawnFailsUntold(w) ==
  /\ MayFail
  /\ wk[w] = "starting"
  /\ wk' = [wk EXCEPT ![w] = "ended"]
  /\ step' = [step EXCEPT ![w] = "threw"]
  /\ UNCHANGED <<variant, ui, queueVars, refs, closed, openPorts, disk, deleting,
                 overtaken, processVars>>

\* await Isolate.spawn() throws; the catch reports a failed worker.
SpawnFails(w) ==
  /\ MayFail
  /\ wk[w] = "starting"
  /\ HandleResult(w, FALSE, [step EXCEPT ![w] = "threw"])
  /\ UNCHANGED <<variant, closed, disk, overtaken, processVars>>

\* _onProgressUpdated shows progress without a look at the state it replaces.  The
\* benchmark changes its labels only.
ProgressArrives(w) ==
  /\ ~closed /\ variant # "benchmark"
  /\ wk[w] = "up"
  /\ w \in openPorts
  /\ step[w] = "returned"
  /\ ui' = "running"
  /\ UNCHANGED <<variant, queueVars, refs, closed, step, openPorts, disk,
                 deleting, wk, overtaken, processVars>>

-----------------------------------------------------------------------------
IsolateUp(w) ==
  /\ wk[w] = "starting"
  /\ wk' = [wk EXCEPT ![w] = "up"]
  /\ UNCHANGED <<variant, ui, queueVars, refs, closed, step, openPorts, disk,
                 deleting, overtaken, processVars>>

\* _createTempDir creates the scratch directory again if it is gone.
WorkerCreatesTempDir(w) ==
  /\ variant # "unmerge"
  /\ wk[w] = "up"
  /\ disk[w] \notin OnDisk
  /\ disk' = [disk EXCEPT ![w] = "live"]
  /\ UNCHANGED <<variant, ui, queueVars, refs, closed, step, openPorts, deleting,
                 wk, overtaken, processVars>>

\* runNsz ends; it removed its own temp dir, not the scratch directory.  A result
\* sent to a closed port is dropped.
WorkerSend(w, success) ==
  /\ wk[w] = "up"
  /\ wk' = [wk EXCEPT ![w] = IF w \notin openPorts THEN "ended"
                             ELSE IF success THEN "succeeded" ELSE "failed"]
  /\ UNCHANGED <<variant, ui, queueVars, refs, closed, step, openPorts, disk,
                 deleting, overtaken, processVars>>

\* The isolate dies of an error that no try of runNsz sees (NszPipeline has one:
\* MissingTicketSurfaces).  Isolate.spawn was given no onExit and no onError, so
\* nobody is told; the unmerger leaves no future unawaited.
WorkerDies(w) ==
  /\ MayFail
  /\ variant # "unmerge"
  /\ wk[w] = "up"
  /\ wk' = [wk EXCEPT ![w] = "died"]
  /\ UNCHANGED <<variant, ui, queueVars, refs, closed, step, openPorts, disk,
                 deleting, overtaken, processVars>>

-----------------------------------------------------------------------------
\* deleteScratchDir(w) returns: a directory that is there is deleted, or the
\* deletion is refused (an isolate that compresses on, an open handle) and the
\* error swallowed.
DeletionEnds(w) ==
  /\ w \in deleting
  /\ deleting' = deleting \ {w}
  /\ \E after \in IF disk[w] \in OnDisk THEN {"deleted", "left"} ELSE {disk[w]} :
       disk' = [disk EXCEPT ![w] = after]
  /\ UNCHANGED <<variant, ui, queueVars, refs, closed, step, openPorts, wk,
                 overtaken, processVars>>

\* Mutant of Listed: a directory whose worker did not end is taken for in use.
ListedUnlessUsed == {w \in Workers : disk[w] \in OnDisk /\ wk[w] # "up"}

\* What list() finds: the scratch directories on disk, whoever made them.
Listed == {w \in Workers : disk[w] \in OnDisk}

\* A scratch directory of an earlier process.
Leftover(w) == w \in Listed /\ w[1] <= before

\* The process dies, its isolates with it, and main() of the next one starts
\* purgeScratchDirs without awaiting it.  Only the disk survives.
Restart ==
  /\ session < MaxRestarts
  /\ session' = session + 1
  /\ before' = starts
  /\ ui' = "idle"
  /\ total' = 0 /\ idx' = 0 /\ results' = <<>>
  /\ queueCancelled' = FALSE /\ closed' = FALSE /\ overtaken' = FALSE
  /\ isolate' = NoRef /\ port' = NoRef /\ tempDir' = NoRef
  /\ step' = [w \in Workers |-> "none"]
  /\ openPorts' = {}
  /\ wk' = [w \in Workers |-> "none"]
  /\ deleting' = {}
  /\ purging' = Listed
  /\ UNCHANGED <<variant, starts, disk>>

\* The purge of this launch comes to directory w: one it found at first, or one
\* made since, as the listing is lazy.  A directory that is in use is deleted all
\* the same (POSIX) or cannot be deleted (Windows); the loop goes on with the next.
\* Those of an earlier process are in use no more.
PurgeVisits(w) ==
  /\ purging # {}
  /\ w \in purging \cup Listed
  /\ \E gone \in BOOLEAN :
       /\ gone \/ ~Leftover(w)
       /\ disk' = IF gone THEN [disk EXCEPT ![w] = "deleted"] ELSE disk
       /\ purging' = purging \ {w}
  /\ UNCHANGED <<variant, ui, queueVars, refs, closed, step, openPorts, deleting,
                 wk, overtaken, session, before>>

\* clearCaches, whatever runs and as often as the user likes, deletes w.
ClearCacheVisits(w) ==
  /\ starts <= MaxClearStarts
  /\ w \in Listed
  /\ disk' = [disk EXCEPT ![w] = "deleted"]
  /\ UNCHANGED <<variant, ui, queueVars, refs, closed, step, openPorts, deleting,
                 wk, overtaken, processVars>>

Next ==
  \/ \E n \in 1..MaxLen : StartNsz(n)
  \/ CancelNsz
  \/ Close
  \/ Restart
  \/ \E w \in Workers :
       \/ ScratchReady(w)
       \/ ScratchFails(w)
       \/ SpawnResolves(w)
       \/ SpawnFails(w)
       \/ ResultArrives(w)
       \/ ProgressArrives(w)
       \/ IsolateUp(w)
       \/ WorkerCreatesTempDir(w)
       \/ WorkerDies(w)
       \/ DeletionEnds(w)
       \/ PurgeVisits(w)
       \/ ClearCacheVisits(w)
       \/ \E success \in BOOLEAN : WorkerSend(w, success)

\* Awaits return, isolates start, workers end (their inputs are finite files) or
\* die, the event loop delivers what was sent, and a purge goes on.
Fairness ==
  \A w \in Workers :
    /\ WF_vars(ScratchReady(w))
    /\ WF_vars(IsolateUp(w))
    /\ WF_vars(SpawnResolves(w))
    /\ WF_vars(\E success \in BOOLEAN : WorkerSend(w, success))
    /\ WF_vars(ResultArrives(w))
    /\ WF_vars(w \in purging /\ PurgeVisits(w))

Spec == Init /\ [][Next]_vars
FairSpec == Spec /\ Fairness

-----------------------------------------------------------------------------
Refs == Workers \cup {NoRef}

\* Every variable holds a value of its type.
TypeOK ==
  /\ variant \in Variants
  /\ ui \in {"idle", "running", "done"}
  /\ total \in 0..MaxLen /\ idx \in 0..total
  /\ results \in Seq(BOOLEAN) /\ Len(results) = idx
  /\ queueCancelled \in BOOLEAN /\ closed \in BOOLEAN /\ overtaken \in BOOLEAN
  /\ isolate \in Refs /\ port \in Refs /\ tempDir \in Refs
  /\ starts \in 0..MaxStarts
  /\ step \in [Workers -> Steps]
  /\ openPorts \subseteq Workers
  /\ disk \in [Workers -> DiskStates] /\ deleting \subseteq Workers
  /\ wk \in [Workers -> WorkerStates]
  /\ session \in 0..MaxRestarts /\ before \in 0..starts
  /\ purging \subseteq Workers

Alive(w) == wk[w] \in {"starting", "up"}

\* Unless a cancel overtook an await, no two workers run at the same time, and
\* none runs for a queue that is done.
OneWorkerAtATime ==
  ~overtaken =>
    /\ \A v, w \in Workers : Alive(v) /\ Alive(w) => v = w
    /\ ui = "done" => \A w \in Workers : ~Alive(w) /\ ~Awaiting(w)

\* Unless a cancel overtook an await, each scratch directory this process has on
\* disk is the one _tempDirPath names, which the next _cleanup deletes, or is being
\* deleted, or its deletion was tried and refused ("left"): no run, cancelled,
\* failed, died, closed or purged under its worker, forgets gigabytes, but earlier
\* benchmarks: one that succeeds keeps its directory.
ScratchOwned ==
  ~overtaken =>
    \A w \in Workers :
      disk[w] = "live" =>
        \/ w = tempDir \/ w \in deleting \/ Leftover(w)
        \/ variant = "benchmark" /\ w[1] < starts

\* "purged on next launch": what a killed process left on disk is deleted in the
\* end, whether it was in use, nobody referred to it any more or its deletion was
\* refused, whatever queues run meanwhile and whichever directories the purge has
\* to skip.
LeftoversPurged == <>[](\A w \in Workers : ~Leftover(w))

\* Worker w can still change something: it is awaited, it runs, or its result is
\* on its way to an open port.
Pending(w) ==
  Alive(w) \/ Awaiting(w) \/ (wk[w] \in {"succeeded", "failed"} /\ w \in openPorts)

\* Nothing is in progress, no deletion either.
AtRest == deleting = {} /\ \A w \in Workers : ~Pending(w)

\* "reliably deleted on cancel" (nsz_bloc.dart:156): once a cancelled queue is done
\* and nothing of it is in progress any more, no scratch directory is left whose
\* deletion was not refused.  Refuted by a cancel during the await on
\* Isolate.spawn: the worker makes the directory again, behind a closed port.
DeletedOnCancel ==
  ui = "done" /\ queueCancelled /\ AtRest => \A w \in Workers : disk[w] # "live"

\* The bloc keeps no promise any more: it is closed, or a cancel overtook an await.
Abandoned == closed \/ overtaken

\* The refinement mapping.
ListPhase == IF Abandoned THEN "disposed" ELSE ui
ListTotal == IF Abandoned THEN 0 ELSE total
ListOutcomes == IF Abandoned THEN <<>> ELSE results
ListStopped == queueCancelled /\ ~Abandoned

Queue == INSTANCE JobQueue WITH
  phase <- ListPhase, total <- ListTotal, outcomes <- ListOutcomes,
  stopped <- ListStopped, session <- session

\* Until it is abandoned the queue, seen from the screen, is the abstract one: no
\* late result or progress message of a killed worker adds an outcome, reopens a
\* list that is done or ends one that is not, across a relaunch too.
ImplementsJobQueue == Queue!Spec

\* The job whose turn it is was lost without a word: its worker died, or the await
\* on createScratchDir threw.  Only a cancel leads out of it.
Hung ==
  \E w \in Workers :
    /\ ui = "running" /\ w = <<starts, idx + 1>>
    /\ wk[w] = "died" \/ (step[w] = "threw" /\ wk[w] = "none")

\* Until it is abandoned it ends, or hangs on a job that was lost: on nothing else.
QueueEnds == Queue!Progress \/ <>[]Hung

-----------------------------------------------------------------------------
Started(w) == step[w] # "none" \/ wk[w] # "none"

\* Jobs start in the order of the list, directories belong to jobs that started,
\* and the benchmark has one job.
HistoryOK ==
  /\ \A w \in Workers :
       Started(w) =>
         total # 0 /\ (w[1] < starts \/ (w[1] = starts /\ w[2] <= idx + 1))
  /\ \A w \in Workers : disk[w] \in OnDisk => w[1] <= starts
  /\ tempDir[1] <= starts
  /\ variant = "benchmark" => total <= 1

\* As long as no cancel overtook an await, only the current job of a queue that
\* runs is pending, and the fields hold what its _startJob has set so far.
CurrentOK ==
  ~overtaken =>
    \A w \in Workers :
      Pending(w) =>
        /\ w = <<starts, idx + 1>> /\ idx < total
        /\ ui = "running" /\ ~queueCancelled /\ ~closed
        /\ \/ /\ step[w] = "scratch" /\ wk[w] = "none"
              /\ variant # "unmerge" /\ (variant = "nsz" => tempDir = NoRef)
              /\ tempDir[1] < starts
           \/ /\ step[w] \in {"spawn", "returned"}
              /\ port = w /\ (variant # "unmerge" => tempDir = w)
              /\ step[w] = "returned" => wk[w] # "starting" /\ isolate = w

\* The inductive invariant.
ScratchInv ==
  /\ TypeOK
  /\ HistoryOK
  /\ CurrentOK
  /\ ScratchOwned
=============================================================================
