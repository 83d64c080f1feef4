----------------------------- MODULE BatchPool ------------------------------
(***************************************************************************)
(* BatchBloc: a list of 3DS images decrypted or encrypted by a pool of at  *)
(* most _parallelism worker isolates (CryptoWorker).  Two maps keyed by    *)
(* path track the workers: a worker's port is in _activePorts from the     *)
(* moment it is asked for, its isolate in _activeIsolates only after the   *)
(* await on Isolate.spawn; a cancel, a result or a new batch may come in   *)
(* between.                                                                *)
(*                                                                         *)
(* One turn of the bloc's event loop is one action.  A worker is named     *)
(* <<b, p>>: the one the b-th batch started for path p.  The list's order  *)
(* is abstracted: pending items may be started in any order.               *)
(***************************************************************************)
EXTENDS Naturals, FiniteSets

CONSTANTS
  Paths,          \* the files a list may hold
  MaxBatches,     \* bound: how many batches the user starts
  Parallelisms,   \* the values of the parallelism setting
  MayCancel,      \* TRUE: the user may cancel
  SpawnMayFail,   \* TRUE: Isolate.spawn may fail
  MayClose        \* TRUE: the bloc may be closed

ASSUME ConstAssumption ==
  /\ IsFiniteSet(Paths) /\ Paths # {}
  /\ MaxBatches \in Nat
  /\ Parallelisms \subseteq Nat \ {0}
  /\ MayCancel \in BOOLEAN
  /\ SpawnMayFail \in BOOLEAN
  /\ MayClose \in BOOLEAN

Workers == (1..MaxBatches) \X Paths

\* The absent entry of a map.
NoRef == <<0, "none">>

VARIABLES
  \* the bloc
  ui,           \* the state last emitted: "idle", "running" or "finished"
  status,       \* the list: the status of each path's item, or "absent"
  isRunning,    \* _isRunning
  parallelism,  \* _parallelism
  isolates,     \* _activeIsolates
  ports,        \* _activePorts
  batch,        \* how many batches were started
  closed,       \* close() was called
  by,           \* history: the worker whose result set an item's status
  serial,       \* history: every batch ran one worker at a time, no spawn failed
  \* the runtime and the isolates
  openPorts,    \* ports that deliver
  spawn,        \* the await on Isolate.spawn: "none", "pending", "resolved"
  wk            \* where each isolate is

blocVars == <<ui, status, isRunning, parallelism, isolates, ports, batch, closed,
              by, serial>>
vars == <<blocVars, openPorts, spawn, wk>>

Statuses == {"absent", "pending", "running", "success", "failure"}
WorkerStates ==
  {"none", "starting", "failed", "up", "succeeded", "errored", "ended"}

-----------------------------------------------------------------------------
Init ==
  /\ ui = "idle" /\ isRunning = FALSE
  /\ status = [p \in Paths |-> "absent"]
  /\ parallelism = 1
  /\ isolates = [p \in Paths |-> NoRef]
  /\ ports = [p \in Paths |-> NoRef]
  /\ batch = 0 /\ closed = FALSE
  /\ by = [p \in Paths |-> NoRef]
  /\ serial = TRUE
  /\ openPorts = {}
  /\ spawn = [w \in Workers |-> "none"]
  /\ wk = [w \in Workers |-> "none"]

Present == {p \in Paths : status[p] # "absent"}

\* A path already listed keeps its item.
KeptOrNew(S, p) ==
  IF p \in S /\ status[p] = "absent" THEN "pending" ELSE status[p]

\* _onAddFiles
AddFiles(S) ==
  /\ ~closed
  /\ ~isRunning
  /\ status' = [p \in Paths |-> KeptOrNew(S, p)]
  /\ ui' = "idle"
  /\ UNCHANGED <<isRunning, parallelism, isolates, ports, batch, closed,
                 by, serial, openPorts, spawn, wk>>

\* _onRemoveFile, and _onClearQueue with S = Paths
RemoveFiles(S) ==
  /\ ~closed
  /\ ~isRunning
  /\ status' = [p \in Paths |-> IF p \in S THEN "absent" ELSE status[p]]
  /\ by' = [p \in Paths |-> IF p \in S THEN NoRef ELSE by[p]]
  /\ ui' = "idle"
  /\ UNCHANGED <<isRunning, parallelism, isolates, ports, batch, closed, serial,
                 openPorts, spawn, wk>>

-----------------------------------------------------------------------------
\* _cleanupWorker for the paths of C (_cleanupAll when C = Paths): kill the
\* registered isolates, close the registered ports, forget both.
\* Mutant of OpenWithout: a cancelled port keeps delivering.
OpenStill(C) == openPorts

OpenWithout(C) == openPorts \ {ports[p] : p \in C}

\* What a closed port held is dropped.
KilledIn(C, k) ==
  [w \in Workers |->
     IF \/ k[w] = "up" /\ \E p \in C : isolates[p] = w
        \/ k[w] \in {"succeeded", "errored"} /\ w \notin OpenWithout(C)
     THEN "ended" ELSE k[w]]
IsolatesWithout(C) == [p \in Paths |-> IF p \in C THEN NoRef ELSE isolates[p]]
PortsWithout(C) == [p \in Paths |-> IF p \in C THEN NoRef ELSE ports[p]]

Registered(P) == {p \in Paths : P[p] # NoRef}

\* The sets of pending items the for loop may start: it stops as soon as
\* _activePorts is full or no pending item is left.
\* Mutant of Startable: the limit is checked after the start.
StartableLate(pending, held, limit) ==
  {S \in SUBSET pending :
     /\ S = {} \/ \E p \in S : Cardinality(held \cup (S \ {p})) <= limit
     /\ S = pending \/ Cardinality(held \cup S) > limit}

Startable(pending, held, limit) ==
  {S \in SUBSET pending :
     /\ S = {} \/ \E p \in S : Cardinality(held \cup (S \ {p})) < limit
     /\ S = pending \/ Cardinality(held \cup S) >= limit}

\* _activeIsolates.isEmpty
NothingActive(I) == Registered(I) = {}

\* Mutant of NewPorts: a port that is still registered for the path is kept.
NewPortsIfAbsent(S, C) ==
  [p \in Paths |-> IF p \in S /\ PortsWithout(C)[p] = NoRef
                   THEN <<batch', p>> ELSE PortsWithout(C)[p]]

\* _activePorts[path] = port for every path of S
NewPorts(S, C) ==
  [p \in Paths |-> IF p \in S THEN <<batch', p>> ELSE PortsWithout(C)[p]]

\* _spawnWorker for every path of S, up to the await.
SpawnWorkers(S, C, k) ==
  LET new == {<<batch', p>> : p \in S}
  IN /\ ports' = NewPorts(S, C)
     /\ openPorts' = OpenWithout(C) \cup new
     /\ spawn' = [w \in Workers |-> IF w \in new THEN "pending" ELSE spawn[w]]
     /\ wk' = [w \in Workers |-> IF w \in new THEN "starting"
                                 ELSE KilledIn(C, k)[w]]

\* _startNextWorkers, after the workers of the paths of C were cleaned up; st
\* is the list and k the workers the caller left.
StartNextWorkers(C, st, k) ==
  LET pending == {p \in Paths : st[p] = "pending"}
  IN /\ isolates' = IsolatesWithout(C)
     /\ IF pending = {} /\ NothingActive(IsolatesWithout(C))
        THEN /\ isRunning' = FALSE /\ ui' = "finished"
             /\ status' = st
             /\ SpawnWorkers({}, C, k)
        ELSE \E S \in Startable(pending, Registered(PortsWithout(C)),
                                parallelism') :
               /\ isRunning' = TRUE /\ ui' = "running"
               /\ status' = [p \in Paths |-> IF p \in S THEN "running"
                                             ELSE st[p]]
               /\ SpawnWorkers(S, C, k)

\* _onStartBatch
StartBatch(limit) ==
  /\ ~closed
  /\ ~isRunning
  /\ Present # {}
  /\ batch < MaxBatches
  /\ batch' = batch + 1
  /\ parallelism' = limit
  /\ serial' = (serial /\ limit = 1)
  /\ by' = [p \in Paths |-> NoRef]
  /\ StartNextWorkers({}, [p \in Paths |-> IF p \in Present THEN "pending"
                                           ELSE "absent"], wk)
  /\ UNCHANGED closed

\* _onCancelBatch
CancelBatch ==
  /\ ~closed
  /\ MayCancel
  /\ isRunning
  /\ isRunning' = FALSE /\ ui' = "idle"
  /\ isolates' = IsolatesWithout(Paths)
  /\ ports' = PortsWithout(Paths)
  /\ openPorts' = OpenWithout(Paths)
  /\ wk' = KilledIn(Paths, wk)
  /\ status' = [p \in Paths |-> IF status[p] = "running" THEN "failure"
                                ELSE status[p]]
  /\ UNCHANGED <<parallelism, batch, closed, by, serial, spawn>>

\* Mutant of UpdatesList: the item is looked up among the pending ones.
UpdatesPendingOnly(p) == status[p] = "pending"

\* index != -1
UpdatesList(p) == status[p] # "absent"

\* The history is kept for as long as it says something.
Settled(p, w) ==
  IF serial' THEN [by EXCEPT ![p] = w] ELSE [q \in Paths |-> NoRef]

\* add(_BatchWorkerFinished) for worker w, k being the workers as the caller left
\* them: a closed bloc refuses the event, else _onWorkerFinished handles it.
WorkerFinished(w, success, k) ==
  LET p == w[2]
  IN \/ /\ closed
        /\ wk' = k
        /\ UNCHANGED <<ui, status, isRunning, parallelism, isolates, ports, batch,
                       by, openPorts, spawn>>
     \/ /\ ~closed
        /\ isRunning /\ UpdatesList(p)
        /\ UNCHANGED <<parallelism, batch>>
        /\ by' = Settled(p, w)
        /\ StartNextWorkers({p}, [status EXCEPT ![p] = IF success
                                    THEN "success" ELSE "failure"], k)
     \/ /\ ~closed
        /\ ~(isRunning /\ UpdatesList(p))
        /\ isolates' = IsolatesWithout({p})
        /\ ports' = PortsWithout({p})
        /\ openPorts' = OpenWithout({p})
        /\ wk' = KilledIn({p}, k)
        /\ UNCHANGED <<ui, status, isRunning, parallelism, batch, by, spawn>>

\* Its result is on the way.
Sent(w) == wk[w] \in {"succeeded", "errored"}

\* A result reaches its listener.  The isolate sent it after the message that
\* resolves the await, so the await comes first.
ResultArrives(w) ==
  /\ Sent(w)
  /\ w \in openPorts
  /\ spawn[w] = "resolved"
  /\ UNCHANGED <<serial, closed>>
  /\ WorkerFinished(w, wk[w] = "succeeded", [wk EXCEPT ![w] = "ended"])

\* The await on Isolate.spawn throws; the catch reports a failed worker.
SpawnFails(w) ==
  /\ SpawnMayFail
  /\ wk[w] = "starting"
  /\ serial' = FALSE
  /\ WorkerFinished(w, FALSE, [wk EXCEPT ![w] = "failed"])
  /\ UNCHANGED closed

\* The await on Isolate.spawn returns: _activeIsolates[path] = isolate.
SpawnResolves(w) ==
  /\ spawn[w] = "pending"
  /\ wk[w] \in {"up", "succeeded", "errored", "ended"}
  /\ spawn' = [spawn EXCEPT ![w] = "resolved"]
  /\ isolates' = [isolates EXCEPT ![w[2]] = w]
  /\ UNCHANGED <<ui, status, isRunning, parallelism, ports, batch, closed, by,
                 serial, openPorts, wk>>

\* close()
Close ==
  /\ MayClose
  /\ ~closed
  /\ closed' = TRUE
  /\ isolates' = IsolatesWithout(Paths)
  /\ ports' = PortsWithout(Paths)
  /\ openPorts' = OpenWithout(Paths)
  /\ wk' = KilledIn(Paths, wk)
  /\ UNCHANGED <<ui, status, isRunning, parallelism, batch, by, serial, spawn>>

-----------------------------------------------------------------------------
\* The isolate starts to run.
IsolateUp(w) ==
  /\ wk[w] = "starting"
  /\ wk' = [wk EXCEPT ![w] = "up"]
  /\ UNCHANGED <<blocVars, openPorts, spawn>>

\* CryptoWorker.runCrypto ends and sends its result; what is sent to a closed
\* port is dropped.
WorkerSend(w, success) ==
  /\ wk[w] = "up"
  /\ wk' = [wk EXCEPT ![w] = IF w \notin openPorts THEN "ended"
                             ELSE IF success THEN "succeeded" ELSE "errored"]
  /\ UNCHANGED <<blocVars, openPorts, spawn>>

Next ==
  \/ \E S \in SUBSET Paths \ {{}} : AddFiles(S)
  \/ \E S \in {{p} : p \in Paths} \cup {Paths} : RemoveFiles(S)
  \/ \E limit \in Parallelisms : StartBatch(limit)
  \/ CancelBatch
  \/ Close
  \/ \E w \in Workers :
       \/ ResultArrives(w)
       \/ SpawnFails(w)
       \/ SpawnResolves(w)
       \/ IsolateUp(w)
       \/ \E success \in BOOLEAN : WorkerSend(w, success)

\* Spawns resolve, workers end (their inputs are finite files), and the event
\* loop delivers what was sent.  The user owes nothing.
Fairness ==
  \A w \in Workers :
    /\ WF_vars(IsolateUp(w))
    /\ WF_vars(SpawnResolves(w))
    /\ WF_vars(\E success \in BOOLEAN : WorkerSend(w, success))
    /\ WF_vars(ResultArrives(w))

Spec == Init /\ [][Next]_vars
FairSpec == Spec /\ Fairness

-----------------------------------------------------------------------------
\* The entry of a map under path p: nothing, or a worker of that very path.
RefsFor(p) == {NoRef} \cup {w \in Workers : w[2] = p}

\* Every variable holds a value of its type; an item a result settled is a
\* success or a failure, never put back to pending by a second AddFiles.
TypeOK ==
  /\ ui \in {"idle", "running", "finished"}
  /\ isRunning \in BOOLEAN /\ (isRunning <=> ui = "running")
  /\ status \in [Paths -> Statuses]
  /\ parallelism \in Parallelisms \cup {1}
  /\ DOMAIN isolates = Paths /\ \A p \in Paths : isolates[p] \in RefsFor(p)
  /\ DOMAIN ports = Paths /\ \A p \in Paths : ports[p] \in RefsFor(p)
  /\ batch \in 0..MaxBatches /\ (isRunning => batch # 0)
  /\ serial \in BOOLEAN /\ closed \in BOOLEAN
  /\ DOMAIN by = Paths
  /\ \A p \in Paths :
       /\ by[p] \in RefsFor(p)
       /\ by[p] # NoRef => status[p] \in {"success", "failure"}
  /\ openPorts \subseteq Workers
  /\ spawn \in [Workers -> {"none", "pending", "resolved"}]
  /\ wk \in [Workers -> WorkerStates]

RunningItems == {p \in Paths : status[p] = "running"}

\* While a batch runs in an open bloc, an item shown as running has a worker of
\* this very batch that is alive and whose result will be heard: no cancel, stale
\* result or failed spawn of an earlier batch leaves the item without its worker.
NoOrphanItem ==
  isRunning /\ ~closed =>
    \A p \in RunningItems :
      /\ ports[p] = <<batch, p>>
      /\ <<batch, p>> \in openPorts
      /\ wk[<<batch, p>>] \in {"starting", "up"} \/ Sent(<<batch, p>>)

\* _activePorts never lets a batch run more items than the setting it started
\* with, whatever ports an earlier batch left in the map.
RunningWithinParallelism ==
  isRunning => Cardinality(RunningItems) <= parallelism

\* The summary shown at BatchFinished counts successes and failures: no item is
\* still running or waiting.
FinishedMeansAllDone ==
  ui = "finished" =>
    \A p \in Present : status[p] \in {"success", "failure"}

\* As long as every batch ran one worker at a time and no spawn failed, what
\* settles an item is the result of the worker this batch started for it, never a
\* late one of a cancelled batch.
ResultFromOwnBatch ==
  serial => \A p \in Paths : by[p] # NoRef => by[p] = <<batch, p>>

\* The first batch ends, unless the bloc is closed.  (A later one may not: an
\* isolate registered after its batch was cancelled stays in _activeIsolates.)
FirstBatchEnds ==
  (isRunning /\ batch = 1) ~> (closed \/ ~(isRunning /\ batch = 1))

\* In a history of single workers, an open port is that of the one worker of the
\* batch that runs.
SerialOK ==
  serial /\ ~closed =>
    /\ parallelism = 1
    /\ \A w \in openPorts : isRunning /\ w[1] = batch /\ ports[w[2]] = w
    /\ \A p \in Paths : ports[p] # NoRef => ports[p] \in openPorts
    /\ \A p, q \in Paths : ports[p] # NoRef /\ ports[q] # NoRef => p = q

\* The inductive invariant.
PoolInv ==
  /\ TypeOK
  /\ NoOrphanItem
  /\ RunningWithinParallelism
  /\ SerialOK
  /\ ResultFromOwnBatch
=============================================================================
