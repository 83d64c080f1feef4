-------------------------- MODULE ScratchQueueProofs -------------------------
(***************************************************************************)
(* Proofs that ScratchQueue keeps its inductive invariant, and what        *)
(* follows from it for any number of queues, jobs and restarts.            *)
(***************************************************************************)
EXTENDS ScratchQueue, TLAPS

\* A worker is named by its Start and its place in the list.
LEMMA WorkerNames ==
  /\ \A w \in Workers : w[1] \in 1..MaxStarts /\ w[2] \in 1..MaxLen /\ w = <<w[1], w[2]>>
  /\ \A s \in 1..MaxStarts, i \in 1..MaxLen :
       <<s, i>> \in Workers /\ <<s, i>>[1] = s /\ <<s, i>>[2] = i
  /\ NoRef \notin Workers /\ NoRef[1] = 0
  BY ConstAssumption DEF Workers, NoRef, ConstAssumption

\* What the parts of a clean-up leave, worker by worker.
LEMMA CleanupPointwise ==
  ASSUME TypeOK, NEW k \in [Workers -> WorkerStates]
  PROVE  /\ Killed(k) \in [Workers -> WorkerStates]
         /\ \A w \in Workers :
              Killed(k)[w] = IF w = isolate /\ k[w] = "up" THEN "ended" ELSE k[w]
         /\ \A w \in Workers : w \in PortsLeft <=> w \in openPorts /\ w # port
         /\ PortsLeft \subseteq openPorts
         /\ ToDelete \subseteq Workers
         /\ \A w \in Workers : w \in ToDelete <=> w \in deleting \/ w = tempDir
<1>1. /\ isolate \in Workers \/ isolate = NoRef
      /\ tempDir \in Workers \/ tempDir = NoRef
      /\ deleting \subseteq Workers
      /\ NoRef \notin Workers
  BY WorkerNames DEF TypeOK, Refs
<1>2. Killed(k) \in [Workers -> WorkerStates]
  BY <1>1 DEF Killed, WorkerStates
<1>3. \A w \in Workers :
        Killed(k)[w] = IF w = isolate /\ k[w] = "up" THEN "ended" ELSE k[w]
  BY <1>1 DEF Killed
<1>4. /\ \A w \in Workers : w \in PortsLeft <=> w \in openPorts /\ w # port
      /\ PortsLeft \subseteq openPorts
  BY DEF PortsLeft
<1>5. ToDelete \subseteq Workers
  BY <1>1 DEF ToDelete
<1>6. \A w \in Workers : w \in ToDelete <=> w \in deleting \/ w = tempDir
  BY <1>1 DEF ToDelete
<1>7. QED
  BY <1>2, <1>3, <1>4, <1>5, <1>6

\* Nobody is pending when the _startJobs are at st, the isolates at k and the
\* ports in op are open.
Idle(st, k, op) ==
  \A w \in Workers :
    /\ st[w] \notin {"scratch", "spawn"}
    /\ k[w] \notin {"starting", "up"}
    /\ k[w] \in {"succeeded", "failed"} => w \notin op

\* No worker that never started is started by st and k.
OnlyStarted(st, k) ==
  \A w \in Workers : st[w] # "none" \/ k[w] # "none" => Started(w)

\* The values the queue itself may take.
QueueTyped ==
  /\ ui \in {"idle", "running", "done"}
  /\ total \in 0..MaxLen /\ idx \in 0..total
  /\ results \in Seq(BOOLEAN) /\ Len(results) = idx
  /\ queueCancelled \in BOOLEAN /\ closed \in BOOLEAN /\ overtaken \in BOOLEAN

\* A bloc none of whose workers is pending any more keeps the invariant.
LEMMA QuietKeeps ==
  ASSUME ScratchInv, QueueTyped',
         step' \in [Workers -> Steps], wk' \in [Workers -> WorkerStates],
         OnlyStarted(step', wk'), openPorts' \subseteq openPorts,
         isolate' \in Refs, port' \in Refs,
         \/ tempDir' = tempDir /\ deleting' = deleting
         \/ tempDir' = NoRef /\ deleting' = ToDelete,
         ~overtaken' => ~overtaken /\ Idle(step', wk', openPorts'),
         total' = total, idx' \in idx..total,
         UNCHANGED <<variant, starts, disk, processVars>>
  PROVE  ScratchInv'
<1>0. TypeOK /\ HistoryOK /\ ScratchOwned /\ wk \in [Workers -> WorkerStates]
  BY DEF ScratchInv, TypeOK
<1>1. /\ deleting' \subseteq Workers
      /\ tempDir' \in Refs
      /\ tempDir'[1] <= starts
      /\ \A w \in Workers :
           w = tempDir \/ w \in deleting => w = tempDir' \/ w \in deleting'
  <2>1. CASE tempDir' = tempDir /\ deleting' = deleting
    BY <1>0, <2>1 DEF TypeOK, HistoryOK
  <2>2. CASE tempDir' = NoRef /\ deleting' = ToDelete
    <3>1. /\ ToDelete \subseteq Workers
          /\ \A w \in Workers : w \in ToDelete <=> w \in deleting \/ w = tempDir
      BY <1>0, CleanupPointwise
    <3>4. starts \in Nat
      BY <1>0, ConstAssumption DEF TypeOK, ConstAssumption
    <3>2. NoRef[1] = 0 /\ NoRef \in Refs
      BY WorkerNames DEF Refs
    <3>3. QED
      BY <2>2, <3>1, <3>2, <3>4
  <2>3. QED
    BY <2>1, <2>2
<1>2. TypeOK'
  BY <1>0, <1>1 DEF TypeOK, QueueTyped, processVars, Refs
<1>3. HistoryOK'
  <2>1. \A w \in Workers : Started(w)' => Started(w)
    BY DEF Started, OnlyStarted
  <2>2. QED
    BY <1>0, <1>1, <2>1, WorkerNames DEF HistoryOK, TypeOK
<1>4. CurrentOK'
  BY DEF CurrentOK, Pending, Alive, Awaiting, Idle
<1>5. ScratchOwned'
  BY <1>0, <1>1 DEF ScratchOwned, Leftover, Listed, processVars
<1>6. QED
  BY <1>2, <1>3, <1>4, <1>5 DEF ScratchInv

\* _startJob for the next job of the list, or the first of a new one, with its
\* clean-up.
LEMMA StartJobKeeps ==
  ASSUME ScratchInv, QueueTyped', ui' = "running", ~closed', overtaken' = overtaken,
         NEW w \in Workers, NEW k \in [Workers -> WorkerStates],
         NEW st \in [Workers -> Steps],
         CleanupAndStartJob(w, k, st), OnlyStarted(st, k),
         ~overtaken => Idle(st, k, openPorts),
         w = <<starts', idx' + 1>>, ~Started(w),
         idx' < total', ~queueCancelled', starts' \in 1..MaxStarts,
         \/ starts' = starts /\ idx' = idx + 1 /\ variant # "benchmark"
         \/ starts' = starts + 1,
         variant = "benchmark" => total' = 1,
         UNCHANGED <<variant, disk, processVars>>
  PROVE  ScratchInv'
<1>a. TypeOK /\ HistoryOK /\ ScratchOwned
  BY DEF ScratchInv
<1>b. st[w] = "none" /\ k[w] = "none"
  BY DEF OnlyStarted
<1>c. tempDir[1] \in Nat /\ tempDir[1] <= starts
  BY <1>a, WorkerNames DEF TypeOK, HistoryOK, Refs
<1>d. /\ starts \in Nat /\ starts' >= starts /\ idx \in Nat /\ total \in Nat
      /\ idx' \in Nat /\ total' \in Nat /\ total' # 0
  BY <1>a, ConstAssumption DEF TypeOK, QueueTyped, ConstAssumption
<1>e. w[1] = starts' /\ w[2] = idx' + 1
  OBVIOUS
<1>0. /\ TypeOK /\ HistoryOK /\ ScratchOwned
      /\ st[w] = "none" /\ k[w] = "none"
      /\ tempDir[1] \in Nat /\ tempDir[1] <= starts
      /\ starts \in Nat /\ starts' >= starts /\ idx \in Nat /\ total \in Nat
      /\ idx' \in Nat /\ total' \in Nat /\ total' # 0
      /\ w[1] = starts' /\ w[2] = idx' + 1
  BY <1>a, <1>b, <1>c, <1>d, <1>e
\* What the three bodies have in common.
<1>1. /\ step' \in [Workers -> Steps] /\ wk' \in [Workers -> WorkerStates]
      /\ step'[w] \in {"scratch", "spawn"}
      /\ \A v \in Workers : v # w =>
           /\ step'[v] = st[v]
           /\ wk'[v] = k[v] \/ (wk'[v] = "ended" /\ k[v] = "up")
      /\ openPorts' \subseteq Workers
      /\ \A v \in openPorts' : v # w => v \in openPorts
      /\ isolate' \in Refs /\ port' \in Refs /\ tempDir' \in Refs
      /\ deleting' \subseteq Workers
      /\ \A v \in Workers :
           v = tempDir \/ v \in deleting => v = tempDir' \/ v \in deleting'
      /\ tempDir' \in {tempDir, NoRef}
      /\ \/ step'[w] = "scratch" /\ wk'[w] = "none" /\ variant # "unmerge"
            /\ (variant = "nsz" => tempDir' = NoRef)
         \/ step'[w] = "spawn" /\ port' = w /\ variant = "unmerge"
            /\ wk'[w] = "starting"
  <2>1. CASE variant = "nsz" /\ Cleanup(k) /\ step' = [st EXCEPT ![w] = "scratch"]
    <3>1. /\ wk' = Killed(k) /\ openPorts' = PortsLeft /\ deleting' = ToDelete
          /\ isolate' = NoRef /\ port' = NoRef /\ tempDir' = NoRef
      BY <2>1 DEF Cleanup, CleanupIsolate
    <3>2. step' \in [Workers -> Steps] /\ step'[w] = "scratch"
          /\ \A v \in Workers : v # w => step'[v] = st[v]
      BY <2>1 DEF Steps
    <3>3. openPorts \subseteq Workers
      BY <1>0 DEF TypeOK
    <3>4. QED
      BY <1>0, <2>1, <3>1, <3>2, <3>3, CleanupPointwise, WorkerNames DEF Refs
  <2>2. CASE /\ variant = "unmerge"
             /\ OpenPortAndSpawn(w, PortsLeft, Killed(k), st)
             /\ isolate' = NoRef
             /\ UNCHANGED <<tempDir, deleting>>
    <3>1. /\ wk' = [Killed(k) EXCEPT ![w] = "starting"] /\ openPorts' = PortsLeft \cup {w}
          /\ isolate' = NoRef /\ port' = w /\ step' = [st EXCEPT ![w] = "spawn"]
      BY <2>2 DEF OpenPortAndSpawn
    <3>2. step' \in [Workers -> Steps] /\ step'[w] = "spawn"
          /\ \A v \in Workers : v # w => step'[v] = st[v]
      BY <3>1 DEF Steps
    <3>3. wk' \in [Workers -> WorkerStates] /\ wk'[w] = "starting"
          /\ \A v \in Workers : v # w =>
               wk'[v] = k[v] \/ (wk'[v] = "ended" /\ k[v] = "up")
      BY <1>0, <3>1, CleanupPointwise DEF WorkerStates
    <3>4. /\ openPorts \subseteq Workers /\ tempDir \in Refs
          /\ deleting \subseteq Workers
      BY <1>0 DEF TypeOK
    <3>5. QED
      BY <1>0, <2>2, <3>1, <3>2, <3>3, <3>4, CleanupPointwise DEF Refs
  <2>3. CASE /\ variant = "benchmark"
             /\ wk' = k
             /\ step' = [st EXCEPT ![w] = "scratch"]
             /\ UNCHANGED <<refs, openPorts, deleting>>
    <3>1. step' \in [Workers -> Steps] /\ step'[w] = "scratch"
          /\ \A v \in Workers : v # w => step'[v] = st[v]
      BY <2>3 DEF Steps
    <3>2. QED
      BY <1>0, <2>3, <3>1 DEF TypeOK, refs
  <2>4. QED
    BY <2>1, <2>2, <2>3 DEF CleanupAndStartJob
<1>2. TypeOK'
  BY <1>0, <1>1 DEF TypeOK, QueueTyped, processVars, Refs
<1>3. HistoryOK'
  <2>1. \A v \in Workers : Started(v)' => v = w \/ Started(v)
    BY <1>1 DEF Started, OnlyStarted
  <2>2. \A v \in Workers :
          Started(v)' =>
            total' # 0 /\ (v[1] < starts' \/ (v[1] = starts' /\ v[2] <= idx' + 1))
    BY <1>0, <2>1, WorkerNames DEF HistoryOK
  <2>3. \A v \in Workers : disk'[v] \in OnDisk => v[1] <= starts'
    BY <1>0, WorkerNames DEF HistoryOK
  <2>4. tempDir'[1] <= starts'
    BY <1>0, <1>1, WorkerNames
  <2>5. QED
    BY <2>2, <2>3, <2>4, <1>0 DEF HistoryOK
<1>4. CurrentOK'
  <2> SUFFICES ASSUME ~overtaken, NEW v \in Workers, Pending(v)'
               PROVE  v = w
    <3>1. tempDir'[1] < starts' \/ step'[w] # "scratch"
      <4>1. variant \in {"nsz", "unmerge", "benchmark"}
        BY <1>0, ConstAssumption DEF TypeOK, ConstAssumption
      <4>2. \/ tempDir' = tempDir /\ tempDir'[1] <= starts
            \/ tempDir' = NoRef /\ tempDir'[1] = 0
        BY <1>0, <1>1, WorkerNames
      <4>3. CASE variant = "nsz"
        BY <1>0, <1>1, <4>3, WorkerNames
      <4>4. CASE variant = "unmerge"
        BY <1>1, <4>4
      <4>5. CASE variant = "benchmark"
        BY <1>0, <4>2, <4>5
      <4>6. QED
        BY <4>1, <4>3, <4>4, <4>5
    <3>2. QED
      BY <1>0, <1>1, <3>1 DEF CurrentOK
  <2>1. CASE v # w
    BY <1>1, <2>1 DEF Pending, Alive, Awaiting, Idle
  <2>2. QED
    BY <2>1
<1>5. ScratchOwned'
  <2> SUFFICES ASSUME ~overtaken, NEW v \in Workers, disk'[v] = "live"
               PROVE  v = tempDir' \/ v \in deleting' \/ Leftover(v)'
                      \/ (variant = "benchmark" /\ v[1] < starts')
    BY DEF ScratchOwned
  <2>1. v = tempDir \/ v \in deleting => v = tempDir' \/ v \in deleting'
    BY <1>1
  <2>2. QED
    BY <1>0, <2>1, WorkerNames DEF ScratchOwned, Leftover, Listed, processVars
<1>6. QED
  BY <1>2, <1>3, <1>4, <1>5 DEF ScratchInv

\* A result, whoever's it is, ends its worker; what follows is a clean-up, the next
\* job, or nothing at all.
LEMMA HandleResultKeeps ==
  ASSUME ScratchInv, NEW w \in Workers, NEW success \in BOOLEAN,
         NEW st \in [Workers -> Steps], HandleResult(w, success, st),
         OnlyStarted(st, wk), wk[w] # "none",
         ~overtaken =>
           /\ Pending(w) /\ st[w] \notin {"scratch", "spawn"}
           /\ \A v \in Workers : v # w => st[v] = step[v],
         UNCHANGED <<variant, closed, disk, overtaken, processVars>>
  PROVE  ScratchInv'
<1> DEFINE k == [wk EXCEPT ![w] = "ended"]
<1>a. TypeOK /\ HistoryOK /\ CurrentOK /\ QueueTyped
  BY DEF ScratchInv, TypeOK, QueueTyped
<1>b. wk \in [Workers -> WorkerStates] /\ openPorts \subseteq Workers
      /\ isolate \in Refs /\ port \in Refs /\ tempDir \in Refs
  BY <1>a DEF TypeOK
<1>c. k \in [Workers -> WorkerStates]
  BY <1>b DEF WorkerStates
<1>d. OnlyStarted(st, k)
  BY <1>b DEF OnlyStarted
<1>e. ~overtaken => Idle(st, k, openPorts)
  <2> SUFFICES ASSUME ~overtaken, NEW v \in Workers
               PROVE  /\ st[v] \notin {"scratch", "spawn"}
                      /\ k[v] \notin {"starting", "up"}
                      /\ k[v] \in {"succeeded", "failed"} => v \notin openPorts
    BY DEF Idle
  <2>1. CASE v = w
    BY <1>b, <2>1
  <2>2. CASE v # w
    <3>1. ~Pending(v)
      BY <1>a, <2>2 DEF CurrentOK
    <3>2. k[v] = wk[v] /\ st[v] = step[v]
      BY <1>b, <2>2
    <3>3. QED
      BY <3>1, <3>2 DEF Pending, Alive, Awaiting
  <2>3. QED
    BY <2>1, <2>2
<1>f. /\ Killed(k) \in [Workers -> WorkerStates] /\ OnlyStarted(st, Killed(k))
      /\ PortsLeft \subseteq openPorts
      /\ ~overtaken => Idle(st, Killed(k), PortsLeft)
  <2>1. /\ Killed(k) \in [Workers -> WorkerStates] /\ PortsLeft \subseteq openPorts
        /\ \A v \in Workers : Killed(k)[v] = k[v] \/ (Killed(k)[v] = "ended" /\ k[v] = "up")
    BY <1>a, <1>c, CleanupPointwise
  <2>2. OnlyStarted(st, Killed(k))
    BY <1>d, <2>1 DEF OnlyStarted
  <2>3. ~overtaken => Idle(st, Killed(k), PortsLeft)
    BY <1>e, <2>1 DEF Idle
  <2>4. QED
    BY <2>1, <2>2, <2>3
<1>g. /\ starts \in 1..MaxStarts /\ total # 0 /\ total \in 0..MaxLen /\ MaxLen \in Nat
      /\ idx \in 0..total /\ (variant = "benchmark" => total = 1)
  <2>a. total # 0 /\ (w[1] < starts \/ w[1] = starts)
    BY <1>a DEF HistoryOK, Started
  <2>b. w[1] \in 1..MaxStarts /\ MaxStarts \in Nat /\ starts \in Nat
    BY <1>a, WorkerNames, ConstAssumption DEF TypeOK, ConstAssumption
  <2>1. w[1] \in 1..MaxStarts /\ w[1] <= starts /\ total # 0
    BY <2>a, <2>b
  <2>2. QED
    BY <1>a, <2>1, ConstAssumption DEF TypeOK, HistoryOK, ConstAssumption
<1> HIDE DEF k
<1>1. CASE /\ ResultLost(w, success)
           /\ wk' = k /\ step' = st
           /\ UNCHANGED <<ui, queueVars, refs, openPorts, deleting>>
  <2>1. /\ UNCHANGED <<ui, total, idx, results, queueCancelled, starts, closed,
                       overtaken, openPorts, deleting, isolate, port, tempDir>>
        /\ wk' = k /\ step' = st
    BY <1>1 DEF queueVars, refs
  <2>2. QueueTyped'
    BY <1>a, <2>1 DEF QueueTyped
  <2>3. idx' \in idx..total
    BY <1>g, <2>1
  <2>4. QED
    BY <1>b, <1>c, <1>d, <1>e, <2>1, <2>2, <2>3, QuietKeeps
<1>2. CASE /\ ~closed /\ variant # "benchmark" /\ idx < total
           /\ results' = Append(results, success)
           /\ idx' = idx + 1
           /\ IF NextJobExists
              THEN CleanupAndStartJob(<<starts, idx + 2>>, k, st)
              ELSE Cleanup(k) /\ ui' = "done" /\ step' = st
           /\ UNCHANGED <<total, queueCancelled, starts>>
  <2>1. results' \in Seq(BOOLEAN) /\ Len(results') = idx'
    BY <1>a, <1>2 DEF QueueTyped
  <2>2. /\ total' \in 0..MaxLen /\ idx' \in 0..total' /\ idx' \in idx..total
    BY <1>g, <1>2
  <2>3. CASE NextJobExists
    <3>1. CleanupAndStartJob(<<starts, idx + 2>>, k, st) /\ ui' = "running"
      BY <1>2, <2>3 DEF CleanupAndStartJob
    <3>2. QueueTyped'
      BY <1>a, <1>2, <2>1, <2>2, <3>1 DEF QueueTyped
    <3>3. /\ <<starts, idx + 2>> \in Workers
          /\ <<starts, idx + 2>> = <<starts', idx' + 1>>
      BY <1>g, <1>2, <2>3, WorkerNames, SMTT(30) DEF NextJobExists
    <3>4. PICK v \in Workers : v = <<starts, idx + 2>>
      BY <3>3
    <3>5. ~Started(v)
      BY <1>a, <1>g, <3>4 DEF HistoryOK
    <3>6. /\ CleanupAndStartJob(v, k, st) /\ v = <<starts', idx' + 1>> /\ ~closed'
          /\ idx' < total' /\ ~queueCancelled'
          /\ starts' \in 1..MaxStarts /\ starts' = starts /\ idx' = idx + 1
      BY <1>2, <1>g, <2>3, <3>1, <3>3, <3>4 DEF NextJobExists
    <3>7. QED
      BY <1>2, <1>c, <1>d, <1>e, <3>1, <3>2, <3>5, <3>6, StartJobKeeps
  <2>4. CASE ~NextJobExists
    <3>1. /\ wk' = Killed(k) /\ openPorts' = PortsLeft /\ deleting' = ToDelete
          /\ isolate' = NoRef /\ port' = NoRef /\ tempDir' = NoRef
          /\ ui' = "done" /\ step' = st /\ NoRef \in Refs
      BY <1>2, <2>4 DEF Cleanup, CleanupIsolate, Refs
    <3>2. QueueTyped'
      BY <1>a, <1>2, <2>1, <2>2, <3>1 DEF QueueTyped
    <3>3. QED
      BY <1>2, <1>f, <2>2, <3>1, <3>2, QuietKeeps
  <2>5. QED
    BY <2>3, <2>4
<1>3. CASE /\ ~closed /\ variant = "benchmark"
           /\ success => tempDir # NoRef
           /\ BenchmarkEnds(success, k, st)
           /\ UNCHANGED <<total, queueCancelled, starts>>
  <2>1. /\ wk' = Killed(k) /\ openPorts' = PortsLeft
        /\ isolate' = NoRef /\ port' = NoRef /\ NoRef \in Refs
        /\ \/ tempDir' = tempDir /\ deleting' = deleting
           \/ tempDir' = NoRef /\ deleting' = ToDelete
        /\ ui' = "done" /\ step' = st /\ results' = <<success>> /\ idx' = 1
    BY <1>3 DEF BenchmarkEnds, Cleanup, CleanupIsolate, Refs
  <2>2. /\ total' \in 0..MaxLen /\ idx' \in 0..total' /\ idx' \in idx..total
    BY <1>g, <1>3, <2>1
  <2>3. QueueTyped'
    BY <1>a, <1>3, <2>1, <2>2 DEF QueueTyped
  <2>4. QED
    BY <1>3, <1>f, <2>1, <2>2, <2>3, QuietKeeps
<1>4. QED
  BY <1>1, <1>2, <1>3 DEF HandleResult, k

\* A worker that started belongs to a Start that was handled.
LEMMA StartedIsPast ==
  ASSUME ScratchInv, NEW w \in Workers, Started(w)
  PROVE  w[1] <= starts
<1>1. w[1] < starts \/ w[1] = starts
  BY DEF ScratchInv, HistoryOK
<1>2. w[1] \in Nat /\ starts \in Nat
  BY WorkerNames, ConstAssumption DEF ScratchInv, TypeOK, ConstAssumption
<1>3. QED
  BY <1>1, <1>2

LEMMA InitInv == Init => ScratchInv
<1> SUFFICES ASSUME Init PROVE ScratchInv
  OBVIOUS
<1>1. TypeOK
  <2>1. /\ step \in [Workers -> Steps] /\ wk \in [Workers -> WorkerStates]
        /\ disk \in [Workers -> DiskStates] /\ deleting \subseteq Workers
    BY DEF Init, Steps, WorkerStates, DiskStates, OnDisk
  <2>2. results \in Seq(BOOLEAN) /\ Len(results) = idx
    BY DEF Init
  <2>3. /\ total \in 0..MaxLen /\ idx \in 0..total /\ starts \in 0..MaxStarts
        /\ session \in 0..MaxRestarts /\ before \in 0..starts
    BY ConstAssumption DEF Init, ConstAssumption
  <2>4. /\ isolate \in Refs /\ port \in Refs /\ tempDir \in Refs
        /\ openPorts \subseteq Workers /\ purging \subseteq Workers
        /\ queueCancelled \in BOOLEAN /\ closed \in BOOLEAN /\ overtaken \in BOOLEAN
        /\ variant \in Variants /\ ui \in {"idle", "running", "done"}
    BY DEF Init, Refs
  <2>5. QED
    BY <2>1, <2>2, <2>3, <2>4 DEF TypeOK
<1>2. HistoryOK
  BY WorkerNames DEF Init, HistoryOK, Started, OnDisk
<1>3. CurrentOK /\ ScratchOwned
  BY DEF Init, CurrentOK, Pending, Alive, Awaiting, ScratchOwned
<1>4. QED
  BY <1>1, <1>2, <1>3 DEF ScratchInv

\* A new list is handed over when nothing is shown as running.
LEMMA StartNszStep ==
  ASSUME ScratchInv, NEW n \in 1..MaxLen, StartNsz(n)
  PROVE  ScratchInv'
<1>0. TypeOK /\ HistoryOK /\ CurrentOK
  BY DEF ScratchInv
<1>1. /\ ~closed /\ ui # "running" /\ (variant = "benchmark" => n = 1)
      /\ starts' = starts + 1 /\ starts' \in 1..MaxStarts
      /\ total' = n /\ idx' = 0 /\ results' = <<>> /\ queueCancelled' = FALSE
      /\ CleanupAndStartJob(<<starts + 1, 1>>, wk, step)
      /\ UNCHANGED <<variant, closed, disk, overtaken, processVars>>
  BY <1>0, ConstAssumption DEF StartNsz, TypeOK, ConstAssumption
<1>2. MaxLen \in Nat /\ MaxLen # 0
  BY ConstAssumption DEF ConstAssumption
<1>3. PICK w \in Workers : w = <<starts + 1, 1>>
  BY <1>1, <1>2, WorkerNames
<1>4. /\ ~Started(w)
      /\ w = <<starts', idx' + 1>>
  BY <1>0, <1>1, <1>3 DEF HistoryOK, TypeOK
<1>5. ui' = "running"
  BY <1>1 DEF CleanupAndStartJob
<1>6. QueueTyped'
  <2>1. results' \in Seq(BOOLEAN) /\ Len(results') = idx'
    BY <1>1
  <2>2. total' \in 0..MaxLen /\ idx' \in 0..total'
    BY <1>1, <1>2
  <2>3. QED
    BY <1>0, <1>1, <1>5, <2>1, <2>2 DEF QueueTyped, TypeOK
<1>7. /\ OnlyStarted(step, wk)
      /\ ~overtaken => Idle(step, wk, openPorts)
  BY <1>0, <1>1 DEF OnlyStarted, Started, CurrentOK, Pending, Alive, Awaiting, Idle
<1>8. /\ step \in [Workers -> Steps] /\ wk \in [Workers -> WorkerStates]
      /\ idx' < total' /\ ~queueCancelled' /\ CleanupAndStartJob(w, wk, step)
  BY <1>0, <1>1, <1>2, <1>3 DEF TypeOK
<1>9. QED
  BY <1>1, <1>4, <1>5, <1>6, <1>7, <1>8, StartJobKeeps

\* A clean-up that finds no _startJob awaiting leaves nobody pending.
LEMMA CleanupIsIdle ==
  ASSUME ScratchInv, Cleanup(wk), step' = step, ~overtaken,
         \A w \in Workers : ~Awaiting(w)
  PROVE  Idle(step', wk', openPorts')
<1>0. TypeOK /\ CurrentOK /\ wk \in [Workers -> WorkerStates]
  BY DEF ScratchInv, TypeOK
<1>1. wk' = Killed(wk) /\ openPorts' = PortsLeft
  BY DEF Cleanup, CleanupIsolate
<1> SUFFICES ASSUME NEW w \in Workers
             PROVE  /\ step[w] \notin {"scratch", "spawn"}
                    /\ wk'[w] \notin {"starting", "up"}
                    /\ wk'[w] \in {"succeeded", "failed"} => w \notin openPorts'
  BY DEF Idle
<1>2. step[w] \notin {"scratch", "spawn"}
  BY DEF Awaiting
<1>3. /\ wk'[w] = IF w = isolate /\ wk[w] = "up" THEN "ended" ELSE wk[w]
      /\ w \in openPorts' <=> w \in openPorts /\ w # port
  BY <1>0, <1>1, CleanupPointwise
<1>4. CASE ~Pending(w)
  BY <1>2, <1>3, <1>4 DEF Pending, Alive
<1>5. CASE Pending(w)
  <2>1. step[w] = "returned" /\ port = w /\ wk[w] # "starting" /\ isolate = w
    BY <1>0, <1>2, <1>5 DEF CurrentOK
  <2>2. QED
    BY <1>2, <1>3, <2>1
<1>6. QED
  BY <1>4, <1>5

\* A cancel and close() clean up whatever runs.
LEMMA CancelOrCloseStep ==
  ASSUME ScratchInv, CancelNsz \/ Close
  PROVE  ScratchInv'
<1>0. TypeOK
  BY DEF ScratchInv
<1>1. /\ Cleanup(wk) /\ step' = step
      /\ overtaken' = (overtaken \/ \E w \in Workers : Awaiting(w))
      /\ ui' \in {ui, "done"} /\ queueCancelled' \in {queueCancelled, TRUE}
      /\ closed' \in {closed, TRUE}
      /\ UNCHANGED <<variant, total, idx, results, starts, disk, processVars>>
  BY DEF CancelNsz, Close, queueVars
<1>2. /\ wk' = Killed(wk) /\ openPorts' = PortsLeft /\ deleting' = ToDelete
      /\ isolate' = NoRef /\ port' = NoRef /\ tempDir' = NoRef /\ NoRef \in Refs
  BY <1>1 DEF Cleanup, CleanupIsolate, Refs
<1>3. ~overtaken' => ~overtaken /\ Idle(step', wk', openPorts')
  BY <1>1, CleanupIsIdle
<1>4. /\ step \in [Workers -> Steps] /\ wk \in [Workers -> WorkerStates]
      /\ idx \in 0..total /\ total \in Nat
  BY <1>0, ConstAssumption DEF TypeOK, ConstAssumption
<1>5. /\ Killed(wk) \in [Workers -> WorkerStates]
      /\ \A w \in Workers : wk[w] = "none" => Killed(wk)[w] = "none"
      /\ PortsLeft \subseteq openPorts
  BY <1>0, <1>4, CleanupPointwise
<1>6. OnlyStarted(step', wk')
  BY <1>1, <1>2, <1>5 DEF OnlyStarted, Started
<1>7. QueueTyped'
  BY <1>0, <1>1 DEF TypeOK, QueueTyped
<1>8. idx' \in idx..total
  BY <1>1, <1>4
<1>9. QED
  BY <1>1, <1>2, <1>3, <1>4, <1>5, <1>6, <1>7, <1>8, QuietKeeps

\* A spawn that throws reports a failed job.
LEMMA SpawnFailsStep ==
  ASSUME ScratchInv, NEW w \in Workers, SpawnFails(w)
  PROVE  ScratchInv'
<1>0. TypeOK /\ wk[w] = "starting" /\ step \in [Workers -> Steps]
  BY DEF ScratchInv, TypeOK, SpawnFails
<1> DEFINE st == [step EXCEPT ![w] = "threw"]
<1>1. /\ st \in [Workers -> Steps] /\ st[w] = "threw"
      /\ \A v \in Workers : v # w => st[v] = step[v]
  BY <1>0 DEF Steps
<1>2. OnlyStarted(st, wk)
  BY <1>0, <1>1 DEF OnlyStarted, Started
<1>3. Pending(w)
  BY <1>0 DEF Pending, Alive
<1>4. /\ HandleResult(w, FALSE, st)
      /\ UNCHANGED <<variant, closed, disk, overtaken, processVars>>
  BY DEF SpawnFails
<1> HIDE DEF st
<1>5. QED
  BY <1>0, <1>1, <1>2, <1>3, <1>4, HandleResultKeeps

LEMMA ResultArrivesStep ==
  ASSUME ScratchInv, NEW w \in Workers, ResultArrives(w)
  PROVE  ScratchInv'
<1>0. /\ TypeOK /\ step \in [Workers -> Steps] /\ step[w] = "returned"
      /\ wk[w] \in {"succeeded", "failed"} /\ w \in openPorts
  BY DEF ScratchInv, TypeOK, ResultArrives
<1>1. OnlyStarted(step, wk) /\ Pending(w)
  BY <1>0 DEF OnlyStarted, Started, Pending
<1>2. PICK success \in BOOLEAN : HandleResult(w, success, step)
  BY DEF ResultArrives
<1>3. UNCHANGED <<variant, closed, disk, overtaken, processVars>>
  BY DEF ResultArrives
<1>4. QED
  BY <1>0, <1>1, <1>2, <1>3, HandleResultKeeps

\* The directory of the current job takes the place of one that is gone, an
\* earlier process's or an earlier benchmark's.
LEMMA ScratchReadyStep ==
  ASSUME ScratchInv, NEW w \in Workers, ScratchReady(w)
  PROVE  ScratchInv'
<1>0. TypeOK /\ HistoryOK /\ CurrentOK /\ ScratchOwned
  BY DEF ScratchInv
<1>1. /\ step[w] = "scratch" /\ tempDir' = w /\ port' = w
      /\ disk' = [disk EXCEPT ![w] = "live"]
      /\ openPorts' = openPorts \cup {w}
      /\ wk' = [wk EXCEPT ![w] = "starting"]
      /\ step' = [step EXCEPT ![w] = "spawn"]
      /\ UNCHANGED <<variant, ui, total, idx, results, queueCancelled, starts,
                     isolate, closed, deleting, overtaken, session, before, purging>>
  BY DEF ScratchReady, OpenPortAndSpawn, queueVars, processVars
<1>2. /\ step' \in [Workers -> Steps] /\ wk' \in [Workers -> WorkerStates]
      /\ disk' \in [Workers -> DiskStates]
      /\ disk'[w] = "live" /\ step'[w] = "spawn" /\ wk'[w] = "starting"
      /\ \A v \in Workers : v # w =>
           disk'[v] = disk[v] /\ step'[v] = step[v] /\ wk'[v] = wk[v]
  BY <1>0, <1>1 DEF TypeOK, Steps, WorkerStates, DiskStates, OnDisk
<1>3. TypeOK'
  BY <1>0, <1>1, <1>2 DEF TypeOK, Refs
<1>4. HistoryOK'
  <2>1. Started(w) /\ \A v \in Workers : Started(v)' => Started(v)
    BY <1>1, <1>2 DEF Started
  <2>2. w[1] <= starts
    BY <2>1, StartedIsPast
  <2>3. QED
    BY <1>0, <1>1, <1>2, <2>1, <2>2 DEF HistoryOK
<1>5. ASSUME ~overtaken
      PROVE  /\ w = <<starts, idx + 1>> /\ idx < total
             /\ ui = "running" /\ ~queueCancelled /\ ~closed
             /\ variant \in {"nsz", "benchmark"} /\ (variant = "nsz" => tempDir = NoRef)
             /\ tempDir[1] < starts
             /\ \A v \in Workers : v # w => ~Pending(v)
  <2>1. Pending(w)
    BY <1>1 DEF Pending, Awaiting
  <2>2. QED
    BY <1>0, <1>1, <1>5, <2>1, ConstAssumption DEF CurrentOK, TypeOK, ConstAssumption
<1>6. CurrentOK'
  <2> SUFFICES ASSUME ~overtaken, NEW v \in Workers, Pending(v)'
               PROVE  v = w
    BY <1>1, <1>2, <1>5 DEF CurrentOK
  <2>1. v # w => Pending(v)
    BY <1>1, <1>2 DEF Pending, Alive, Awaiting
  <2>2. QED
    BY <1>5, <2>1
<1>7. ScratchOwned'
  <2> SUFFICES ASSUME ~overtaken, NEW v \in Workers, disk'[v] = "live", v # w
               PROVE  \/ v \in deleting' \/ Leftover(v)'
                      \/ variant = "benchmark" /\ v[1] < starts
    BY <1>1 DEF ScratchOwned
  <2>1. disk[v] = "live" /\ v # NoRef
    BY <1>2, WorkerNames
  <2>2. CASE v = tempDir
    BY <1>5, <2>1, <2>2
  <2>3. CASE v # tempDir
    BY <1>0, <1>1, <1>2, <2>1, <2>3 DEF ScratchOwned, Leftover, Listed
  <2>4. QED
    BY <2>2, <2>3
<1>8. QED
  BY <1>3, <1>4, <1>6, <1>7 DEF ScratchInv

\* A step that starts nobody and touches nothing but a worker's own progress.
LEMMA ProgressKeeps ==
  ASSUME ScratchInv,
         step' \in [Workers -> Steps], wk' \in [Workers -> WorkerStates],
         OnlyStarted(step', wk'),
         isolate' \in Refs, ui' \in {"idle", "running", "done"},
         UNCHANGED <<variant, total, idx, results, queueCancelled, starts, port, tempDir,
                     closed, openPorts, disk, deleting, overtaken, session, before,
                     purging>>,
         ~overtaken =>
           \A w \in Workers : Pending(w)' =>
             /\ Pending(w) /\ ui' = "running"
             /\ \/ step'[w] = step[w] /\ wk'[w] = wk[w]
                \/ step'[w] = "spawn" /\ step[w] = "spawn"
                \/ step'[w] = "returned" /\ step[w] \in {"spawn", "returned"}
             /\ step'[w] = "returned" => isolate' = w /\ wk'[w] # "starting"
  PROVE  ScratchInv'
<1>0. TypeOK /\ HistoryOK /\ CurrentOK /\ ScratchOwned
  BY DEF ScratchInv
<1>1. TypeOK'
  BY <1>0 DEF TypeOK, Refs
<1>2. HistoryOK'
  BY <1>0 DEF HistoryOK, Started, OnlyStarted
<1>3. CurrentOK'
  <2> SUFFICES ASSUME ~overtaken, NEW w \in Workers, Pending(w)'
               PROVE  /\ w = <<starts, idx + 1>> /\ idx < total
                      /\ ui' = "running" /\ ~queueCancelled /\ ~closed
                      /\ \/ /\ step'[w] = "scratch" /\ wk'[w] = "none"
                            /\ variant # "unmerge" /\ (variant = "nsz" => tempDir = NoRef)
                            /\ tempDir[1] < starts
                         \/ /\ step'[w] \in {"spawn", "returned"}
                            /\ port = w /\ (variant # "unmerge" => tempDir = w)
                            /\ step'[w] = "returned" =>
                                 wk'[w] # "starting" /\ isolate' = w
    BY DEF CurrentOK
  <2>1. /\ Pending(w) /\ ui' = "running"
        /\ \/ step'[w] = step[w] /\ wk'[w] = wk[w]
           \/ step'[w] = "spawn" /\ step[w] = "spawn"
           \/ step'[w] = "returned" /\ step[w] \in {"spawn", "returned"}
        /\ step'[w] = "returned" => isolate' = w /\ wk'[w] # "starting"
    OBVIOUS
  <2>2. /\ w = <<starts, idx + 1>> /\ idx < total /\ ~queueCancelled /\ ~closed
        /\ \/ /\ step[w] = "scratch" /\ wk[w] = "none"
              /\ variant # "unmerge" /\ (variant = "nsz" => tempDir = NoRef)
              /\ tempDir[1] < starts
           \/ /\ step[w] \in {"spawn", "returned"}
              /\ port = w /\ (variant # "unmerge" => tempDir = w)
    BY <1>0, <2>1 DEF CurrentOK
  <2>3. QED
    BY <2>1, <2>2
<1>4. ScratchOwned'
  BY <1>0 DEF ScratchOwned, Leftover, Listed
<1>5. QED
  BY <1>1, <1>2, <1>3, <1>4 DEF ScratchInv

\* What the awaits and the isolates do by themselves.
LEMMA WorkerStep ==
  ASSUME ScratchInv, NEW w \in Workers,
         \/ ScratchFails(w) \/ SpawnResolves(w) \/ ProgressArrives(w)
         \/ IsolateUp(w) \/ WorkerDies(w) \/ \E success \in BOOLEAN : WorkerSend(w, success)
  PROVE  ScratchInv'
<1>0. /\ TypeOK /\ CurrentOK
      /\ step \in [Workers -> Steps] /\ wk \in [Workers -> WorkerStates]
      /\ isolate \in Refs /\ ui \in {"idle", "running", "done"}
      /\ \A v \in Workers : ~overtaken /\ Pending(v) => ui = "running"
      /\ \A v \in Workers : ~overtaken /\ Pending(v) /\ step[v] = "returned" =>
           isolate = v /\ wk[v] # "starting"
  BY DEF ScratchInv, TypeOK, CurrentOK
<1>1. CASE ScratchFails(w)
  <2>1. /\ step[w] = "scratch" /\ step' = [step EXCEPT ![w] = "threw"] /\ wk' = wk
        /\ UNCHANGED <<ui, isolate, variant, total, idx, results, queueCancelled, starts,
                       port, tempDir, closed, openPorts, disk, deleting, overtaken, session, before,
                       purging>>
    BY <1>1 DEF ScratchFails, queueVars, refs, processVars
  <2>2. /\ step' \in [Workers -> Steps] /\ step'[w] = "threw"
        /\ \A v \in Workers : v # w => step'[v] = step[v]
    BY <1>0, <2>1 DEF Steps
  <2>3. OnlyStarted(step', wk')
    BY <2>1, <2>2 DEF OnlyStarted, Started
  <2>4. \A v \in Workers : Pending(v)' => Pending(v) /\ (v = w => overtaken)
    <3>1. ~overtaken => wk[w] = "none"
      BY <1>0, <2>1 DEF CurrentOK, Pending, Awaiting
    <3>2. QED
      BY <2>1, <2>2, <3>1 DEF Pending, Alive, Awaiting
  <2>5. QED
    BY <1>0, <2>1, <2>2, <2>3, <2>4, ProgressKeeps
<1>2. CASE SpawnResolves(w)
  <2>1. /\ step[w] = "spawn" /\ wk[w] \notin {"none", "starting"}
        /\ step' = [step EXCEPT ![w] = "returned"] /\ isolate' = w /\ wk' = wk
        /\ UNCHANGED <<ui, variant, total, idx, results, queueCancelled, starts, port,
                       tempDir, closed, openPorts, disk, deleting, overtaken, session, before,
                     purging>>
    BY <1>2 DEF SpawnResolves, queueVars, processVars
  <2>2. /\ step' \in [Workers -> Steps] /\ step'[w] = "returned" /\ w \in Refs
        /\ \A v \in Workers : v # w => step'[v] = step[v]
    BY <1>0, <2>1 DEF Steps, Refs
  <2>3. OnlyStarted(step', wk')
    BY <2>1, <2>2 DEF OnlyStarted, Started
  <2>4. Pending(w) /\ \A v \in Workers : Pending(v)' => Pending(v)
    BY <2>1, <2>2 DEF Pending, Alive, Awaiting
  <2>5. ~overtaken => \A v \in Workers : Pending(v) => v = w
    BY <1>0, <2>4 DEF CurrentOK
  <2>6. QED
    BY <1>0, <2>1, <2>2, <2>3, <2>4, <2>5, ProgressKeeps
<1>3. CASE ProgressArrives(w)
  <2>1. /\ wk[w] = "up" /\ ui' = "running" /\ step' = step /\ wk' = wk
        /\ UNCHANGED <<isolate, variant, total, idx, results, queueCancelled, starts, port,
                       tempDir, closed, openPorts, disk, deleting, overtaken, session, before,
                     purging>>
    BY <1>3 DEF ProgressArrives, queueVars, refs, processVars
  <2>2. OnlyStarted(step', wk')
    BY <2>1 DEF OnlyStarted, Started
  <2>3. \A v \in Workers : Pending(v)' => Pending(v)
    BY <2>1 DEF Pending, Alive, Awaiting
  <2>4. QED
    BY <1>0, <2>1, <2>2, <2>3, ProgressKeeps
<1>4. ASSUME wk[w] \in {"starting", "up"},
             wk'[w] \in {"up", "ended", "succeeded", "failed", "died"},
             wk'[w] = "up" => wk[w] = "starting",
             NEW to \in WorkerStates, wk' = [wk EXCEPT ![w] = to], step' = step,
             UNCHANGED <<ui, isolate, variant, total, idx, results, queueCancelled, starts,
                         port, tempDir, closed, openPorts, disk, deleting, overtaken, session, before,
                         purging>>
      PROVE  ScratchInv'
  <2>1. /\ wk' \in [Workers -> WorkerStates]
        /\ \A v \in Workers : v # w => wk'[v] = wk[v]
    BY <1>0, <1>4
  <2>2. OnlyStarted(step', wk')
    BY <1>4, <2>1 DEF OnlyStarted, Started
  <2>3. Pending(w) /\ \A v \in Workers : Pending(v)' => Pending(v)
    BY <1>4, <2>1 DEF Pending, Alive, Awaiting
  <2>4. ~overtaken => step[w] \in {"spawn", "returned"}
    BY <1>0, <1>4, <2>3 DEF CurrentOK
  <2>5. QED
    BY <1>0, <1>4, <2>1, <2>2, <2>3, <2>4, ProgressKeeps
<1>5. CASE IsolateUp(w)
  <2>1. /\ wk[w] = "starting" /\ wk' = [wk EXCEPT ![w] = "up"] /\ "up" \in WorkerStates
        /\ wk'[w] = "up" /\ step' = step
        /\ UNCHANGED <<ui, isolate, variant, total, idx, results, queueCancelled, starts,
                       port, tempDir, closed, openPorts, disk, deleting, overtaken, session, before,
                       purging>>
    BY <1>0, <1>5 DEF IsolateUp, queueVars, refs, processVars, WorkerStates
  <2>2. QED
    BY <1>4, <2>1
<1>6. ASSUME NEW success \in BOOLEAN, WorkerSend(w, success) PROVE ScratchInv'
  <2>1. PICK to \in {"ended", "succeeded", "failed"} : wk' = [wk EXCEPT ![w] = to]
    BY <1>6 DEF WorkerSend
  <2>2. /\ wk[w] = "up" /\ to \in WorkerStates /\ wk'[w] = to /\ step' = step
        /\ UNCHANGED <<ui, isolate, variant, total, idx, results, queueCancelled, starts,
                       port, tempDir, closed, openPorts, disk, deleting, overtaken, session, before,
                       purging>>
    BY <1>0, <1>6, <2>1 DEF WorkerSend, queueVars, refs, processVars, WorkerStates
  <2>3. QED
    BY <1>4, <2>1, <2>2
<1>7. CASE WorkerDies(w)
  <2>1. /\ wk[w] = "up" /\ wk' = [wk EXCEPT ![w] = "died"] /\ "died" \in WorkerStates
        /\ wk'[w] = "died" /\ step' = step
        /\ UNCHANGED <<ui, isolate, variant, total, idx, results, queueCancelled, starts,
                       port, tempDir, closed, openPorts, disk, deleting, overtaken,
                       session, before, purging>>
    BY <1>0, <1>7 DEF WorkerDies, queueVars, refs, processVars, WorkerStates
  <2>2. QED
    BY <1>4, <2>1
<1>8. QED
  BY <1>1, <1>2, <1>3, <1>5, <1>6, <1>7

\* The scratch directories change under the bloc: a worker makes its own again, a
\* deletion ends, a purge or Clear cache deletes one.
LEMMA DiskStep ==
  ASSUME ScratchInv, NEW w \in Workers,
         \/ WorkerCreatesTempDir(w) \/ DeletionEnds(w)
         \/ PurgeVisits(w) \/ ClearCacheVisits(w)
  PROVE  ScratchInv'
<1>0. TypeOK /\ HistoryOK /\ CurrentOK /\ ScratchOwned
  BY DEF ScratchInv
<1>1. /\ disk' = disk \/ \E to \in DiskStates : disk' = [disk EXCEPT ![w] = to]
      /\ disk'[w] \in OnDisk => disk[w] \in OnDisk \/ (wk[w] = "up" /\ variant # "unmerge")
      /\ disk'[w] = "live" =>
           \/ disk[w] = "live" /\ deleting' = deleting
           \/ wk[w] = "up" /\ variant # "unmerge"
      /\ deleting \ {w} \subseteq deleting' /\ deleting' \subseteq deleting
      /\ purging' \subseteq purging
      /\ UNCHANGED <<variant, ui, total, idx, results, queueCancelled, starts, isolate,
                     port, tempDir, closed, openPorts, step, wk, overtaken, session, before>>
  <2>1. disk \in [Workers -> DiskStates] /\ OnDisk = {"live", "left"}
        /\ DiskStates = {"none", "deleted", "live", "left"}
    BY <1>0 DEF TypeOK, DiskStates, OnDisk
  <2>2. CASE WorkerCreatesTempDir(w)
    BY <2>1, <2>2 DEF WorkerCreatesTempDir, queueVars, refs, processVars
  <2>3. CASE PurgeVisits(w)
    BY <2>1, <2>3 DEF PurgeVisits, queueVars, refs
  <2>4. CASE ClearCacheVisits(w)
    BY <2>1, <2>4 DEF ClearCacheVisits, queueVars, refs, processVars
  <2>5. CASE DeletionEnds(w)
    <3>1. PICK after \in IF disk[w] \in OnDisk THEN {"deleted", "left"} ELSE {disk[w]} :
            disk' = [disk EXCEPT ![w] = after]
      BY <2>5 DEF DeletionEnds
    <3>2. after \in DiskStates /\ after # "live" /\ disk'[w] = after
          /\ (after \in OnDisk => disk[w] \in OnDisk)
      BY <2>1, <3>1
    <3>3. QED
      BY <2>5, <3>1, <3>2 DEF DeletionEnds, queueVars, refs, processVars
  <2>6. QED
    BY <2>2, <2>3, <2>4, <2>5
<1>2. /\ disk' \in [Workers -> DiskStates]
      /\ \A v \in Workers : v # w => disk'[v] = disk[v]
  BY <1>0, <1>1 DEF TypeOK
<1>3. TypeOK'
  BY <1>0, <1>1, <1>2 DEF TypeOK, Refs
<1>4. HistoryOK'
  <2>1. wk[w] = "up" => w[1] <= starts
    BY StartedIsPast DEF Started
  <2>2. QED
    BY <1>0, <1>1, <1>2, <2>1 DEF HistoryOK, Started
<1>5. CurrentOK'
  BY <1>0, <1>1 DEF CurrentOK, Pending, Alive, Awaiting
<1>6. ScratchOwned'
  <2>1. ~overtaken /\ wk[w] = "up" /\ variant # "unmerge" => w = tempDir
    BY <1>0 DEF CurrentOK, Pending, Alive
  <2> SUFFICES ASSUME ~overtaken, NEW v \in Workers, disk'[v] = "live", v # tempDir
               PROVE  \/ v \in deleting' \/ Leftover(v)'
                      \/ variant = "benchmark" /\ v[1] < starts
    BY <1>1 DEF ScratchOwned
  <2>2. disk[v] = "live" /\ (v \in deleting => v \in deleting')
    BY <1>1, <1>2, <2>1
  <2>3. Leftover(v) => Leftover(v)'
    BY <1>1, <2>2 DEF Leftover, Listed, OnDisk
  <2>4. QED
    BY <1>0, <2>2, <2>3 DEF ScratchOwned
<1>7. QED
  BY <1>3, <1>4, <1>5, <1>6 DEF ScratchInv

\* A new process has started nothing, and calls all it finds leftovers.
LEMMA RestartStep ==
  ASSUME ScratchInv, Restart
  PROVE  ScratchInv'
<1>0. TypeOK /\ HistoryOK
  BY DEF ScratchInv
<1>1. /\ step' = [v \in Workers |-> "none"] /\ wk' = [v \in Workers |-> "none"]
      /\ openPorts' = {} /\ deleting' = {} /\ purging' \subseteq Workers
      /\ isolate' = NoRef /\ port' = NoRef /\ tempDir' = NoRef
      /\ UNCHANGED <<variant, starts, disk>>
      /\ session' = session + 1 /\ session < MaxRestarts /\ before' = starts
      /\ ui' = "idle" /\ total' = 0 /\ idx' = 0 /\ results' = <<>>
      /\ queueCancelled' = FALSE /\ closed' = FALSE /\ overtaken' = FALSE
  BY DEF Restart, Listed
<1>2. TypeOK'
  <2>1. step' \in [Workers -> Steps] /\ wk' \in [Workers -> WorkerStates]
    BY <1>1 DEF Steps, WorkerStates
  <2>2. results' \in Seq(BOOLEAN) /\ Len(results') = idx'
    BY <1>1
  <2>3. /\ total' \in 0..MaxLen /\ idx' \in 0..total' /\ session' \in 0..MaxRestarts
        /\ starts' \in 0..MaxStarts /\ before' \in 0..starts'
    BY <1>0, <1>1, ConstAssumption DEF TypeOK, ConstAssumption
  <2>4. QED
    BY <1>0, <1>1, <2>1, <2>2, <2>3 DEF TypeOK, Refs
<1>3. HistoryOK'
  <2>1. starts \in Nat
    BY <1>0, ConstAssumption DEF TypeOK, ConstAssumption
  <2>2. QED
    BY <1>0, <1>1, <2>1, WorkerNames DEF HistoryOK, Started
<1>4. CurrentOK'
  BY <1>1 DEF CurrentOK, Pending, Alive, Awaiting
<1>5. ScratchOwned'
  BY <1>0, <1>1 DEF ScratchOwned, Leftover, Listed, OnDisk, HistoryOK
<1>6. QED
  BY <1>2, <1>3, <1>4, <1>5 DEF ScratchInv

LEMMA NextInv ==
  ASSUME ScratchInv, [Next]_vars
  PROVE  ScratchInv'
<1>1. CASE UNCHANGED vars
  BY <1>1 DEF ScratchInv, TypeOK, HistoryOK, CurrentOK, ScratchOwned, Started, Pending,
    Alive, Awaiting, Leftover, Listed, vars, queueVars, refs, processVars, Refs
<1>2. ASSUME NEW n \in 1..MaxLen, StartNsz(n) PROVE ScratchInv'
  BY <1>2, StartNszStep
<1>3. CASE CancelNsz \/ Close
  BY <1>3, CancelOrCloseStep
<1>4. CASE Restart
  BY <1>4, RestartStep
<1>5. ASSUME NEW w \in Workers,
             \/ ScratchReady(w) \/ ScratchFails(w) \/ SpawnResolves(w) \/ SpawnFails(w)
             \/ ResultArrives(w) \/ ProgressArrives(w) \/ IsolateUp(w)
             \/ WorkerCreatesTempDir(w) \/ WorkerDies(w) \/ DeletionEnds(w)
             \/ PurgeVisits(w) \/ ClearCacheVisits(w)
             \/ \E success \in BOOLEAN : WorkerSend(w, success)
      PROVE  ScratchInv'
  BY <1>5, ScratchReadyStep, SpawnFailsStep, ResultArrivesStep, WorkerStep, DiskStep
<1>6. QED
  BY <1>1, <1>2, <1>3, <1>4, <1>5 DEF Next

-----------------------------------------------------------------------------
\* The blocs and the benchmark keep the invariant, for any number of queues, jobs
\* and restarts.
THEOREM ScratchInvariance == Spec => []ScratchInv
<1>1. Init => ScratchInv
  BY InitInv
<1>2. ScratchInv /\ [Next]_vars => ScratchInv'
  BY NextInv
<1>3. QED
  BY <1>1, <1>2, PTL DEF Spec

\* Every variable keeps its type; the results are those of the jobs so far.
THEOREM Scratch_TypeCorrect == Spec => []TypeOK
<1>1. ScratchInv => TypeOK
  BY DEF ScratchInv
<1>2. QED
  BY <1>1, ScratchInvariance, PTL

\* Unless a cancel overtook an await, _startJob never runs beside a worker that is
\* alive, and a queue shown as done has none.
THEOREM Scratch_OneWorkerAtATime == Spec => []OneWorkerAtATime
<1>1. ScratchInv => OneWorkerAtATime
  BY DEF ScratchInv, CurrentOK, OneWorkerAtATime, Pending
<1>2. QED
  BY <1>1, ScratchInvariance, PTL

\* Unless a cancel overtook an await, each scratch directory this process has on disk
\* is named by _tempDirPath, is being deleted, or refused to be, the earlier
\* benchmarks' excepted: deletions may fail, isolates die and purges come at any time.
THEOREM Scratch_ScratchOwned == Spec => []ScratchOwned
<1>1. ScratchInv => ScratchOwned
  BY DEF ScratchInv
<1>2. QED
  BY <1>1, ScratchInvariance, PTL

-----------------------------------------------------------------------------
(***************************************************************************)
(* ScratchQueue implements JobQueue: what each action is for the screen.   *)
(***************************************************************************)

\* A queue that promises nothing more promises nothing until the next launch.
LEMMA AbandonedStays ==
  ASSUME [Next]_vars, ~Restart, Abandoned
  PROVE  Abandoned'
<1>1. ASSUME NEW w \in Workers,
             \/ ScratchReady(w) \/ ScratchFails(w) \/ SpawnResolves(w) \/ SpawnFails(w)
             \/ ResultArrives(w) \/ ProgressArrives(w) \/ IsolateUp(w)
             \/ WorkerCreatesTempDir(w) \/ WorkerDies(w) \/ DeletionEnds(w)
             \/ PurgeVisits(w) \/ ClearCacheVisits(w)
             \/ \E success \in BOOLEAN : WorkerSend(w, success)
      PROVE  UNCHANGED <<closed, overtaken>>
  BY <1>1 DEF ScratchReady, ScratchFails, SpawnResolves, SpawnFails, ResultArrives,
     ProgressArrives, IsolateUp, WorkerCreatesTempDir, WorkerDies, DeletionEnds,
     PurgeVisits, ClearCacheVisits, WorkerSend
<1>2. ASSUME NEW n \in 1..MaxLen, StartNsz(n) PROVE UNCHANGED <<closed, overtaken>>
  BY <1>2 DEF StartNsz
<1>3. CASE CancelNsz \/ Close
  BY <1>3 DEF CancelNsz, Close, Abandoned
<1>4. CASE UNCHANGED vars
  BY <1>4 DEF vars, Abandoned
<1>5. QED
  BY <1>1, <1>2, <1>3, <1>4 DEF Next, Abandoned

\* What the screen sees of a queue that keeps its promises, and of another.
LEMMA ListShown ==
  ASSUME TypeOK
  PROVE  /\ ~Abandoned => /\ ListPhase = ui /\ ListTotal = total
                          /\ ListOutcomes = results /\ ListStopped = queueCancelled
         /\ Abandoned => /\ ListPhase = "disposed" /\ ListTotal = 0
                         /\ ListOutcomes = <<>> /\ ListStopped = FALSE
<1>1. queueCancelled \in BOOLEAN
  BY DEF TypeOK
<1>2. ListStopped = (queueCancelled /\ ~Abandoned)
  BY DEF ListStopped
<1>3. ~Abandoned => ListStopped = queueCancelled
  BY <1>1, <1>2
<1>4. QED
  BY <1>2, <1>3 DEF ListPhase, ListTotal, ListOutcomes

LEMMA ListShownNext ==
  ASSUME TypeOK'
  PROVE  /\ ~Abandoned' => /\ ListPhase' = ui' /\ ListTotal' = total'
                           /\ ListOutcomes' = results'
                           /\ ListStopped' = queueCancelled'
         /\ Abandoned' => /\ ListPhase' = "disposed" /\ ListTotal' = 0
                          /\ ListOutcomes' = <<>> /\ ListStopped' = FALSE
<1>1. queueCancelled' \in BOOLEAN
  BY DEF TypeOK
<1>2. ListStopped' = (queueCancelled' /\ ~Abandoned')
  BY DEF ListStopped
<1>3. ~Abandoned' => ListStopped' = queueCancelled'
  BY <1>1, <1>2
<1>4. QED
  BY <1>2, <1>3 DEF ListPhase, ListTotal, ListOutcomes

\* A list and its session that nothing touches look as they did.
LEMMA SameList ==
  ASSUME TypeOK, TypeOK', ~Abandoned, ~Abandoned',
         UNCHANGED <<ui, total, results, queueCancelled, session>>
  PROVE  UNCHANGED Queue!vars
<1>1. /\ ListPhase' = ListPhase /\ ListTotal' = ListTotal
      /\ ListOutcomes' = ListOutcomes /\ ListStopped' = ListStopped
  BY ListShown, ListShownNext
<1>2. QED
  BY <1>1 DEF Queue!vars

\* The result of a pending worker is the outcome of the job whose turn it is.
LEMMA HandleResultRefines ==
  ASSUME ScratchInv, TypeOK', ~Abandoned, ~Abandoned',
         NEW w \in Workers, NEW success \in BOOLEAN, NEW st \in [Workers -> Steps],
         HandleResult(w, success, st), Pending(w), session' = session
  PROVE  Queue!Complete(success) \/ UNCHANGED Queue!vars
<1>0. TypeOK /\ HistoryOK /\ CurrentOK /\ ~overtaken
  BY DEF ScratchInv, Abandoned
<1>1. ui = "running" /\ ~queueCancelled /\ idx < total
  BY <1>0 DEF CurrentOK
<1>2. /\ results \in Seq(BOOLEAN) /\ Len(results) = idx
      /\ idx \in Nat /\ total \in Nat
  BY <1>0, ConstAssumption DEF TypeOK, ConstAssumption
<1>3. CASE UNCHANGED <<ui, queueVars>>
  BY <1>0, <1>3, SameList DEF queueVars
<1>4. ASSUME results' = Append(results, success), UNCHANGED <<total, queueCancelled>>,
             ui' = IF idx + 1 = total THEN "done" ELSE "running"
      PROVE  Queue!Complete(success)
  <2>1. /\ ListPhase = "running" /\ ListStopped = FALSE /\ ListTotal = total
        /\ Len(ListOutcomes) = idx /\ ListOutcomes = results
    BY <1>0, <1>1, <1>2, ListShown
  <2>2. /\ ListPhase' = (IF idx + 1 = total THEN "done" ELSE "running")
        /\ ListStopped' = FALSE /\ ListTotal' = total
        /\ ListOutcomes' = Append(results, success)
    BY <1>1, <1>4, ListShownNext
  <2>3. QED
    BY <2>1, <2>2 DEF Queue!Complete
<1>5. ASSUME results' = Append(results, success), UNCHANGED <<total, queueCancelled>>,
             IF NextJobExists THEN ui' = "running" ELSE ui' = "done"
      PROVE  Queue!Complete(success)
  <2>1. ui' = IF idx + 1 = total THEN "done" ELSE "running"
    BY <1>1, <1>2, <1>5 DEF NextJobExists
  <2>2. QED
    BY <1>4, <1>5, <2>1
<1>6. ASSUME variant = "benchmark", results' = <<success>>, ui' = "done",
             UNCHANGED <<total, queueCancelled>>
      PROVE  Queue!Complete(success)
  <2>1. total = 1 /\ idx = 0
    BY <1>0, <1>1, <1>2, <1>6 DEF HistoryOK
  <2>2. results = <<>>
    BY <1>2, <2>1
  <2>3. QED
    BY <1>4, <1>6, <2>1, <2>2
<1>7. QED
  BY <1>3, <1>5, <1>6 DEF HandleResult, BenchmarkEnds, CleanupAndStartJob, Cleanup

\* Every step of the bloc, of an isolate, of a purge or of a launch is a step of the
\* abstract queue or leaves it as it is.
LEMMA StepRefines ==
  ASSUME ScratchInv, [Next]_vars
  PROVE  [Queue!Next]_(Queue!vars)
<1>0. TypeOK /\ CurrentOK /\ ScratchInv' /\ TypeOK'
  BY NextInv DEF ScratchInv
<1>1. CASE Restart
  <2>1. /\ session' = session + 1 /\ ui' = "idle" /\ total' = 0 /\ results' = <<>>
        /\ queueCancelled' = FALSE
    BY <1>1 DEF Restart
  <2>2. ~Abandoned'
    BY <1>1 DEF Restart, Abandoned
  <2>3. Queue!Relaunch
    BY <1>0, <2>1, <2>2, ListShownNext DEF Queue!Relaunch
  <2>4. QED
    BY <2>3 DEF Queue!Next
<1>2. CASE ~Restart
  <2>1. session' = session
    <3>1. ASSUME NEW w \in Workers,
                 \/ ScratchReady(w) \/ ScratchFails(w) \/ SpawnResolves(w)
                 \/ SpawnFails(w) \/ ResultArrives(w) \/ ProgressArrives(w)
                 \/ IsolateUp(w) \/ WorkerCreatesTempDir(w) \/ WorkerDies(w)
                 \/ DeletionEnds(w) \/ PurgeVisits(w) \/ ClearCacheVisits(w)
                 \/ \E success \in BOOLEAN : WorkerSend(w, success)
          PROVE  session' = session
      BY <3>1 DEF ScratchReady, ScratchFails, SpawnResolves, SpawnFails, ResultArrives,
         ProgressArrives, IsolateUp, WorkerCreatesTempDir, WorkerDies, DeletionEnds,
         PurgeVisits, ClearCacheVisits, WorkerSend, processVars
    <3>2. ASSUME NEW n \in 1..MaxLen, StartNsz(n) PROVE session' = session
      BY <3>2 DEF StartNsz, processVars
    <3>3. CASE CancelNsz \/ Close
      BY <3>3 DEF CancelNsz, Close, processVars
    <3>4. CASE UNCHANGED vars
      BY <3>4 DEF vars, processVars
    <3>5. QED
      BY <1>2, <3>1, <3>2, <3>3, <3>4 DEF Next
  <2>2. CASE Abandoned
    <3>1. Abandoned'
      BY <1>2, <2>2, AbandonedStays
    <3>2. QED
      BY <1>0, <2>1, <2>2, <3>1, ListShown, ListShownNext DEF Queue!vars
  <2>3. CASE ~Abandoned /\ Abandoned'
    <3>1. ListPhase # "disposed"
      BY <1>0, <2>3, ListShown DEF TypeOK
    <3>2. Queue!Dispose
      BY <1>0, <2>1, <2>3, <3>1, ListShownNext DEF Queue!Dispose
    <3>3. QED
      BY <3>2 DEF Queue!Next
  <2>4. CASE ~Abandoned /\ ~Abandoned'
    <3>0. ~overtaken /\ ~overtaken' /\ ui # "disposed" /\ step \in [Workers -> Steps]
      BY <1>0, <2>4 DEF Abandoned, TypeOK
    <3>1. ASSUME NEW n \in 1..MaxLen, StartNsz(n) PROVE Queue!Next
      <4>1. /\ ui' = "running" /\ total' = n /\ results' = <<>>
            /\ queueCancelled' = FALSE
        BY <3>1 DEF StartNsz, CleanupAndStartJob
      <4>2. Queue!Submit(n)
        BY <1>0, <2>1, <2>4, <3>0, <4>1, ListShown, ListShownNext DEF Queue!Submit
      <4>3. QED
        BY <4>2 DEF Queue!Next
    <3>2. CASE CancelNsz
      <4>1. /\ ui' = "done" /\ queueCancelled' = TRUE /\ total' = total
            /\ results' = results
        BY <3>2 DEF CancelNsz
      <4>2. Queue!Cancel
        BY <1>0, <2>1, <2>4, <3>0, <4>1, ListShown, ListShownNext DEF Queue!Cancel
      <4>3. QED
        BY <4>2 DEF Queue!Next
    <3>3. CASE Close
      BY <2>4, <3>3 DEF Close, Abandoned
    <3>4. ASSUME NEW success \in BOOLEAN,
                 Queue!Complete(success) \/ UNCHANGED Queue!vars
          PROVE  [Queue!Next]_(Queue!vars)
      BY <3>4 DEF Queue!Next, Queue!End
    <3>5. ASSUME NEW w \in Workers, SpawnFails(w) PROVE [Queue!Next]_(Queue!vars)
      <4> DEFINE st == [step EXCEPT ![w] = "threw"]
      <4>1. st \in [Workers -> Steps] /\ HandleResult(w, FALSE, st)
        BY <3>0, <3>5 DEF Steps, SpawnFails
      <4>2. Pending(w)
        BY <3>5 DEF SpawnFails, Pending, Alive
      <4> HIDE DEF st
      <4>3. Queue!Complete(FALSE) \/ UNCHANGED Queue!vars
        BY <1>0, <2>1, <2>4, <4>1, <4>2, HandleResultRefines
      <4>4. QED
        BY <3>4, <4>3
    <3>6. ASSUME NEW w \in Workers, ResultArrives(w) PROVE [Queue!Next]_(Queue!vars)
      <4>1. PICK success \in BOOLEAN : HandleResult(w, success, step)
        BY <3>6 DEF ResultArrives
      <4>2. Pending(w)
        BY <3>6 DEF ResultArrives, Pending
      <4>3. Queue!Complete(success) \/ UNCHANGED Queue!vars
        BY <1>0, <2>1, <2>4, <3>0, <4>1, <4>2, HandleResultRefines
      <4>4. QED
        BY <3>4, <4>3
    <3>7. ASSUME UNCHANGED <<ui, queueVars>> PROVE UNCHANGED Queue!vars
      BY <1>0, <2>1, <2>4, <3>7, SameList DEF queueVars
    <3>8. ASSUME NEW w \in Workers,
                 \/ ScratchReady(w) \/ ScratchFails(w) \/ SpawnResolves(w)
                 \/ IsolateUp(w) \/ WorkerCreatesTempDir(w) \/ WorkerDies(w)
                 \/ DeletionEnds(w) \/ PurgeVisits(w) \/ ClearCacheVisits(w)
                 \/ \E success \in BOOLEAN : WorkerSend(w, success)
          PROVE  UNCHANGED Queue!vars
      BY <3>7, <3>8 DEF ScratchReady, ScratchFails, SpawnResolves, IsolateUp,
         WorkerCreatesTempDir, WorkerDies, DeletionEnds, PurgeVisits,
         ClearCacheVisits, WorkerSend
    <3>9. ASSUME NEW w \in Workers, ProgressArrives(w) PROVE UNCHANGED Queue!vars
      <4>1. Pending(w)
        BY <3>9 DEF ProgressArrives, Pending, Alive
      <4>2. ui = "running"
        BY <1>0, <3>0, <4>1 DEF CurrentOK
      <4>3. QED
        BY <3>7, <3>9, <4>2 DEF ProgressArrives
    <3>10. CASE UNCHANGED vars
      BY <3>7, <3>10 DEF vars
    <3>11. QED
      BY <1>2, <3>1, <3>2, <3>3, <3>5, <3>6, <3>8, <3>9, <3>10 DEF Next
  <2>5. QED
    BY <2>2, <2>3, <2>4
<1>3. QED
  BY <1>1, <1>2

\* The blocs and the benchmark, their isolates and their directories are, for the
\* screen, the abstract queue, across launches too: the safety part of the
\* refinement, for any number of Starts, jobs and restarts.
THEOREM Scratch_Refines_JobQueue == Spec => ImplementsJobQueue
<1>1. Init => Queue!Init
  BY DEF Init, Queue!Init, ListPhase, ListTotal, ListOutcomes, ListStopped, Abandoned
<1>2. ScratchInv /\ [Next]_vars => [Queue!Next]_(Queue!vars)
  BY StepRefines
<1>3. QED
  BY <1>1, <1>2, ScratchInvariance, PTL DEF Spec, ImplementsJobQueue, Queue!Spec
=============================================================================
