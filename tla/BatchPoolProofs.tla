--------------------------- MODULE BatchPoolProofs --------------------------
(***************************************************************************)
(* Proofs that BatchPool keeps its inductive invariant, and what follows   *)
(* from it for any number of files and batches and any parallelism.        *)
(***************************************************************************)
EXTENDS BatchPool, FiniteSetTheorems, TLAPS

\* A worker is named by its batch and its path; it is never the absent entry.
LEMMA WorkerNames ==
  /\ \A w \in Workers : w[1] \in 1..MaxBatches /\ w[2] \in Paths /\ w = <<w[1], w[2]>>
  /\ \A b \in 1..MaxBatches, p \in Paths : <<b, p>> \in Workers
  /\ \A w \in Workers : w # NoRef
  BY ConstAssumption DEF Workers, NoRef

\* What cleaning up the workers of the paths of C leaves, entry by entry.
LEMMA CleanupPointwise ==
  ASSUME TypeOK, NEW C, C \subseteq Paths, NEW k \in [Workers -> WorkerStates]
  PROVE  /\ \A p \in Paths :
              /\ IsolatesWithout(C)[p] = IF p \in C THEN NoRef ELSE isolates[p]
              /\ PortsWithout(C)[p] = IF p \in C THEN NoRef ELSE ports[p]
              /\ IsolatesWithout(C)[p] \in RefsFor(p)
              /\ PortsWithout(C)[p] \in RefsFor(p)
         /\ DOMAIN IsolatesWithout(C) = Paths /\ DOMAIN PortsWithout(C) = Paths
         /\ \A w \in Workers : w \in OpenWithout(C) <=> w \in openPorts
                                 /\ \A p \in C : ports[p] # w
         /\ OpenWithout(C) \subseteq Workers
         /\ KilledIn(C, k) \in [Workers -> WorkerStates]
         /\ \A w \in Workers :
              w \in OpenWithout(C) /\ w[2] \notin C => KilledIn(C, k)[w] = k[w]
<1> USE WorkerNames
<1>1. \A p \in Paths : isolates[p] \in RefsFor(p) /\ ports[p] \in RefsFor(p)
  BY DEF TypeOK
<1>2. \A p \in Paths :
        /\ IsolatesWithout(C)[p] = IF p \in C THEN NoRef ELSE isolates[p]
        /\ PortsWithout(C)[p] = IF p \in C THEN NoRef ELSE ports[p]
  BY DEF IsolatesWithout, PortsWithout
<1>3. \A p \in Paths : IsolatesWithout(C)[p] \in RefsFor(p)
                       /\ PortsWithout(C)[p] \in RefsFor(p)
  BY <1>1, <1>2 DEF RefsFor
<1>4. DOMAIN IsolatesWithout(C) = Paths /\ DOMAIN PortsWithout(C) = Paths
  BY DEF IsolatesWithout, PortsWithout
<1>5. \A w \in Workers : w \in OpenWithout(C) <=> w \in openPorts
                           /\ \A p \in C : ports[p] # w
  BY DEF OpenWithout
<1>6. OpenWithout(C) \subseteq Workers
  BY DEF OpenWithout, TypeOK
<1>7. KilledIn(C, k) \in [Workers -> WorkerStates]
  BY DEF KilledIn, WorkerStates
<1>8. \A w \in Workers :
        w \in OpenWithout(C) /\ w[2] \notin C => KilledIn(C, k)[w] = k[w]
  <2> SUFFICES ASSUME NEW w \in Workers, w \in OpenWithout(C), w[2] \notin C
               PROVE  KilledIn(C, k)[w] = k[w]
    OBVIOUS
  <2>1. \A p \in C : isolates[p] # w
    BY <1>1 DEF RefsFor
  <2>2. QED
    BY <2>1 DEF KilledIn
<1>9. QED
  BY <1>2, <1>3, <1>4, <1>5, <1>6, <1>7, <1>8

\* The first workers that can be found in a full pool leave no more than limit.
LEMMA StartableFits ==
  ASSUME NEW pending, NEW held, NEW limit, NEW S \in Startable(pending, held, limit),
         limit \in Nat, IsFiniteSet(pending), IsFiniteSet(held)
  PROVE  /\ S \subseteq pending
         /\ S = {} \/ Cardinality(held \cup S) <= limit
<1>1. S \subseteq pending
  BY DEF Startable
<1>2. ASSUME S # {} PROVE Cardinality(held \cup S) <= limit
  <2>1. PICK p \in S : Cardinality(held \cup (S \ {p})) < limit
    BY <1>2 DEF Startable
  <2> DEFINE T == held \cup (S \ {p})
  <2>2. IsFiniteSet(T)
    BY <1>1, FS_Subset, FS_Union, S \ {p} \in SUBSET pending
  <2>3. /\ Cardinality(T \cup {p}) = IF p \in T THEN Cardinality(T) ELSE Cardinality(T) + 1
        /\ Cardinality(T) \in Nat
    BY <2>2, FS_AddElement, FS_CardinalityType
  <2>4. T \cup {p} = held \cup S
    BY <2>1
  <2> HIDE DEF T
  <2>5. Cardinality(T) < limit
    BY <2>1 DEF T
  <2>6. Cardinality(T \cup {p}) <= limit
    BY <2>3, <2>5
  <2>7. QED
    BY <2>4, <2>6
<1>3. QED
  BY <1>1, <1>2

\* _startNextWorkers starts some of the pending items, no more than the pool has
\* room for, or finds that nothing is left to do.
LEMMA StartNextShape ==
  ASSUME NEW C, C \subseteq Paths, NEW st \in [Paths -> Statuses], NEW k,
         parallelism' \in Nat, StartNextWorkers(C, st, k)
  PROVE  \E S \in SUBSET {p \in Paths : st[p] = "pending"} :
           /\ isolates' = IsolatesWithout(C)
           /\ SpawnWorkers(S, C, k)
           /\ status' \in [Paths -> Statuses]
           /\ \A p \in Paths : status'[p] = IF p \in S THEN "running" ELSE st[p]
           /\ \/ isRunning' = TRUE /\ ui' = "running"
              \/ /\ isRunning' = FALSE /\ ui' = "finished"
                 /\ {p \in Paths : st[p] = "pending"} = {}
           /\ S = {} \/ Cardinality(Registered(PortsWithout(C)) \cup S) <= parallelism'
<1> DEFINE pending == {p \in Paths : st[p] = "pending"}
<1>1. IsFiniteSet(pending) /\ IsFiniteSet(Registered(PortsWithout(C)))
  BY ConstAssumption, FS_Subset, pending \in SUBSET Paths, Registered(PortsWithout(C)) \in SUBSET Paths
  DEF ConstAssumption, Registered
<1>2. CASE pending = {} /\ NothingActive(IsolatesWithout(C))
  <2>1. /\ isolates' = IsolatesWithout(C) /\ isRunning' = FALSE /\ ui' = "finished"
        /\ status' = st /\ SpawnWorkers({}, C, k)
    BY <1>2 DEF StartNextWorkers
  <2>2. {} \in SUBSET pending
    OBVIOUS
  <2>3. QED
    BY <1>2, <2>1, <2>2
<1>3. CASE ~(pending = {} /\ NothingActive(IsolatesWithout(C)))
  <2>1. isolates' = IsolatesWithout(C)
    BY DEF StartNextWorkers
  <2>2. PICK S \in Startable(pending, Registered(PortsWithout(C)), parallelism') :
          /\ isRunning' = TRUE /\ ui' = "running"
          /\ status' = [p \in Paths |-> IF p \in S THEN "running" ELSE st[p]]
          /\ SpawnWorkers(S, C, k)
    BY <1>3 DEF StartNextWorkers
  <2>3. /\ S \subseteq pending
        /\ S = {} \/ Cardinality(Registered(PortsWithout(C)) \cup S) <= parallelism'
    BY <1>1, StartableFits
  <2>4. /\ status' \in [Paths -> Statuses]
        /\ \A p \in Paths : status'[p] = IF p \in S THEN "running" ELSE st[p]
    BY <2>2 DEF Statuses
  <2>5. S \in SUBSET pending
    BY <2>3
  <2>6. WITNESS S \in SUBSET pending
  <2>7. QED
    BY <2>1, <2>2, <2>3, <2>4
<1>4. QED
  BY <1>2, <1>3

LEMMA AtMostOne ==
  ASSUME NEW S, IsFiniteSet(S), Cardinality(S) <= 1, NEW x \in S, NEW y \in S
  PROVE  x = y
<1>1. Cardinality(S) \in Nat /\ Cardinality(S) # 0
  BY FS_CardinalityType, FS_EmptySet
<1>2. Cardinality(S) = 1
  BY <1>1
<1>3. PICK z : S = {z}
  BY <1>2, FS_Singleton
<1>4. QED
  BY <1>3

-----------------------------------------------------------------------------
\* What asking for the workers of the paths of S does, entry by entry.
Spawned(S, C, k) ==
  /\ DOMAIN ports' = Paths
  /\ \A p \in Paths : ports'[p] = IF p \in S THEN <<batch', p>>
                                   ELSE PortsWithout(C)[p]
  /\ openPorts' \subseteq Workers
  /\ \A w \in Workers : w \in openPorts' <=>
       w \in OpenWithout(C) \/ (w[1] = batch' /\ w[2] \in S)
  /\ spawn' \in [Workers -> {"none", "pending", "resolved"}]
  /\ wk' \in [Workers -> WorkerStates]
  /\ \A w \in Workers : wk'[w] = IF w[1] = batch' /\ w[2] \in S
                                 THEN "starting" ELSE KilledIn(C, k)[w]

LEMMA SpawnPointwise ==
  ASSUME TypeOK, NEW C, C \subseteq Paths, NEW S, S \subseteq Paths,
         NEW k \in [Workers -> WorkerStates],
         batch' \in 1..MaxBatches, SpawnWorkers(S, C, k)
  PROVE  Spawned(S, C, k)
<1> DEFINE new == {<<batch', p>> : p \in S}
<1>0. /\ ports' = NewPorts(S, C)
      /\ openPorts' = OpenWithout(C) \cup new
      /\ spawn' = [w \in Workers |-> IF w \in new THEN "pending" ELSE spawn[w]]
      /\ wk' = [w \in Workers |-> IF w \in new THEN "starting" ELSE KilledIn(C, k)[w]]
  BY DEF SpawnWorkers
<1>1. /\ new \subseteq Workers
      /\ \A w \in Workers : w \in new <=> w[1] = batch' /\ w[2] \in S
  BY WorkerNames
<1> HIDE DEF new
<1>2. /\ DOMAIN ports' = Paths
      /\ \A p \in Paths : ports'[p] = IF p \in S THEN <<batch', p>>
                                       ELSE PortsWithout(C)[p]
  BY <1>0 DEF NewPorts
<1>3. OpenWithout(C) \subseteq Workers /\ KilledIn(C, k) \in [Workers -> WorkerStates]
  BY CleanupPointwise
<1>4. /\ openPorts' \subseteq Workers
      /\ \A w \in Workers : w \in openPorts' <=>
           w \in OpenWithout(C) \/ (w[1] = batch' /\ w[2] \in S)
  BY <1>0, <1>1, <1>3
<1>5. spawn' \in [Workers -> {"none", "pending", "resolved"}]
  BY <1>0 DEF TypeOK
<1>6. wk' \in [Workers -> WorkerStates]
  BY <1>0, <1>3 DEF WorkerStates
<1>7. \A w \in Workers : wk'[w] = IF w[1] = batch' /\ w[2] \in S
                                  THEN "starting" ELSE KilledIn(C, k)[w]
  BY <1>0, <1>1
<1>8. QED
  BY <1>2, <1>4, <1>5, <1>6, <1>7 DEF Spawned

\* An item that runs and is not cleaned up keeps its worker.
Survives(C, k, p) ==
  /\ <<batch, p>> \in OpenWithout(C)
  /\ PortsWithout(C)[p] = <<batch, p>>
  /\ KilledIn(C, k)[<<batch, p>>] = k[<<batch, p>>]

LEMMA SurvivesCleanup ==
  ASSUME TypeOK, NEW C, C \subseteq Paths, NEW k \in [Workers -> WorkerStates],
         NEW p \in Paths, p \notin C, <<batch, p>> \in Workers,
         ports[p] = <<batch, p>>, <<batch, p>> \in openPorts
  PROVE  Survives(C, k, p)
<1>1. \A q \in C : ports[q] # <<batch, p>>
  BY WorkerNames DEF TypeOK, RefsFor
<1>2. <<batch, p>> \in OpenWithout(C)
  BY <1>1, CleanupPointwise
<1>3. QED
  BY <1>2, CleanupPointwise DEF Survives

\* What a caller owes _startNextWorkers: the items st shows as running were running
\* before and keep their workers, results are those of settled items, and in a
\* serial history the clean-up leaves no port.
KeptItems(C, st, k) ==
  \A p \in Paths : st[p] = "running" =>
    /\ p \notin C /\ status[p] = "running" /\ isRunning /\ batch' = batch
    /\ k[<<batch, p>>] = wk[<<batch, p>>]

KeptHistory(st) ==
  /\ DOMAIN by' = Paths
  /\ \A p \in Paths : /\ by'[p] \in RefsFor(p)
                      /\ by'[p] # NoRef => st[p] \in {"success", "failure"}

NoPortLeft(C) ==
  serial' => /\ parallelism' = 1 /\ OpenWithout(C) = {}
             /\ \A p \in Paths : PortsWithout(C)[p] = NoRef

\* _startNextWorkers keeps the invariant.
LEMMA StartNextKeeps ==
  ASSUME TypeOK, NoOrphanItem, ~closed, closed' = closed,
         NEW C, C \subseteq Paths, NEW st \in [Paths -> Statuses],
         NEW k \in [Workers -> WorkerStates], StartNextWorkers(C, st, k),
         batch' \in 1..MaxBatches, parallelism' \in Parallelisms \cup {1},
         serial' \in BOOLEAN, KeptHistory(st), KeptItems(C, st, k), NoPortLeft(C),
         Cardinality({p \in Paths : st[p] = "running"}) <= parallelism'
  PROVE  TypeOK' /\ NoOrphanItem' /\ RunningWithinParallelism' /\ SerialOK'
<1>0. parallelism' \in Nat
  BY ConstAssumption DEF ConstAssumption
<1>1. PICK S \in SUBSET {p \in Paths : st[p] = "pending"} :
        /\ isolates' = IsolatesWithout(C)
        /\ SpawnWorkers(S, C, k)
        /\ status' \in [Paths -> Statuses]
        /\ \A p \in Paths : status'[p] = IF p \in S THEN "running" ELSE st[p]
        /\ \/ isRunning' = TRUE /\ ui' = "running"
           \/ /\ isRunning' = FALSE /\ ui' = "finished"
              /\ {p \in Paths : st[p] = "pending"} = {}
        /\ S = {} \/ Cardinality(Registered(PortsWithout(C)) \cup S) <= parallelism'
  BY <1>0, StartNextShape
<1>2. S \subseteq Paths /\ \A p \in S : st[p] = "pending"
  BY <1>1
<1>3. /\ DOMAIN ports' = Paths
      /\ \A p \in Paths : ports'[p] = IF p \in S THEN <<batch', p>>
                                       ELSE PortsWithout(C)[p]
      /\ openPorts' \subseteq Workers
      /\ \A w \in Workers : w \in openPorts' <=>
           w \in OpenWithout(C) \/ (w[1] = batch' /\ w[2] \in S)
      /\ spawn' \in [Workers -> {"none", "pending", "resolved"}]
      /\ wk' \in [Workers -> WorkerStates]
      /\ \A w \in Workers : wk'[w] = IF w[1] = batch' /\ w[2] \in S
                                     THEN "starting" ELSE KilledIn(C, k)[w]
  <2>1. SpawnWorkers(S, C, k)
    BY <1>1
  <2>2. Spawned(S, C, k)
    BY <2>1, <1>2, SpawnPointwise
  <2>3. QED
    BY <2>2 DEF Spawned
<1>4. \A p \in Paths : <<batch', p>> \in Workers
  BY WorkerNames
<1>5. TypeOK'
  <2>1. ui' \in {"idle", "running", "finished"}
        /\ isRunning' \in BOOLEAN /\ (isRunning' <=> ui' = "running")
    BY <1>1
  <2>2. DOMAIN isolates' = Paths /\ \A p \in Paths : isolates'[p] \in RefsFor(p)
    BY <1>1, CleanupPointwise
  <2>3. \A p \in Paths : ports'[p] \in RefsFor(p)
    BY <1>3, <1>4, CleanupPointwise DEF RefsFor
  <2>4. /\ DOMAIN by' = Paths
        /\ \A p \in Paths : /\ by'[p] \in RefsFor(p)
                            /\ by'[p] # NoRef => status'[p] \in {"success", "failure"}
    BY <1>1, <1>2 DEF KeptHistory
  <2>5. closed' \in BOOLEAN /\ batch' \in 0..MaxBatches
    BY ConstAssumption DEF TypeOK
  <2>6. QED
    BY <1>1, <1>3, <2>1, <2>2, <2>3, <2>4, <2>5 DEF TypeOK, RefsFor
<1>6. ASSUME NEW p \in Paths, st[p] = "running"
      PROVE  /\ p \notin S /\ p \notin C /\ batch' = batch
             /\ ports[p] = <<batch, p>> /\ <<batch, p>> \in openPorts
             /\ wk[<<batch, p>>] \in {"starting", "up"} \/ Sent(<<batch, p>>)
             /\ k[<<batch, p>>] = wk[<<batch, p>>]
  BY <1>2, <1>6 DEF NoOrphanItem, RunningItems, KeptItems
<1>7. ASSUME NEW p \in Paths, status'[p] = "running"
      PROVE  /\ ports'[p] = <<batch', p>>
             /\ <<batch', p>> \in openPorts'
             /\ wk'[<<batch', p>>] \in {"starting", "up", "succeeded", "errored"}
  <2>1. CASE p \in S
    BY <2>1, <1>3, <1>4
  <2>2. CASE p \notin S
    <3>1. st[p] = "running"
      BY <1>1, <1>7, <2>2
    <3>2. /\ p \notin C /\ <<batch, p>> \in Workers
          /\ ports[p] = <<batch, p>> /\ <<batch, p>> \in openPorts
      BY <3>1, <1>4, <1>6
    <3>3. Survives(C, k, p)
      BY <3>2, SurvivesCleanup
    <3>4. k[<<batch, p>>] \in {"starting", "up", "succeeded", "errored"}
      BY <3>1, <1>6 DEF Sent
    <3>5. batch' = batch
      BY <3>1, <1>6
    <3>6. QED
      BY <3>2, <3>3, <3>4, <3>5, <2>2, <1>3 DEF Survives
  <2>3. QED
    BY <2>1, <2>2
<1>8. NoOrphanItem'
  BY <1>7 DEF NoOrphanItem, RunningItems, Sent
<1>9. RunningWithinParallelism'
  <2> DEFINE R == {p \in Paths : st[p] = "running"}
             H == Registered(PortsWithout(C)) \cup S
  <2>1. RunningItems' = R \cup S
    BY <1>1, <1>2 DEF RunningItems
  <2>2. CASE S = {}
    BY <2>1, <2>2 DEF RunningWithinParallelism
  <2>3. CASE S # {}
    <3>1. R \subseteq Registered(PortsWithout(C))
      <4>1. ASSUME NEW p \in Paths, st[p] = "running"
            PROVE  PortsWithout(C)[p] # NoRef
        <5>1. /\ p \notin C /\ <<batch, p>> \in Workers
              /\ ports[p] = <<batch, p>> /\ <<batch, p>> \in openPorts
          BY <4>1, <1>4, <1>6
        <5>2. Survives(C, k, p)
          BY <5>1, SurvivesCleanup
        <5>3. QED
          BY <5>1, <5>2, WorkerNames DEF Survives
      <4>2. QED
        BY <4>1 DEF Registered
    <3>2. IsFiniteSet(H)
      BY ConstAssumption, FS_Subset, H \in SUBSET Paths, <1>2 DEF ConstAssumption, Registered
    <3>3. RunningItems' \in SUBSET H
      BY <2>1, <3>1
    <3>4. /\ Cardinality(RunningItems') <= Cardinality(H)
          /\ Cardinality(RunningItems') \in Nat /\ Cardinality(H) \in Nat
      BY <3>2, <3>3, FS_Subset, FS_CardinalityType
    <3>5. Cardinality(H) <= parallelism'
      BY <1>1, <2>3
    <3> HIDE DEF H
    <3>6. Cardinality(RunningItems') <= parallelism'
      BY <3>4, <3>5, <1>0
    <3>7. QED
      BY <3>6 DEF RunningWithinParallelism
  <2>4. QED
    BY <2>2, <2>3
<1>10. SerialOK'
  <2> SUFFICES ASSUME serial'
               PROVE  /\ parallelism' = 1
                      /\ \A w \in openPorts' :
                           isRunning' /\ w[1] = batch' /\ ports'[w[2]] = w
                      /\ \A p \in Paths : ports'[p] # NoRef => ports'[p] \in openPorts'
                      /\ \A p, q \in Paths :
                           ports'[p] # NoRef /\ ports'[q] # NoRef => p = q
    BY DEF SerialOK
  <2>1. \A w \in openPorts' : w[1] = batch' /\ w[2] \in S /\ ports'[w[2]] = w
    BY <1>2, <1>3, WorkerNames DEF NoPortLeft
  <2>2. \A w \in openPorts' : isRunning'
    BY <2>1, <1>1
  <2>3. \A p \in Paths : ports'[p] # NoRef => p \in S /\ ports'[p] = <<batch', p>>
    BY <1>3 DEF NoPortLeft
  <2>4. \A p \in Paths : ports'[p] # NoRef => ports'[p] \in openPorts'
    BY <2>3, <1>3, <1>4
  <2>5. \A p, q \in S : p = q
    <3>1. Registered(PortsWithout(C)) = {} /\ parallelism' = 1
      BY DEF Registered, NoPortLeft
    <3>2. CASE S = {}
      BY <3>2
    <3>3. CASE S # {}
      <4>1. Cardinality(S) <= 1
        BY <3>1, <3>3, <1>1, Registered(PortsWithout(C)) \cup S = S
      <4>2. IsFiniteSet(S)
        BY ConstAssumption, <1>2, FS_Subset DEF ConstAssumption
      <4>3. QED
        BY <4>1, <4>2, AtMostOne
    <3>4. QED
      BY <3>2, <3>3
  <2>6. parallelism' = 1
    BY DEF NoPortLeft
  <2>7. QED
    BY <2>1, <2>2, <2>3, <2>4, <2>5, <2>6
<1>11. QED
  BY <1>5, <1>8, <1>9, <1>10

-----------------------------------------------------------------------------
\* In a serial history a clean-up of the path of an open port leaves none.
LEMMA SerialCleanup ==
  ASSUME TypeOK, SerialOK, serial, ~closed, NEW C, C \subseteq Paths,
         openPorts = {} \/ C = Paths \/ \E w \in openPorts : C = {w[2]}
  PROVE  /\ OpenWithout(C) = {}
         /\ \A p \in Paths : PortsWithout(C)[p] = NoRef
<1>0. /\ openPorts \subseteq Workers
      /\ \A w \in openPorts : ports[w[2]] = w /\ w[2] \in Paths /\ w # NoRef
      /\ \A p \in Paths : ports[p] # NoRef => ports[p] \in openPorts
      /\ \A p, q \in Paths : ports[p] # NoRef /\ ports[q] # NoRef => p = q
  BY WorkerNames DEF TypeOK, SerialOK
<1>1. \A p \in Paths : PortsWithout(C)[p] = IF p \in C THEN NoRef ELSE ports[p]
  BY DEF PortsWithout
<1>2. CASE openPorts = {}
  BY <1>0, <1>1, <1>2 DEF OpenWithout
<1>3. CASE C = Paths
  BY <1>0, <1>1, <1>3 DEF OpenWithout
<1>4. ASSUME NEW w \in openPorts, C = {w[2]}
      PROVE  /\ OpenWithout(C) = {}
             /\ \A p \in Paths : PortsWithout(C)[p] = NoRef
  <2>1. \A p \in Paths : ports[p] # NoRef => p = w[2]
    BY <1>0
  <2>2. \A v \in openPorts : v = w
    BY <1>0, <2>1
  <2>3. QED
    BY <1>0, <1>1, <1>4, <2>1, <2>2 DEF OpenWithout
<1>5. QED
  BY <1>2, <1>3, <1>4

\* A clean-up after which the batch is over, or the bloc closed, or which hits no
\* running item.
LEMMA CleanupKeeps ==
  ASSUME PoolInv, NEW C, C \subseteq Paths, NEW k \in [Workers -> WorkerStates],
         isolates' = IsolatesWithout(C), ports' = PortsWithout(C),
         openPorts' = OpenWithout(C), wk' = KilledIn(C, k),
         UNCHANGED <<parallelism, batch, by, spawn>>,
         serial' \in BOOLEAN, serial' => serial, closed' \in BOOLEAN, closed => closed',
         ui' \in {"idle", "running", "finished"}, isRunning' \in BOOLEAN,
         isRunning' <=> ui' = "running", isRunning' => isRunning,
         status' \in [Paths -> Statuses],
         isRunning' => status' = status,
         \A p \in Paths : status[p] \in {"success", "failure"} => status'[p] = status[p],
         isRunning' /\ ~closed' =>
           \A p \in Paths : status[p] = "running" =>
             p \notin C /\ k[<<batch, p>>] = wk[<<batch, p>>],
         serial' /\ ~closed' =>
           openPorts = {} \/ C = Paths \/ \E w \in openPorts : C = {w[2]}
  PROVE  PoolInv'
<1>0. TypeOK /\ NoOrphanItem /\ RunningWithinParallelism /\ SerialOK
      /\ ResultFromOwnBatch
  BY DEF PoolInv
<1>1. TypeOK'
  <2>1. /\ DOMAIN isolates' = Paths /\ \A p \in Paths : isolates'[p] \in RefsFor(p)
        /\ DOMAIN ports' = Paths /\ \A p \in Paths : ports'[p] \in RefsFor(p)
        /\ openPorts' \subseteq Workers /\ wk' \in [Workers -> WorkerStates]
    BY <1>0, CleanupPointwise
  <2>2. \A p \in Paths : by'[p] # NoRef => status'[p] \in {"success", "failure"}
    BY <1>0 DEF TypeOK
  <2>3. parallelism' \in Parallelisms \cup {1} /\ batch' \in 0..MaxBatches
        /\ DOMAIN by' = Paths /\ (\A p \in Paths : by'[p] \in RefsFor(p))
        /\ (isRunning' => batch' # 0)
        /\ spawn' \in [Workers -> {"none", "pending", "resolved"}]
    BY <1>0 DEF TypeOK
  <2>4. QED
    BY <2>1, <2>2, <2>3 DEF TypeOK, RefsFor
<1>2. NoOrphanItem'
  <2> SUFFICES ASSUME isRunning', ~closed', NEW p \in Paths, status'[p] = "running"
               PROVE  /\ ports'[p] = <<batch, p>> /\ <<batch, p>> \in openPorts'
                      /\ wk'[<<batch, p>>] \in {"starting", "up", "succeeded", "errored"}
    BY DEF NoOrphanItem, RunningItems, Sent
  <2>1. /\ status[p] = "running" /\ isRunning /\ ~closed
        /\ p \notin C /\ k[<<batch, p>>] = wk[<<batch, p>>]
    OBVIOUS
  <2>2. /\ ports[p] = <<batch, p>> /\ <<batch, p>> \in openPorts
        /\ wk[<<batch, p>>] \in {"starting", "up", "succeeded", "errored"}
    BY <1>0, <2>1 DEF NoOrphanItem, RunningItems, Sent
  <2>3. <<batch, p>> \in Workers
    BY <1>0, <2>2 DEF TypeOK
  <2>4. Survives(C, k, p)
    BY <1>0, <2>1, <2>2, <2>3, SurvivesCleanup
  <2>5. QED
    BY <2>1, <2>2, <2>4 DEF Survives
<1>3. RunningWithinParallelism'
  BY <1>0 DEF RunningWithinParallelism, RunningItems
<1>4. SerialOK'
  <2> SUFFICES ASSUME serial', ~closed' PROVE SerialOK'
    BY DEF SerialOK
  <2>1. serial /\ ~closed /\ parallelism' = 1
    BY <1>0 DEF SerialOK
  <2>2. openPorts' = {} /\ \A p \in Paths : ports'[p] = NoRef
    BY <1>0, <2>1, SerialCleanup
  <2>3. QED
    BY <2>1, <2>2 DEF SerialOK
<1>5. ResultFromOwnBatch'
  BY <1>0 DEF ResultFromOwnBatch
<1>6. QED
  BY <1>1, <1>2, <1>3, <1>4, <1>5 DEF PoolInv

-----------------------------------------------------------------------------
LEMMA StartBatchStep ==
  ASSUME PoolInv, NEW limit \in Parallelisms, StartBatch(limit)
  PROVE  PoolInv'
<1>0. TypeOK /\ NoOrphanItem /\ SerialOK
  BY DEF PoolInv
<1>1. /\ ~closed /\ closed' = closed /\ isRunning = FALSE
      /\ batch < MaxBatches /\ batch' = batch + 1 /\ parallelism' = limit
      /\ serial' = (serial /\ limit = 1)
      /\ by' = [p \in Paths |-> NoRef]
  BY <1>0 DEF StartBatch, TypeOK
<1>2. PICK st : /\ st = [p \in Paths |-> IF p \in Present THEN "pending" ELSE "absent"]
                /\ StartNextWorkers({}, st, wk)
  BY DEF StartBatch
<1>3. st \in [Paths -> Statuses] /\ \A p \in Paths : st[p] # "running"
  BY <1>2 DEF Statuses
<1>4. batch' \in 1..MaxBatches
  BY <1>0, <1>1, ConstAssumption DEF TypeOK
<1>5. KeptHistory(st)
  BY <1>1 DEF KeptHistory, RefsFor
<1>6. KeptItems({}, st, wk)
  BY <1>3 DEF KeptItems
<1>7. NoPortLeft({})
  <2> SUFFICES ASSUME serial' PROVE NoPortLeft({})
    BY DEF NoPortLeft
  <2>1. serial /\ limit = 1
    BY <1>1
  <2>2. openPorts = {}
    BY <1>0, <1>1, <2>1 DEF SerialOK
  <2>3. OpenWithout({}) = {} /\ \A p \in Paths : PortsWithout({})[p] = NoRef
    BY <1>0, <1>1, <2>1, <2>2, SerialCleanup
  <2>4. QED
    BY <1>1, <2>1, <2>3 DEF NoPortLeft
<1>8. Cardinality({p \in Paths : st[p] = "running"}) <= parallelism'
  <2>1. {p \in Paths : st[p] = "running"} = {}
    BY <1>3
  <2>2. Cardinality({p \in Paths : st[p] = "running"}) = 0
    BY <2>1, FS_EmptySet
  <2>3. QED
    BY <2>2, <1>1, ConstAssumption
<1>9. wk \in [Workers -> WorkerStates] /\ serial' \in BOOLEAN
      /\ parallelism' \in Parallelisms \cup {1}
  BY <1>0, <1>1 DEF TypeOK
<1>10. TypeOK' /\ NoOrphanItem' /\ RunningWithinParallelism' /\ SerialOK'
  BY <1>0, <1>1, <1>2, <1>3, <1>4, <1>5, <1>6, <1>7, <1>8, <1>9, StartNextKeeps
<1>11. ResultFromOwnBatch'
  BY <1>1 DEF ResultFromOwnBatch
<1>12. QED
  BY <1>10, <1>11 DEF PoolInv

\* A result, or the failure of a spawn, is handled; k has changed nothing but where
\* the worker itself is.
LEMMA WorkerFinishedStep ==
  ASSUME PoolInv, NEW w \in Workers, NEW success \in BOOLEAN,
         NEW k \in [Workers -> WorkerStates],
         \A v \in Workers : v # w => k[v] = wk[v],
         WorkerFinished(w, success, k), closed' = closed, serial' \in BOOLEAN,
         serial' => serial /\ w \in openPorts
  PROVE  PoolInv'
<1>0. TypeOK /\ NoOrphanItem /\ RunningWithinParallelism /\ SerialOK
      /\ ResultFromOwnBatch
  BY DEF PoolInv
<1> DEFINE p == w[2]
<1>a. p \in Paths /\ w # NoRef /\ w = <<w[1], p>> /\ w[1] \in 1..MaxBatches
  BY WorkerNames
<1>b. /\ batch \in 0..MaxBatches /\ closed \in BOOLEAN /\ isRunning \in BOOLEAN
      /\ status \in [Paths -> Statuses] /\ ui \in {"idle", "running", "finished"}
      /\ isRunning <=> ui = "running"
      /\ parallelism \in Parallelisms \cup {1} /\ DOMAIN by = Paths
      /\ \A q \in Paths : /\ by[q] \in RefsFor(q)
                          /\ by[q] # NoRef => status[q] \in {"success", "failure"}
  BY <1>0 DEF TypeOK
\* The worker of another path's item is where it was.
<1>c. \A q \in Paths : q # p /\ <<batch, q>> \in Workers => k[<<batch, q>>] = wk[<<batch, q>>]
  BY <1>a
<1>1. CASE closed
  <2>1. /\ wk' = k
        /\ UNCHANGED <<ui, status, isRunning, parallelism, isolates, ports, batch,
                       by, openPorts, spawn>>
    BY <1>1 DEF WorkerFinished
  <2>2. TypeOK'
    BY <1>0, <2>1 DEF TypeOK, RefsFor
  <2>3. NoOrphanItem' /\ SerialOK'
    BY <1>1 DEF NoOrphanItem, SerialOK
  <2>4. RunningWithinParallelism' /\ ResultFromOwnBatch'
    BY <1>0, <2>1 DEF RunningWithinParallelism, RunningItems, ResultFromOwnBatch
  <2>5. QED
    BY <2>2, <2>3, <2>4 DEF PoolInv
<1>2. CASE ~closed /\ isRunning /\ UpdatesList(p)
  <2>1. /\ parallelism' = parallelism /\ batch' = batch
        /\ by' = Settled(p, w)
        /\ StartNextWorkers({p}, [status EXCEPT ![p] = IF success THEN "success"
                                                   ELSE "failure"], k)
    BY <1>2 DEF WorkerFinished
  <2>2. PICK st : /\ st = [status EXCEPT ![p] = IF success THEN "success" ELSE "failure"]
                  /\ StartNextWorkers({p}, st, k)
    BY <2>1
  <2>3. /\ st \in [Paths -> Statuses] /\ st[p] \in {"success", "failure"}
        /\ \A q \in Paths : q # p => st[q] = status[q]
    BY <2>2, <1>a, <1>b DEF Statuses
  <2>4. KeptHistory(st)
    <3>1. CASE serial'
      <4>1. by' = [by EXCEPT ![p] = w]
        BY <2>1, <3>1 DEF Settled
      <4>2. by'[p] = w /\ \A q \in Paths : q # p => by'[q] = by[q]
        BY <4>1, <1>a, <1>b
      <4>3. DOMAIN by' = Paths
        BY <4>1, <1>b
      <4>4. w \in RefsFor(p)
        BY DEF RefsFor
      <4>5. QED
        BY <4>2, <4>3, <4>4, <1>b, <2>3 DEF KeptHistory
    <3>2. CASE ~serial'
      BY <2>1, <3>2 DEF Settled, KeptHistory, RefsFor
    <3>3. QED
      BY <3>1, <3>2
  <2>5. \A q \in Paths : st[q] = "running" => q # p /\ status[q] = "running"
    BY <2>3
  <2>6. KeptItems({p}, st, k)
    <3>1. \A q \in Paths : st[q] = "running" => <<batch, q>> \in Workers
      BY <2>5, <1>0, <1>2 DEF NoOrphanItem, RunningItems, TypeOK
    <3>2. QED
      BY <3>1, <2>1, <2>5, <1>2, <1>c DEF KeptItems
  <2>7. NoPortLeft({p})
    <3> SUFFICES ASSUME serial' PROVE NoPortLeft({p})
      BY DEF NoPortLeft
    <3>1. OpenWithout({p}) = {} /\ \A q \in Paths : PortsWithout({p})[q] = NoRef
      BY <1>0, <1>2, <1>a, SerialCleanup
    <3>2. parallelism' = 1
      BY <1>0, <1>2, <2>1 DEF SerialOK
    <3>3. QED
      BY <3>1, <3>2 DEF NoPortLeft
  <2>8. Cardinality({q \in Paths : st[q] = "running"}) <= parallelism'
    <3> DEFINE R == {q \in Paths : st[q] = "running"}
    <3>1. R \in SUBSET RunningItems /\ IsFiniteSet(RunningItems)
      BY <2>5, ConstAssumption, FS_Subset, RunningItems \in SUBSET Paths
      DEF ConstAssumption, RunningItems
    <3>2. /\ Cardinality(R) <= Cardinality(RunningItems)
          /\ Cardinality(R) \in Nat /\ Cardinality(RunningItems) \in Nat
      BY <3>1, FS_Subset, FS_CardinalityType
    <3>3. Cardinality(RunningItems) <= parallelism' /\ parallelism' \in Nat
      BY <1>0, <1>2, <1>b, <2>1, ConstAssumption
      DEF RunningWithinParallelism, ConstAssumption
    <3> HIDE DEF R
    <3>4. Cardinality(R) <= parallelism'
      BY <3>2, <3>3
    <3>5. QED
      BY <3>4 DEF R
  <2>9. batch' \in 1..MaxBatches
    BY <1>0, <1>2, <2>1, ConstAssumption DEF TypeOK
  <2>10. TypeOK' /\ NoOrphanItem' /\ RunningWithinParallelism' /\ SerialOK'
    <3>1. parallelism' \in Parallelisms \cup {1} /\ {p} \subseteq Paths /\ ~closed
      BY <2>1, <1>a, <1>b, <1>2
    <3>2. QED
      BY <3>1, <1>0, <2>2, <2>3, <2>4, <2>6, <2>7, <2>8, <2>9, StartNextKeeps
  <2>11. ResultFromOwnBatch'
    <3> SUFFICES ASSUME serial', NEW q \in Paths, by'[q] # NoRef
                 PROVE  by'[q] = <<batch', q>>
      BY DEF ResultFromOwnBatch
    <3>1. by' = [by EXCEPT ![p] = w]
      BY <2>1 DEF Settled
    <3>2. w = <<batch, p>>
      BY <1>0, <1>2, <1>a DEF SerialOK
    <3>3. by'[q] = IF q = p THEN w ELSE by[q]
      BY <3>1, <1>b
    <3>4. QED
      BY <3>2, <3>3, <2>1, <1>0 DEF ResultFromOwnBatch
  <2>12. QED
    BY <2>10, <2>11 DEF PoolInv
<1>3. CASE ~closed /\ ~(isRunning /\ UpdatesList(p))
  <2>1. /\ isolates' = IsolatesWithout({p}) /\ ports' = PortsWithout({p})
        /\ openPorts' = OpenWithout({p}) /\ wk' = KilledIn({p}, k)
        /\ UNCHANGED <<ui, status, isRunning, parallelism, batch, by, spawn>>
    BY <1>3 DEF WorkerFinished
  <2>2. isRunning => status[p] # "running"
    BY <1>3 DEF UpdatesList
  <2>3. isRunning' /\ ~closed' =>
          \A q \in Paths : status[q] = "running" =>
            q \notin {p} /\ k[<<batch, q>>] = wk[<<batch, q>>]
    <3> SUFFICES ASSUME isRunning, NEW q \in Paths, status[q] = "running"
                 PROVE  q # p /\ k[<<batch, q>>] = wk[<<batch, q>>]
      BY <2>1
    <3>1. q # p
      BY <2>2
    <3>2. <<batch, q>> \in Workers
      BY <1>0, <1>3 DEF NoOrphanItem, RunningItems, TypeOK
    <3>3. QED
      BY <3>1, <3>2, <1>c
  <2>4. QED
    BY <1>a, <1>b, <2>1, <2>3, CleanupKeeps
<1>4. QED
  BY <1>1, <1>2, <1>3

-----------------------------------------------------------------------------
LEMMA InitInv == Init => PoolInv
<1> SUFFICES ASSUME Init PROVE PoolInv
  OBVIOUS
<1>1. TypeOK
  <2>1. status \in [Paths -> Statuses]
    BY DEF Init, Statuses
  <2>2. wk \in [Workers -> WorkerStates]
    BY DEF Init, WorkerStates
  <2>3. spawn \in [Workers -> {"none", "pending", "resolved"}]
    BY DEF Init
  <2>4. \A p \in Paths : /\ isolates[p] = NoRef /\ ports[p] = NoRef /\ by[p] = NoRef
                         /\ NoRef \in RefsFor(p)
    BY DEF Init, RefsFor
  <2>5. /\ DOMAIN isolates = Paths /\ DOMAIN ports = Paths /\ DOMAIN by = Paths
        /\ openPorts \subseteq Workers
    BY DEF Init
  <2>6. /\ ui \in {"idle", "running", "finished"}
        /\ isRunning \in BOOLEAN /\ (isRunning <=> ui = "running")
        /\ serial \in BOOLEAN /\ closed \in BOOLEAN
        /\ (isRunning => batch # 0)
    BY DEF Init
  <2>7. batch \in 0..MaxBatches /\ parallelism \in Parallelisms \cup {1}
    BY ConstAssumption DEF Init, ConstAssumption
  <2>8. QED
    BY <2>1, <2>2, <2>3, <2>4, <2>5, <2>6, <2>7 DEF TypeOK
<1>2. NoOrphanItem /\ RunningWithinParallelism
  BY DEF Init, NoOrphanItem, RunningWithinParallelism
<1>3. SerialOK /\ ResultFromOwnBatch
  BY DEF Init, SerialOK, ResultFromOwnBatch
<1>4. QED
  BY <1>1, <1>2, <1>3 DEF PoolInv

\* The list is only edited between batches.
LEMMA ListStep ==
  ASSUME PoolInv,
         \/ \E S \in SUBSET Paths : AddFiles(S)
         \/ \E S \in SUBSET Paths : RemoveFiles(S)
  PROVE  PoolInv'
<1>0. TypeOK /\ SerialOK /\ ResultFromOwnBatch
  BY DEF PoolInv
<1>1. /\ ~isRunning /\ ui' = "idle"
      /\ status' \in [Paths -> Statuses]
      /\ DOMAIN by' = Paths
      /\ \A p \in Paths :
           \/ by'[p] = NoRef
           \/ by'[p] = by[p] /\ (by[p] # NoRef => status'[p] = status[p])
      /\ UNCHANGED <<isRunning, parallelism, isolates, ports, batch, closed, serial,
                     openPorts, spawn, wk>>
  <2>1. CASE \E S \in SUBSET Paths : AddFiles(S)
    <3>1. PICK S \in SUBSET Paths : AddFiles(S)
      BY <2>1
    <3>2. status' = [p \in Paths |-> KeptOrNew(S, p)] /\ by' = by
      BY <3>1 DEF AddFiles
    <3>3. \A p \in Paths : KeptOrNew(S, p) \in Statuses
                          /\ (by[p] # NoRef => KeptOrNew(S, p) = status[p])
      BY <1>0 DEF KeptOrNew, TypeOK, Statuses
    <3>4. status' \in [Paths -> Statuses] /\ DOMAIN by' = Paths
      BY <1>0, <3>2, <3>3 DEF TypeOK
    <3>5. QED
      BY <3>1, <3>2, <3>3, <3>4 DEF AddFiles
  <2>2. CASE \E S \in SUBSET Paths : RemoveFiles(S)
    <3>1. PICK S \in SUBSET Paths : RemoveFiles(S)
      BY <2>2
    <3>2. /\ status' = [p \in Paths |-> IF p \in S THEN "absent" ELSE status[p]]
          /\ by' = [p \in Paths |-> IF p \in S THEN NoRef ELSE by[p]]
      BY <3>1 DEF RemoveFiles
    <3>3. status' \in [Paths -> Statuses] /\ DOMAIN by' = Paths
      BY <1>0, <3>2 DEF TypeOK, Statuses
    <3>4. \A p \in Paths :
            \/ by'[p] = NoRef
            \/ by'[p] = by[p] /\ (by[p] # NoRef => status'[p] = status[p])
      BY <3>2
    <3>5. QED
      BY <3>1, <3>3, <3>4 DEF RemoveFiles
  <2>3. QED
    BY <2>1, <2>2
<1>2. TypeOK'
  <2>1. \A p \in Paths : /\ by'[p] \in RefsFor(p)
                        /\ by'[p] # NoRef => status'[p] \in {"success", "failure"}
    BY <1>0, <1>1 DEF TypeOK, RefsFor
  <2>2. isRunning' <=> ui' = "running"
    BY <1>1
  <2>3. QED
    BY <1>0, <1>1, <2>1, <2>2 DEF TypeOK, RefsFor
<1>3. NoOrphanItem' /\ RunningWithinParallelism'
  BY <1>1 DEF NoOrphanItem, RunningWithinParallelism
<1>4. SerialOK'
  BY <1>0, <1>1 DEF SerialOK
<1>5. ResultFromOwnBatch'
  BY <1>0, <1>1 DEF ResultFromOwnBatch
<1>6. QED
  BY <1>2, <1>3, <1>4, <1>5 DEF PoolInv

\* _onCancelBatch and close().
LEMMA CleanupAllStep ==
  ASSUME PoolInv, CancelBatch \/ Close
  PROVE  PoolInv'
<1>0. TypeOK
  BY DEF PoolInv
<1>1. wk \in [Workers -> WorkerStates] /\ serial \in BOOLEAN
  BY <1>0 DEF TypeOK
<1>2. CASE CancelBatch
  <2>1. /\ isolates' = IsolatesWithout(Paths) /\ ports' = PortsWithout(Paths)
        /\ openPorts' = OpenWithout(Paths) /\ wk' = KilledIn(Paths, wk)
        /\ isRunning' = FALSE /\ ui' = "idle"
        /\ UNCHANGED <<parallelism, batch, closed, by, serial, spawn>>
    BY <1>2 DEF CancelBatch
  <2>2. status' = [p \in Paths |-> IF status[p] = "running" THEN "failure"
                                   ELSE status[p]]
    BY <1>2 DEF CancelBatch
  <2>3. /\ status' \in [Paths -> Statuses]
        /\ \A p \in Paths : status[p] \in {"success", "failure"} =>
                             status'[p] = status[p]
    BY <1>0, <2>2 DEF TypeOK, Statuses
  <2>4. closed' \in BOOLEAN
    BY <1>0, <2>1 DEF TypeOK
  <2>5. QED
    BY <1>1, <2>1, <2>3, <2>4, CleanupKeeps
<1>3. CASE Close
  <2>1. /\ isolates' = IsolatesWithout(Paths) /\ ports' = PortsWithout(Paths)
        /\ openPorts' = OpenWithout(Paths) /\ wk' = KilledIn(Paths, wk)
        /\ closed' = TRUE
        /\ UNCHANGED <<ui, status, isRunning, parallelism, batch, by, serial, spawn>>
    BY <1>3 DEF Close
  <2>2. /\ ui \in {"idle", "running", "finished"} /\ isRunning \in BOOLEAN
        /\ (isRunning <=> ui = "running") /\ status \in [Paths -> Statuses]
    BY <1>0 DEF TypeOK
  <2>3. QED
    BY <1>1, <2>1, <2>2, CleanupKeeps
<1>4. QED
  BY <1>2, <1>3

LEMMA ResultArrivesStep ==
  ASSUME PoolInv, NEW w \in Workers, ResultArrives(w)
  PROVE  PoolInv'
<1>1. PICK k : /\ k = [wk EXCEPT ![w] = "ended"]
               /\ WorkerFinished(w, wk[w] = "succeeded", k)
  BY DEF ResultArrives
<1>2. PICK success \in BOOLEAN : success = (wk[w] = "succeeded")
  OBVIOUS
<1>3. WorkerFinished(w, success, k)
  BY <1>1, <1>2
<1>4. k \in [Workers -> WorkerStates] /\ \A v \in Workers : v # w => k[v] = wk[v]
  BY <1>1 DEF PoolInv, TypeOK, WorkerStates
<1>5. closed' = closed /\ serial' = serial /\ w \in openPorts /\ serial' \in BOOLEAN
  BY DEF ResultArrives, PoolInv, TypeOK
<1>6. QED
  BY <1>3, <1>4, <1>5, WorkerFinishedStep

LEMMA SpawnFailsStep ==
  ASSUME PoolInv, NEW w \in Workers, SpawnFails(w)
  PROVE  PoolInv'
<1>1. PICK k : /\ k = [wk EXCEPT ![w] = "failed"]
               /\ WorkerFinished(w, FALSE, k)
  BY DEF SpawnFails
<1>2. k \in [Workers -> WorkerStates] /\ \A v \in Workers : v # w => k[v] = wk[v]
  BY <1>1 DEF PoolInv, TypeOK, WorkerStates
<1>3. closed' = closed /\ serial' = FALSE
  BY DEF SpawnFails
<1>4. QED
  BY <1>1, <1>2, <1>3, WorkerFinishedStep

\* The steps of the runtime and of an isolate leave every item its worker.
LEMMA WorkerStep ==
  ASSUME PoolInv, NEW w \in Workers,
         SpawnResolves(w) \/ IsolateUp(w) \/ \E success \in BOOLEAN : WorkerSend(w, success)
  PROVE  PoolInv'
<1>0. TypeOK /\ NoOrphanItem /\ RunningWithinParallelism /\ SerialOK
      /\ ResultFromOwnBatch
  BY DEF PoolInv
<1>1. /\ UNCHANGED <<ui, status, isRunning, parallelism, ports, batch, closed, by,
                     serial, openPorts>>
      /\ isolates' = isolates \/ isolates' = [isolates EXCEPT ![w[2]] = w]
      /\ spawn' \in [Workers -> {"none", "pending", "resolved"}]
      /\ wk' \in [Workers -> WorkerStates]
      /\ \A v \in Workers :
           \/ wk'[v] = wk[v]
           \/ wk[v] = "starting" /\ wk'[v] = "up"
           \/ wk[v] = "up" /\ wk'[v] \in {"succeeded", "errored"}
           \/ wk[v] = "up" /\ v \notin openPorts
  <2>1. CASE SpawnResolves(w)
    BY <2>1, <1>0 DEF SpawnResolves, TypeOK
  <2>2. CASE IsolateUp(w)
    BY <2>2, <1>0 DEF IsolateUp, TypeOK, WorkerStates, blocVars
  <2>3. CASE \E success \in BOOLEAN : WorkerSend(w, success)
    <3>1. PICK s \in {"ended", "succeeded", "errored"} :
            /\ wk[w] = "up" /\ wk' = [wk EXCEPT ![w] = s]
            /\ s = "ended" => w \notin openPorts
            /\ UNCHANGED <<blocVars, openPorts, spawn>>
      BY <2>3 DEF WorkerSend
    <3>2. QED
      BY <3>1, <1>0 DEF TypeOK, WorkerStates, blocVars
  <2>4. QED
    BY <2>1, <2>2, <2>3
<1>2. TypeOK'
  <2>1. DOMAIN isolates' = Paths /\ \A p \in Paths : isolates'[p] \in RefsFor(p)
    BY <1>0, <1>1, WorkerNames DEF TypeOK, RefsFor
  <2>2. QED
    BY <1>0, <1>1, <2>1 DEF TypeOK, RefsFor
<1>3. NoOrphanItem'
  <2> SUFFICES ASSUME isRunning, ~closed, NEW p \in Paths, status[p] = "running"
               PROVE  /\ ports'[p] = <<batch', p>> /\ <<batch', p>> \in openPorts'
                      /\ wk'[<<batch', p>>] \in {"starting", "up", "succeeded", "errored"}
    BY <1>1 DEF NoOrphanItem, RunningItems, Sent
  <2>1. /\ ports[p] = <<batch, p>> /\ <<batch, p>> \in openPorts
        /\ wk[<<batch, p>>] \in {"starting", "up", "succeeded", "errored"}
    BY <1>0 DEF NoOrphanItem, RunningItems, Sent
  <2>2. <<batch, p>> \in Workers
    BY <1>0, <2>1 DEF TypeOK
  <2>3. wk'[<<batch, p>>] \in {"starting", "up", "succeeded", "errored"}
    BY <1>1, <2>1, <2>2
  <2>4. QED
    BY <1>1, <2>1, <2>3
<1>4. RunningWithinParallelism' /\ SerialOK' /\ ResultFromOwnBatch'
  BY <1>0, <1>1
  DEF RunningWithinParallelism, RunningItems, SerialOK, ResultFromOwnBatch
<1>5. QED
  BY <1>2, <1>3, <1>4 DEF PoolInv

LEMMA NextInv == PoolInv /\ [Next]_vars => PoolInv'
<1> SUFFICES ASSUME PoolInv, [Next]_vars PROVE PoolInv'
  OBVIOUS
<1>1. CASE \/ \E S \in SUBSET Paths \ {{}} : AddFiles(S)
           \/ \E S \in {{p} : p \in Paths} \cup {Paths} : RemoveFiles(S)
  BY <1>1, ListStep
<1>2. CASE \E limit \in Parallelisms : StartBatch(limit)
  BY <1>2, StartBatchStep
<1>3. CASE CancelBatch \/ Close
  BY <1>3, CleanupAllStep
<1>4. ASSUME NEW w \in Workers,
             \/ ResultArrives(w)
             \/ SpawnFails(w)
             \/ SpawnResolves(w)
             \/ IsolateUp(w)
             \/ \E success \in BOOLEAN : WorkerSend(w, success)
      PROVE  PoolInv'
  BY <1>4, ResultArrivesStep, SpawnFailsStep, WorkerStep
<1>5. CASE UNCHANGED vars
  BY <1>5 DEF vars, blocVars, PoolInv, TypeOK, RefsFor, NoOrphanItem, RunningItems, Sent,
              RunningWithinParallelism, SerialOK, ResultFromOwnBatch
<1>6. QED
  BY <1>1, <1>2, <1>3, <1>4, <1>5 DEF Next

-----------------------------------------------------------------------------
\* BatchBloc keeps the invariant, for any list of files, any number of batches and
\* any setting.
THEOREM PoolInvariance == Spec => []PoolInv
<1>1. Init => PoolInv
  BY InitInv
<1>2. PoolInv /\ [Next]_vars => PoolInv'
  BY NextInv
<1>3. QED
  BY <1>1, <1>2, PTL DEF Spec

\* Every variable keeps its type, and a settled item its result.
THEOREM Pool_TypeCorrect == Spec => []TypeOK
<1>1. PoolInv => TypeOK
  BY DEF PoolInv
<1>2. QED
  BY <1>1, PoolInvariance, PTL

\* However cancels, stale results, failed spawns and batches declared finished too
\* early follow each other, an item shown as running has a live worker of this
\* very batch whose result will be heard.
THEOREM Pool_NoOrphanItem == Spec => []NoOrphanItem
<1>1. PoolInv => NoOrphanItem
  BY DEF PoolInv
<1>2. QED
  BY <1>1, PoolInvariance, PTL

\* Ports left by an earlier batch never let a batch run more items than its setting.
THEOREM Pool_RunningWithinParallelism == Spec => []RunningWithinParallelism
<1>1. PoolInv => RunningWithinParallelism
  BY DEF PoolInv
<1>2. QED
  BY <1>1, PoolInvariance, PTL

\* With one worker at a time and no failed spawn, a result is never that of a
\* cancelled batch.
THEOREM Pool_ResultFromOwnBatch == Spec => []ResultFromOwnBatch
<1>1. PoolInv => ResultFromOwnBatch
  BY DEF PoolInv
<1>2. QED
  BY <1>1, PoolInvariance, PTL
=============================================================================
