-------------------------- MODULE NszPipelineProofs -------------------------
(***************************************************************************)
(* Proofs that NszPipeline keeps its inductive invariant, and what follows *)
(* from it for any archive and any number of slots.                        *)
(***************************************************************************)
EXTENDS NszPipeline, FiniteSetTheorems, SequenceTheorems, TLAPS

\* The NCAs of an archive are finitely many, and so are those with a permit.
LEMMA NcasFinite == IsFiniteSet(Ncas)
<1>1. IsFiniteSet(1..NumEntries)
  BY PipelineAssumption, FS_Interval
<1>2. QED
  BY <1>1, PipelineAssumption, FS_Subset

\* The number of NCAs with a permit is a number.
LEMMA HoldersCount == IsFiniteSet(Holders) /\ Cardinality(Holders) \in Nat
<1>1. Holders \in SUBSET Ncas
  BY DEF Holders
<1>2. IsFiniteSet(Holders)
  BY <1>1, NcasFinite, FS_Subset
<1>3. QED
  BY <1>2, FS_CardinalityType

\* What the loop leaves behind when it goes on from entry k.
LEMMA GoOnPointwise ==
  ASSUME TypeOK, NEW k \in 1..NumEntries + 1, NEW done \in SUBSET Entries,
         GoOn(k, done),
         \A e \in Entries : e < k => \/ e \in members \cup done
                                     \/ e \in Ncas /\ parallel
  PROVE  /\ next' \in k..NumEntries + 1
         /\ members' \subseteq Entries /\ members \cup done \subseteq members'
         /\ MembersOK'
         /\ \A i \in Ncas : i >= k <=> i >= next'
         /\ pc' \in {"loop", "wait", "assemble"}
         /\ pc' = "loop" => next' \in Ncas
         /\ pc' # "loop" => next' = NumEntries + 1
         /\ pc' = "assemble" => ~parallel \/ Ncas = {}
         /\ parallel' = parallel /\ threw' = threw /\ verdict' = verdict
<1> USE PipelineAssumption DEF Entries
<1>1. PICK n \in k..NumEntries + 1 :
        /\ n \in Ncas \/ n = NumEntries + 1
        /\ \A i \in k..n - 1 : i \notin Ncas
        /\ next' = n
        /\ members' = members \cup done \cup (k..n - 1)
        /\ pc' = IF n \in Ncas THEN "loop"
                 ELSE IF parallel /\ Ncas # {} THEN "wait" ELSE "assemble"
        /\ UNCHANGED <<parallel, threw, verdict>>
  BY DEF GoOn
<1>2. n \in Nat /\ k \in Nat /\ NumEntries \in Nat
  OBVIOUS
<1>3. members' \subseteq Entries /\ members \cup done \subseteq members'
  BY <1>1, <1>2 DEF TypeOK
<1>4. MembersOK'
  <2> SUFFICES ASSUME NEW e \in Entries, e < next'
               PROVE  e \in members' \/ (e \in Ncas /\ parallel')
    BY DEF MembersOK
  <2>1. CASE e < k
    BY <2>1, <1>1
  <2>2. CASE e >= k
    BY <2>2, <1>1, <1>2
  <2>3. QED
    BY <2>1, <2>2, <1>2
<1>5. \A i \in Ncas : i >= k <=> i >= next'
  <2> SUFFICES ASSUME NEW i \in Ncas PROVE i >= k <=> i >= n
    BY <1>1
  <2>1. i \in Nat
    OBVIOUS
  <2>2. ~(i \in k..n - 1)
    BY <1>1
  <2>3. QED
    BY <2>1, <2>2, <1>2
<1>6. n \notin Ncas => n = NumEntries + 1
  BY <1>1
<1>7. /\ pc' \in {"loop", "wait", "assemble"}
      /\ pc' = "loop" => n \in Ncas
      /\ pc' # "loop" => n \notin Ncas
      /\ pc' = "assemble" => ~parallel \/ Ncas = {}
  BY <1>1
<1>8. QED
  BY <1>1, <1>3, <1>4, <1>5, <1>6, <1>7

\* What a release does to the jobs and to the semaphore.
LEMMA ReleaseKeeps ==
  ASSUME TypeOK, SemaphoreOK, NEW i \in Ncas, job[i] = "running",
         NEW end \in {"done", "error"}, Release(i, end)
  PROVE  /\ job' \in [Ncas -> {"none", "queued", "running", "done", "error"}]
         /\ permits' \in 0..slots /\ waiters' \in Seq(Ncas) /\ slots' = slots
         /\ job'[i] = end
         /\ waiters # <<>> => /\ Head(waiters) \in Ncas
                              /\ job[Head(waiters)] = "queued"
                              /\ job'[Head(waiters)] = "running"
         /\ \A j \in Ncas : j # i /\ (waiters = <<>> \/ j # Head(waiters)) =>
                              job'[j] = job[j]
         /\ SemaphoreOK'
<1>0. /\ job \in [Ncas -> {"none", "queued", "running", "done", "error"}]
      /\ slots \in Nat \ {0} /\ permits \in 0..slots /\ waiters \in Seq(Ncas)
  BY DEF TypeOK
<1>1. /\ permits + Cardinality(Holders) = slots
      /\ waiters # <<>> => permits = 0
      /\ \A m \in 1..Len(waiters) : job[waiters[m]] = "queued"
      /\ \A m, n \in 1..Len(waiters) : m # n => waiters[m] # waiters[n]
  BY DEF SemaphoreOK
<1>2. i \in Holders
  BY DEF Holders
<1>3. /\ IsFiniteSet(Holders) /\ Cardinality(Holders) \in Nat
      /\ IsFiniteSet(Holders \ {i})
      /\ Cardinality(Holders \ {i}) = Cardinality(Holders) - 1
      /\ Cardinality(Holders \ {i}) \in Nat
  BY <1>2, HoldersCount, FS_RemoveElement, FS_CardinalityType
<1>4. CASE waiters = <<>>
  <2>1. /\ permits' = permits + 1 /\ waiters' = <<>> /\ slots' = slots
        /\ job' = [job EXCEPT ![i] = end]
    BY <1>4 DEF Release
  <2>2. Holders' = Holders \ {i}
    BY <1>0, <2>1 DEF Holders
  <2>3. permits' + Cardinality(Holders') = slots'
    BY <2>1, <2>2, <1>0, <1>1, <1>3
  <2>4. permits' \in 0..slots
    BY <2>1, <2>2, <2>3, <1>0, <1>3
  <2>5. SemaphoreOK'
    BY <2>1, <2>3 DEF SemaphoreOK
  <2>6. QED
    BY <1>0, <1>4, <2>1, <2>4, <2>5
<1>5. CASE waiters # <<>>
  <2> DEFINE h == Head(waiters)
  <2>1. /\ permits' = permits /\ waiters' = Tail(waiters) /\ slots' = slots
        /\ job' = [job EXCEPT ![i] = end, ![h] = "running"]
    BY <1>5 DEF Release
  <2>2. /\ Len(waiters) \in Nat \ {0} /\ h = waiters[1] /\ h \in Ncas
    BY <1>0, <1>5, HeadTailProperties, EmptySeq, LenProperties
  <2>3. /\ Tail(waiters) \in Seq(Ncas) /\ Len(Tail(waiters)) = Len(waiters) - 1
        /\ \A m \in 1..Len(Tail(waiters)) : Tail(waiters)[m] = waiters[m + 1]
    BY <1>0, <1>5, HeadTailProperties
  <2>4. job[h] = "queued" /\ h # i
    BY <2>2, <1>1
  <2>5. /\ job'[i] = end /\ job'[h] = "running"
        /\ \A j \in Ncas : j # i /\ j # h => job'[j] = job[j]
        /\ job' \in [Ncas -> {"none", "queued", "running", "done", "error"}]
    BY <2>1, <2>2, <2>4, <1>0
  <2> HIDE DEF h
  <2>6. Holders' = (Holders \ {i}) \cup {h}
    BY <2>2, <2>4, <2>5 DEF Holders
  <2>7. h \notin Holders \ {i}
    BY <2>4 DEF Holders
  <2>8. Cardinality(Holders') = Cardinality(Holders)
    <3>1. Cardinality((Holders \ {i}) \cup {h}) = Cardinality(Holders \ {i}) + 1
      BY <2>7, <1>3, FS_AddElement
    <3>2. QED
      BY <2>6, <3>1, <1>3
  <2>9. \A m \in 1..Len(waiters') : /\ m + 1 \in 1..Len(waiters) /\ m + 1 # 1
                                    /\ waiters'[m] = waiters[m + 1]
    BY <2>1, <2>2, <2>3
  <2>10. \A m \in 1..Len(waiters') : job'[waiters'[m]] = "queued"
    <3> SUFFICES ASSUME NEW m \in 1..Len(waiters')
                 PROVE  job'[waiters[m + 1]] = "queued"
      BY <2>9
    <3>1. job[waiters[m + 1]] = "queued" /\ waiters[m + 1] # h
      BY <2>2, <2>9, <1>1
    <3>2. waiters[m + 1] \in Ncas
      BY <2>9, <1>0
    <3>3. QED
      BY <3>1, <3>2, <2>5
  <2>11. \A m, n \in 1..Len(waiters') : m # n => waiters'[m] # waiters'[n]
    BY <2>9, <1>1
  <2>12. SemaphoreOK'
    BY <2>1, <2>8, <2>10, <2>11, <1>1, <1>5 DEF SemaphoreOK
  <2>13. QED
    BY <1>0, <1>5, <2>1, <2>2, <2>3, <2>4, <2>5, <2>12 DEF h
<1>6. QED
  BY <1>4, <1>5

\* What dispatching an NCA does to the jobs and to the semaphore.
LEMMA DispatchKeeps ==
  ASSUME TypeOK, SemaphoreOK, Dispatch, job[next] = "none"
  PROVE  /\ job' \in [Ncas -> {"none", "queued", "running", "done", "error"}]
         /\ permits' \in 0..slots /\ waiters' \in Seq(Ncas) /\ slots' = slots
         /\ \A j \in Ncas : j # next => job'[j] = job[j] /\ iso'[j] = iso[j]
         /\ \/ job'[next] = "running" /\ iso'[next] = "spawned"
            \/ job'[next] = "queued" /\ iso'[next] = iso[next]
         /\ iso' \in [Ncas -> {"none", "spawned", "writing", "wrote", "noTicket",
                              "failed"}]
         /\ SemaphoreOK'
<1>0. /\ job \in [Ncas -> {"none", "queued", "running", "done", "error"}]
      /\ iso \in [Ncas -> {"none", "spawned", "writing", "wrote", "noTicket", "failed"}]
      /\ slots \in Nat \ {0} /\ permits \in 0..slots /\ waiters \in Seq(Ncas)
      /\ next \in Ncas
  BY DEF TypeOK, Dispatch
<1>1. /\ permits + Cardinality(Holders) = slots
      /\ waiters # <<>> => permits = 0
      /\ \A m \in 1..Len(waiters) : job[waiters[m]] = "queued"
      /\ \A m, n \in 1..Len(waiters) : m # n => waiters[m] # waiters[n]
  BY DEF SemaphoreOK
<1>2. IsFiniteSet(Holders) /\ Cardinality(Holders) \in Nat
  BY HoldersCount
<1>3. CASE permits > 0
  <2>1. /\ permits' = permits - 1 /\ waiters' = waiters /\ slots' = slots
        /\ job' = [job EXCEPT ![next] = "running"]
        /\ iso' = [iso EXCEPT ![next] = "spawned"]
    BY <1>3 DEF Dispatch
  <2>2. waiters = <<>>
    BY <1>0, <1>1, <1>3
  <2>3. Holders' = Holders \cup {next} /\ next \notin Holders
    BY <1>0, <2>1 DEF Holders
  <2>4. Cardinality(Holders') = Cardinality(Holders) + 1
    BY <2>3, <1>2, FS_AddElement
  <2>5. permits' + Cardinality(Holders') = slots' /\ permits' \in 0..slots
    BY <2>1, <2>4, <1>0, <1>1, <1>2, <1>3
  <2>6. SemaphoreOK'
    BY <2>1, <2>2, <2>5 DEF SemaphoreOK
  <2>7. QED
    BY <1>0, <2>1, <2>5, <2>6
<1>4. CASE ~(permits > 0)
  <2>1. /\ permits' = permits /\ waiters' = Append(waiters, next) /\ slots' = slots
        /\ job' = [job EXCEPT ![next] = "queued"] /\ iso' = iso
    BY <1>4 DEF Dispatch
  <2>2. /\ waiters' \in Seq(Ncas) /\ Len(waiters) \in Nat
        /\ Len(waiters') = Len(waiters) + 1
        /\ \A m \in 1..Len(waiters) : waiters'[m] = waiters[m]
        /\ waiters'[Len(waiters) + 1] = next
    BY <1>0, <2>1, AppendProperties, LenProperties
  <2>3. \A m \in 1..Len(waiters) : waiters[m] # next /\ waiters[m] \in Ncas
    BY <1>0, <1>1
  <2>4. \A m \in 1..Len(waiters') : job'[waiters'[m]] = "queued"
    <3> SUFFICES ASSUME NEW m \in 1..Len(waiters')
                 PROVE  job'[waiters'[m]] = "queued"
      OBVIOUS
    <3>1. CASE m = Len(waiters) + 1
      BY <3>1, <2>1, <2>2, <1>0
    <3>2. CASE m \in 1..Len(waiters)
      BY <3>2, <2>1, <2>2, <2>3, <1>0, <1>1
    <3>3. QED
      BY <3>1, <3>2, <2>2
  <2>5. \A m, n \in 1..Len(waiters') : m # n => waiters'[m] # waiters'[n]
    <3> SUFFICES ASSUME NEW m \in 1..Len(waiters'), NEW n \in 1..Len(waiters'), m # n
                 PROVE  waiters'[m] # waiters'[n]
      OBVIOUS
    <3>1. CASE m \in 1..Len(waiters) /\ n \in 1..Len(waiters)
      BY <3>1, <2>2, <1>1
    <3>2. CASE m = Len(waiters) + 1 /\ n \in 1..Len(waiters)
      BY <3>2, <2>2, <2>3
    <3>3. CASE m \in 1..Len(waiters) /\ n = Len(waiters) + 1
      BY <3>3, <2>2, <2>3
    <3>4. QED
      BY <3>1, <3>2, <3>3, <2>2
  <2>6. Holders' = Holders
    BY <1>0, <2>1 DEF Holders
  <2>7. SemaphoreOK'
    BY <2>1, <2>4, <2>5, <2>6, <1>0, <1>1, <1>4 DEF SemaphoreOK
  <2>8. QED
    BY <1>0, <2>1, <2>2, <2>7
<1>5. QED
  BY <1>3, <1>4

-----------------------------------------------------------------------------
\* The initial state satisfies the inductive invariant.
LEMMA InitInv == Init => PipelineInv
<1> SUFFICES ASSUME Init PROVE PipelineInv
  OBVIOUS
<1> USE PipelineAssumption DEF Init, Entries
<1>1. slots \in Nat \ {0}
  BY DEF Slots
<1>2. TypeOK
  BY <1>1 DEF TypeOK
<1>3. SemaphoreOK
  <2>1. Holders = {}
    BY DEF Holders
  <2>2. Cardinality(Holders) = 0
    BY <2>1, FS_EmptySet
  <2>3. QED
    BY <1>1, <2>2 DEF SemaphoreOK
<1>4. JobsOK
  BY DEF JobsOK, Working
<1>5. MembersOK
  BY DEF MembersOK
<1>6. PhaseOK /\ DirOutlivesWriters
  BY DEF PhaseOK, DirOutlivesWriters
<1>7. QED
  BY <1>2, <1>3, <1>4, <1>5, <1>6 DEF PipelineInv

\* The semaphore is where it was when neither it nor a job changes.
LEMMA SemaphoreFrame ==
  ASSUME SemaphoreOK, UNCHANGED <<job, semVars>>
  PROVE  SemaphoreOK'
BY DEF SemaphoreOK, Holders, semVars

\* The steps of the loop.
LEMMA LoopKeeps == ASSUME PipelineInv, LoopStep PROVE PipelineInv'
<1> USE PipelineAssumption DEF Entries
<1>0. TypeOK /\ SemaphoreOK /\ JobsOK /\ MembersOK /\ PhaseOK /\ DirOutlivesWriters
  BY DEF PipelineInv
<1>1. CASE LoadTickets
  <2>1. /\ pc = "tickets" /\ next = 1 /\ threw = "no" /\ verdict = "none"
        /\ \A i \in Ncas : job[i] = "none" /\ ~Working(i)
    BY <1>0, <1>1 DEF LoadTickets, PhaseOK, JobsOK
  <2>2. /\ job' = job /\ slots' = slots /\ permits' = permits /\ waiters' = waiters
        /\ iso' = iso /\ temp' = temp /\ dir' = dir /\ output' = output
    BY <1>1 DEF LoadTickets, semVars, diskVars
  <2>3. SemaphoreOK'
    BY <1>0, <2>2, SemaphoreFrame DEF semVars
  <2>4. CASE GoOn(1, {})
    <3>1. 1 \in 1..NumEntries + 1
      OBVIOUS
    <3>2. /\ next' \in 1..NumEntries + 1
          /\ members' \subseteq Entries /\ members \subseteq members'
          /\ MembersOK'
          /\ \A i \in Ncas : i >= 1 <=> i >= next'
          /\ pc' \in {"loop", "wait", "assemble"}
          /\ pc' = "loop" => next' \in Ncas
          /\ pc' # "loop" => next' = NumEntries + 1
          /\ parallel' = parallel /\ threw' = threw /\ verdict' = verdict
      BY <1>0, <2>4, <3>1, GoOnPointwise
    <3>3. TypeOK'
      BY <1>0, <2>2, <3>2 DEF TypeOK
    <3>4. JobsOK'
      BY <1>0, <2>1, <2>2, <3>2 DEF JobsOK, Working
    <3>5. PhaseOK'
      BY <2>1, <2>2, <3>2 DEF PhaseOK
    <3>6. DirOutlivesWriters'
      BY <3>2 DEF DirOutlivesWriters
    <3>7. QED
      BY <2>3, <3>2, <3>3, <3>4, <3>5, <3>6 DEF PipelineInv
  <2>5. CASE Throw("loop")
    <3>1. /\ pc' = "cleanup" /\ threw' = "loop" /\ parallel' = parallel
          /\ next' = next /\ members' = members /\ verdict' = verdict
      BY <2>5 DEF Throw
    <3>2. TypeOK'
      BY <1>0, <2>2, <3>1 DEF TypeOK
    <3>3. JobsOK' /\ MembersOK'
      BY <1>0, <2>2, <3>1 DEF JobsOK, MembersOK, Working
    <3>4. PhaseOK' /\ DirOutlivesWriters'
      BY <1>0, <2>1, <2>2, <3>1 DEF PhaseOK, DirOutlivesWriters
    <3>5. QED
      BY <2>3, <3>2, <3>3, <3>4 DEF PipelineInv
  <2>6. QED
    BY <1>1, <2>4, <2>5 DEF LoadTickets
<1>2. CASE Dispatch
  <2>1. pc = "loop" /\ parallel /\ next \in Ncas /\ threw = "no" /\ verdict = "none"
    BY <1>0, <1>2 DEF Dispatch, TypeOK, PhaseOK
  <2>2. job[next] = "none" /\ ~Working(next)
    BY <1>0, <2>1 DEF JobsOK
  <2>3. /\ job' \in [Ncas -> {"none", "queued", "running", "done", "error"}]
        /\ permits' \in 0..slots /\ waiters' \in Seq(Ncas) /\ slots' = slots
        /\ \A j \in Ncas : j # next => job'[j] = job[j] /\ iso'[j] = iso[j]
        /\ \/ job'[next] = "running" /\ iso'[next] = "spawned"
           \/ job'[next] = "queued" /\ iso'[next] = iso[next]
        /\ iso' \in [Ncas -> {"none", "spawned", "writing", "wrote", "noTicket",
                             "failed"}]
        /\ SemaphoreOK'
    BY <1>0, <1>2, <2>2, DispatchKeeps
  <2>4. temp' = temp /\ dir' = dir /\ output' = output
    BY <1>2 DEF Dispatch, diskVars
  <2>5. next + 1 \in 1..NumEntries + 1 /\ {} \in SUBSET Entries
    BY <2>1
  <2>6. \A e \in Entries : e < next + 1 => \/ e \in members \cup {}
                                           \/ e \in Ncas /\ parallel
    <3> SUFFICES ASSUME NEW e \in Entries, e < next + 1
                 PROVE  e \in members \/ (e \in Ncas /\ parallel)
      OBVIOUS
    <3>1. CASE e = next
      BY <3>1, <2>1
    <3>2. CASE e < next
      BY <3>2, <1>0 DEF MembersOK
    <3>3. QED
      BY <3>1, <3>2, <2>1
  <2>7. GoOn(next + 1, {})
    BY <1>2 DEF Dispatch
  <2>8. /\ next' \in next + 1..NumEntries + 1
        /\ members' \subseteq Entries /\ members \subseteq members'
        /\ MembersOK'
        /\ \A i \in Ncas : i >= next + 1 <=> i >= next'
        /\ pc' \in {"loop", "wait", "assemble"}
        /\ pc' = "loop" => next' \in Ncas
        /\ pc' # "loop" => next' = NumEntries + 1
        /\ pc' = "assemble" => ~parallel \/ Ncas = {}
        /\ parallel' = parallel /\ threw' = threw /\ verdict' = verdict
    BY <1>0, <2>5, <2>6, <2>7, GoOnPointwise
  <2>9. TypeOK'
    <3>1. next' \in 1..NumEntries + 1
      BY <2>1, <2>8
    <3>2. QED
      BY <1>0, <2>3, <2>4, <2>8, <3>1 DEF TypeOK
  <2>10. JobsOK'
    <3> SUFFICES ASSUME NEW i \in Ncas
                 PROVE  /\ Working(i)' => job'[i] = "running"
                        /\ job'[i] = "none" <=> ~parallel' \/ i >= next'
                        /\ job'[i] = "done" => i \in members'
      BY DEF JobsOK
    <3>1. CASE i = next
      BY <3>1, <2>1, <2>2, <2>3, <2>8 DEF Working
    <3>2. CASE i # next
      <4>1. job'[i] = job[i] /\ iso'[i] = iso[i]
        BY <3>2, <2>3
      <4>2. i >= next <=> i >= next + 1
        BY <3>2, <2>1
      <4>3. QED
        BY <4>1, <4>2, <1>0, <2>8 DEF JobsOK, Working
    <3>3. QED
      BY <3>1, <3>2
  <2>11. PhaseOK'
    BY <2>1, <2>8 DEF PhaseOK
  <2>12. DirOutlivesWriters'
    BY <2>8 DEF DirOutlivesWriters
  <2>13. QED
    BY <2>3, <2>8, <2>9, <2>10, <2>11, <2>12 DEF PipelineInv
<1>3. CASE PackInLoop
  <2>1. pc = "loop" /\ ~parallel /\ next \in Ncas /\ threw = "no" /\ verdict = "none"
    BY <1>0, <1>3 DEF PackInLoop, TypeOK, PhaseOK
  <2>2. /\ job' = job /\ slots' = slots /\ permits' = permits /\ waiters' = waiters
        /\ iso' = iso /\ temp' = [temp EXCEPT ![next] = "whole"]
        /\ dir' = dir /\ output' = output
    BY <1>3 DEF PackInLoop, semVars
  <2>3. next + 1 \in 1..NumEntries + 1 /\ {next} \in SUBSET Entries
    BY <2>1
  <2>4. \A e \in Entries : e < next + 1 => \/ e \in members \cup {next}
                                           \/ e \in Ncas /\ parallel
    <3> SUFFICES ASSUME NEW e \in Entries, e < next + 1, e # next
                 PROVE  e \in members \/ (e \in Ncas /\ parallel)
      OBVIOUS
    <3>1. e < next
      BY <2>1
    <3>2. QED
      BY <3>1, <1>0 DEF MembersOK
  <2>5. GoOn(next + 1, {next})
    BY <1>3 DEF PackInLoop
  <2>6. /\ next' \in next + 1..NumEntries + 1
        /\ members' \subseteq Entries /\ members \subseteq members'
        /\ MembersOK'
        /\ pc' \in {"loop", "wait", "assemble"}
        /\ pc' = "loop" => next' \in Ncas
        /\ pc' # "loop" => next' = NumEntries + 1
        /\ parallel' = parallel /\ threw' = threw /\ verdict' = verdict
    BY <1>0, <2>3, <2>4, <2>5, GoOnPointwise
  <2>7. TypeOK'
    <3>1. next' \in 1..NumEntries + 1
      BY <2>1, <2>6
    <3>2. QED
      BY <1>0, <2>2, <2>6, <3>1 DEF TypeOK
  <2>8. JobsOK' /\ \A i \in Ncas : job[i] = "none"
    BY <1>0, <2>1, <2>2, <2>6 DEF JobsOK, Working
  <2>9. PhaseOK'
    BY <2>1, <2>2, <2>6, <2>8 DEF PhaseOK
  <2>10. DirOutlivesWriters' /\ SemaphoreOK'
    BY <1>0, <2>2, <2>6, SemaphoreFrame DEF DirOutlivesWriters, semVars
  <2>11. QED
    BY <2>6, <2>7, <2>8, <2>9, <2>10 DEF PipelineInv
<1>4. CASE LoopThrows
  <2>1. /\ pc' = "cleanup" /\ threw' = "loop" /\ parallel' = parallel
        /\ next' = next /\ members' = members /\ verdict' = verdict
        /\ verdict = "none"
    BY <1>0, <1>4 DEF LoopThrows, Throw, PhaseOK
  <2>2. /\ job' = job /\ slots' = slots /\ permits' = permits /\ waiters' = waiters
        /\ iso' = iso /\ dir' = dir /\ output' = output
        /\ temp' \in [Ncas -> {"none", "partial", "whole"}]
    BY <1>0, <1>4 DEF LoopThrows, semVars, TypeOK
  <2>3. TypeOK'
    BY <1>0, <2>1, <2>2 DEF TypeOK
  <2>4. JobsOK' /\ MembersOK' /\ PhaseOK' /\ DirOutlivesWriters'
    BY <1>0, <2>1, <2>2 DEF JobsOK, MembersOK, Working, PhaseOK, DirOutlivesWriters
  <2>5. SemaphoreOK'
    BY <1>0, <2>2, SemaphoreFrame DEF semVars
  <2>6. QED
    BY <2>3, <2>4, <2>5 DEF PipelineInv
<1>5. QED
  BY <1>1, <1>2, <1>3, <1>4 DEF LoopStep

\* The steps after the loop.
LEMMA EndKeeps == ASSUME PipelineInv, EndStep PROVE PipelineInv'
<1> USE PipelineAssumption DEF Entries
<1>0. TypeOK /\ SemaphoreOK /\ JobsOK /\ MembersOK /\ PhaseOK /\ DirOutlivesWriters
  BY DEF PipelineInv
<1>1. /\ job' = job /\ slots' = slots /\ permits' = permits /\ waiters' = waiters
      /\ iso' = iso /\ parallel' = parallel /\ next' = next /\ members' = members
  BY DEF EndStep, WaitReturns, BeginAssembly, EndAssembly, CleanUp, Throw, semVars
<1>2. SemaphoreOK' /\ JobsOK' /\ MembersOK'
  BY <1>0, <1>1, SemaphoreFrame DEF JobsOK, MembersOK, Working, semVars
<1>3. CASE WaitReturns
  <2>1. /\ pc = "wait" /\ threw = "no" /\ next = NumEntries + 1 /\ verdict = "none"
        /\ \A i \in Ncas : job[i] \in {"done", "error"}
        /\ \A i \in Ncas : ~Working(i)
    BY <1>0, <1>3 DEF WaitReturns, PhaseOK, JobsOK
  <2>2. /\ verdict' = verdict /\ temp' = temp /\ dir' = dir /\ output' = output
        /\ \/ pc' = "cleanup" /\ threw' = "jobs"
           \/ pc' = "assemble" /\ threw' = threw /\ ~\E i \in Ncas : job[i] = "error"
    BY <1>3 DEF WaitReturns, Throw, diskVars
  <2>3. TypeOK'
    BY <1>0, <1>1, <2>2 DEF TypeOK
  <2>4. PhaseOK' /\ DirOutlivesWriters'
    BY <1>1, <2>1, <2>2 DEF PhaseOK, DirOutlivesWriters, Working
  <2>5. QED
    BY <1>2, <2>3, <2>4 DEF PipelineInv
<1>4. CASE BeginAssembly
  <2>1. /\ pc = "assemble" /\ pc' = "assembling" /\ output' = "partial"
        /\ threw' = threw /\ verdict' = verdict /\ temp' = temp /\ dir' = dir
    BY <1>4 DEF BeginAssembly
  <2>2. TypeOK'
    BY <1>0, <1>1, <2>1 DEF TypeOK
  <2>3. PhaseOK' /\ DirOutlivesWriters'
    BY <1>0, <1>1, <2>1 DEF PhaseOK, DirOutlivesWriters
  <2>4. QED
    BY <1>2, <2>2, <2>3 DEF PipelineInv
<1>5. CASE EndAssembly
  <2>1. /\ pc = "assembling" /\ next = NumEntries + 1 /\ threw = "no"
        /\ verdict = "none"
        /\ \A i \in Ncas : job[i] \in {"none", "done"} /\ ~Working(i)
    BY <1>0, <1>5 DEF EndAssembly, PhaseOK, JobsOK
  <2>2. members = Entries
    <3>1. ASSUME NEW e \in Entries PROVE e \in members
      <4>1. e < next /\ (e \in Ncas /\ parallel => job[e] # "none")
        BY <2>1, <1>0 DEF JobsOK
      <4>2. QED
        BY <4>1, <2>1, <1>0 DEF MembersOK, JobsOK
    <3>2. QED
      BY <3>1, <1>0 DEF TypeOK
  <2>3. /\ pc' = "cleanup" /\ verdict' = verdict /\ temp' = temp /\ dir' = dir
        /\ \/ output' = "whole" /\ threw' = threw
           \/ output' = output /\ threw' = "assembly"
    BY <2>2, <1>5 DEF EndAssembly, Throw
  <2>4. TypeOK'
    BY <1>0, <1>1, <2>3 DEF TypeOK
  <2>5. PhaseOK' /\ DirOutlivesWriters'
    BY <1>1, <2>1, <2>3 DEF PhaseOK, DirOutlivesWriters, Working
  <2>6. QED
    BY <1>2, <2>4, <2>5 DEF PipelineInv
<1>6. CASE CleanUp
  <2>1. /\ pc = "cleanup" /\ pc' = "done" /\ threw' = threw /\ output' = output
        /\ dir' = FALSE /\ temp' = [i \in Ncas |-> "none"]
        /\ verdict' = IF threw = "no" THEN "success" ELSE "failure"
    BY <1>6 DEF CleanUp
  <2>2. TypeOK'
    BY <1>0, <1>1, <2>1 DEF TypeOK
  <2>3. PhaseOK' /\ DirOutlivesWriters'
    BY <1>0, <1>1, <2>1 DEF PhaseOK, DirOutlivesWriters, Working
  <2>4. QED
    BY <1>2, <2>2, <2>3 DEF PipelineInv
<1>7. QED
  BY <1>3, <1>4, <1>5, <1>6 DEF EndStep

\* The steps of a nested isolate.
LEMMA IsolateKeeps ==
  ASSUME PipelineInv, NEW i \in Ncas, IsolateStep(i)
  PROVE  PipelineInv'
<1>0. TypeOK /\ SemaphoreOK /\ JobsOK /\ MembersOK /\ PhaseOK /\ DirOutlivesWriters
  BY DEF PipelineInv
<1>1. /\ parallel' = parallel /\ pc' = pc /\ next' = next /\ members' = members
      /\ threw' = threw /\ verdict' = verdict /\ job' = job /\ slots' = slots
      /\ permits' = permits /\ waiters' = waiters /\ dir' = dir /\ output' = output
  BY DEF IsolateStep, LacksTicket, OpensTemp, WritesTemp, IsolateFails, flowVars,
         semVars, diskVars
<1>2. /\ Working(i)
      /\ iso' \in [Ncas -> {"none", "spawned", "writing", "wrote", "noTicket",
                            "failed"}]
      /\ temp' \in [Ncas -> {"none", "partial", "whole"}]
      /\ \A j \in Ncas : j # i => iso'[j] = iso[j]
  BY <1>0 DEF TypeOK, IsolateStep, LacksTicket, OpensTemp, WritesTemp, IsolateFails,
         Working, diskVars
<1>3. \A j \in Ncas : Working(j)' => Working(j)
  BY <1>2 DEF Working
<1>4. TypeOK'
  BY <1>0, <1>1, <1>2 DEF TypeOK
<1>5. SemaphoreOK'
  BY <1>0, <1>1, SemaphoreFrame DEF semVars
<1>6. JobsOK' /\ MembersOK' /\ PhaseOK' /\ DirOutlivesWriters'
  BY <1>0, <1>1, <1>3 DEF JobsOK, MembersOK, PhaseOK, DirOutlivesWriters
<1>7. QED
  BY <1>4, <1>5, <1>6 DEF PipelineInv

\* The end of a job, with the waiter it may let in.
LEMMA JobKeeps ==
  ASSUME PipelineInv, NEW i \in Ncas, JobStep(i)
  PROVE  PipelineInv'
<1>0. TypeOK /\ SemaphoreOK /\ JobsOK /\ MembersOK /\ PhaseOK /\ DirOutlivesWriters
  BY DEF PipelineInv
<1>1. /\ job[i] = "running" /\ Alive
      /\ parallel' = parallel /\ next' = next /\ threw' = threw
      /\ verdict' = verdict /\ temp' = temp /\ dir' = dir /\ output' = output
      /\ pc' = pc \/ pc' = "dead"
      /\ members \subseteq members' /\ members' \subseteq members \cup {i}
  BY DEF JobStep, JobSucceeds, JobFails, diskVars
<1>2. PICK e \in {"done", "error"} : /\ Release(i, e)
                                     /\ e = "done" => i \in members'
  BY DEF JobStep, JobSucceeds, JobFails
<1>3. /\ job' \in [Ncas -> {"none", "queued", "running", "done", "error"}]
      /\ permits' \in 0..slots /\ waiters' \in Seq(Ncas) /\ slots' = slots
      /\ job'[i] = e
      /\ waiters # <<>> => /\ Head(waiters) \in Ncas
                           /\ job[Head(waiters)] = "queued"
                           /\ job'[Head(waiters)] = "running"
      /\ \A j \in Ncas : j # i /\ (waiters = <<>> \/ j # Head(waiters)) =>
                           job'[j] = job[j]
      /\ SemaphoreOK'
  BY <1>0, <1>1, <1>2, ReleaseKeeps
<1>4. iso[i] \notin {"spawned", "writing"}
  BY DEF JobStep, JobSucceeds, JobFails
<1>5. Admit \/ iso' = iso
  BY DEF JobStep, JobSucceeds, JobFails
<1>6. /\ iso' \in [Ncas -> {"none", "spawned", "writing", "wrote", "noTicket",
                            "failed"}]
      /\ \A j \in Ncas : waiters = <<>> \/ j # Head(waiters) => iso'[j] = iso[j]
  BY <1>0, <1>3, <1>5 DEF Admit, TypeOK
<1>7. TypeOK'
  <2>1. members' \subseteq Entries
    BY <1>0, <1>1, PipelineAssumption DEF TypeOK, Entries
  <2>2. QED
    BY <1>0, <1>1, <1>3, <1>6, <2>1 DEF TypeOK
<1>8. JobsOK'
  <2> SUFFICES ASSUME NEW j \in Ncas
               PROVE  /\ Working(j)' => job'[j] = "running"
                      /\ job'[j] = "none" <=> ~parallel' \/ j >= next'
                      /\ job'[j] = "done" => j \in members'
    BY DEF JobsOK
  <2>1. /\ Working(j) => job[j] = "running"
        /\ job[j] = "none" <=> ~parallel \/ j >= next
        /\ job[j] = "done" => j \in members
    BY <1>0 DEF JobsOK
  <2>2. CASE j = i
    <3>1. waiters = <<>> \/ j # Head(waiters)
      BY <2>2, <1>1, <1>3
    <3>2. ~Working(j)'
      BY <2>2, <3>1, <1>4, <1>6 DEF Working
    <3>3. QED
      BY <2>1, <2>2, <3>2, <1>1, <1>2, <1>3
  <2>3. CASE waiters # <<>> /\ j = Head(waiters)
    BY <2>1, <2>3, <1>1, <1>3
  <2>4. CASE j # i /\ (waiters = <<>> \/ j # Head(waiters))
    <3>1. job'[j] = job[j] /\ iso'[j] = iso[j]
      BY <2>4, <1>3, <1>6
    <3>2. QED
      BY <2>1, <3>1, <1>1 DEF Working
  <2>5. QED
    BY <2>2, <2>3, <2>4
<1>9. MembersOK'
  BY <1>0, <1>1 DEF MembersOK
<1>10. /\ pc \notin {"assemble", "assembling"}
       /\ pc \in {"cleanup", "done"} => threw = "loop"
  BY <1>0, <1>1 DEF PhaseOK, DirOutlivesWriters
<1>11. PhaseOK'
  <2>1. pc # "tickets"
    BY <1>0, <1>1 DEF PhaseOK
  <2>2. QED
    BY <1>0, <1>1, <1>10, <2>1 DEF PhaseOK
<1>12. DirOutlivesWriters'
  BY <1>1, <1>10 DEF DirOutlivesWriters
<1>13. QED
  BY <1>3, <1>7, <1>8, <1>9, <1>11, <1>12 DEF PipelineInv

\* The bloc kills the isolate of the job.
LEMMA KillKeeps == ASSUME PipelineInv, Kill PROVE PipelineInv'
<1>0. TypeOK /\ SemaphoreOK /\ JobsOK /\ MembersOK /\ PhaseOK /\ DirOutlivesWriters
  BY DEF PipelineInv
<1>1. /\ parallel' = parallel /\ pc' = "killed" /\ next' = next /\ members' = members
      /\ threw' = threw /\ verdict' = verdict /\ job' = job /\ slots' = slots
      /\ permits' = permits /\ waiters' = waiters /\ iso' = iso /\ output' = output
      /\ dir' = FALSE /\ temp' = [i \in Ncas |-> "none"]
  BY DEF Kill, semVars
<1>2. TypeOK'
  BY <1>0, <1>1 DEF TypeOK
<1>3. JobsOK' /\ MembersOK' /\ PhaseOK' /\ DirOutlivesWriters'
  BY <1>0, <1>1 DEF JobsOK, MembersOK, Working, PhaseOK, DirOutlivesWriters
<1>4. SemaphoreOK'
  BY <1>0, <1>1, SemaphoreFrame DEF semVars
<1>5. QED
  BY <1>2, <1>3, <1>4 DEF PipelineInv

\* The strengthened invariant holds of every behaviour: permits are conserved,
\* a nested isolate has a permit, members are set as the loop and the jobs go.
THEOREM PipelineInvariance == Spec => []PipelineInv
<1>1. PipelineInv /\ UNCHANGED vars => PipelineInv'
  BY DEF PipelineInv, TypeOK, SemaphoreOK, Holders, JobsOK, MembersOK, PhaseOK,
         DirOutlivesWriters, Working, vars, flowVars, semVars, diskVars
<1>2. PipelineInv /\ [Next]_vars => PipelineInv'
  BY <1>1, LoopKeeps, EndKeeps, IsolateKeeps, JobKeeps, KillKeeps DEF Next
<1>3. QED
  BY InitInv, <1>2, PTL DEF Spec

\* An archive of any length, with any number of slots, never has more nested
\* isolates at work than the slots, though the queue hands permits over.
THEOREM SlotsRespected == Spec => []IsolatesWithinSlots
<1>1. ASSUME PipelineInv PROVE IsolatesWithinSlots
  <2>0. TypeOK /\ SemaphoreOK /\ JobsOK
    BY <1>1 DEF PipelineInv
  <2> DEFINE W == {i \in Ncas : Working(i)}
  <2>1. W \in SUBSET Holders
    BY <2>0 DEF JobsOK, Holders
  <2>2. /\ Cardinality(Holders) \in Nat /\ Cardinality(W) \in Nat
        /\ Cardinality(W) <= Cardinality(Holders)
    BY <2>1, HoldersCount, FS_Subset, FS_CardinalityType
  <2>3. permits \in Nat /\ slots \in Nat /\ permits + Cardinality(Holders) = slots
    BY <2>0 DEF TypeOK, SemaphoreOK
  <2>4. Cardinality(W) <= slots
    BY <2>2, <2>3
  <2>5. QED
    BY <2>4 DEF IsolatesWithinSlots
<1>2. QED
  BY <1>1, PipelineInvariance, PTL

\* A success is reported only when the output holds every entry.
THEOREM SuccessWhole == Spec => []SuccessIsWhole
<1>1. PipelineInv => SuccessIsWhole
  BY DEF PipelineInv, PhaseOK, SuccessIsWhole
<1>2. QED
  BY <1>1, PipelineInvariance, PTL

\* The archive function deletes its directory after the last nested isolate has
\* ended, unless the loop itself threw.
THEOREM DirOutlives == Spec => []DirOutlivesWriters
<1>1. PipelineInv => DirOutlivesWriters
  BY DEF PipelineInv
<1>2. QED
  BY <1>1, PipelineInvariance, PTL
=============================================================================
