---------------------------- MODULE OneShotProofs ---------------------------
(***************************************************************************)
(* Proofs that OneShot keeps its inductive invariant, and what follows from*)
(* it for any number of runs.                                              *)
(***************************************************************************)
EXTENDS OneShot, TLAPS

\* What killing _isolate does to the workers, and marking the awaited ones.
LEMMA CleanupPointwise ==
  ASSUME TypeOK
  PROVE  /\ Killed \in [Runs -> WorkerStates]
         /\ \A r \in Runs :
              /\ Killed[r] # "killed" => Killed[r] = wk[r]
              /\ Killed[r] = "killed" => wk[r] \in {"running", "killed"}
              /\ Killed[r] = "running" => isolate # r
              /\ wk[r] \notin {"running", "killed"} => Killed[r] = wk[r]
         /\ Overtaken \in [Runs -> BOOLEAN]
         /\ \A r \in Runs : Overtaken[r] <=> overtaken[r] \/ wk[r] = "spawning"
  BY DEF TypeOK, Killed, Overtaken, WorkerStates

\* The initial state satisfies the inductive invariant.
LEMMA InitInv == Init => OneShotInv
<1> SUFFICES ASSUME Init PROVE OneShotInv
  OBVIOUS
<1> USE OneShotAssumption DEF Init, Runs, None
<1>1. TypeOK
  <2>1. ui \in Screens /\ run \in 0..MaxRuns /\ shown \in 0..run
        /\ isolate \in 0..run /\ port \in 0..run
    BY DEF Screens
  <2>2. wk \in [Runs -> WorkerStates]
    BY DEF WorkerStates
  <2>3. QED
    BY <2>1, <2>2 DEF TypeOK
<1>2. PortOK /\ IsolateOK /\ NoteOK
  BY DEF PortOK, IsolateOK, NoteOK
<1>3. SuccessIsFaithful /\ FailureIsOwn /\ OrphansAreOvertaken
  BY DEF SuccessIsFaithful, FailureIsOwn, OrphansAreOvertaken, Working
<1>4. QED
  BY <1>1, <1>2, <1>3 DEF OneShotInv

\* A clean-up by which the bloc ends up with no reference at all: what it says
\* next must be true of the run it is about, or the bloc be closed.
LEMMA CleanupStep ==
  ASSUME OneShotInv, Cleanup,
         ui' \in Screens, shown' \in 0..run, closed' \in BOOLEAN,
         UNCHANGED <<run, noted, verdict, fact>>,
         ui' = "running" => closed' /\ run # 0,
         ui' = "success" => /\ shown' = run /\ run # 0 /\ wk[run] = "sent"
                            /\ verdict[run] = "success" /\ noted = fact[run],
         ui' = "failure" => shown' # 0 /\ (shown' = run \/ overtaken[shown'])
  PROVE  OneShotInv'
<1> USE OneShotAssumption DEF Runs, None
<1>0. TypeOK /\ PortOK /\ IsolateOK /\ OrphansAreOvertaken
  BY DEF OneShotInv
<1>1. /\ wk' \in [Runs -> WorkerStates] /\ overtaken' \in [Runs -> BOOLEAN]
      /\ \A r \in Runs :
           /\ wk'[r] # "killed" => wk'[r] = wk[r]
           /\ wk'[r] = "running" => isolate # r
           /\ wk[r] \notin {"running", "killed"} => wk'[r] = wk[r]
           /\ overtaken[r] => overtaken'[r]
           /\ wk[r] = "spawning" => overtaken'[r]
           /\ overtaken'[r] => overtaken[r] \/ wk[r] = "spawning"
  BY <1>0, CleanupPointwise DEF Cleanup
<1>2. isolate' = 0 /\ port' = 0 /\ openPorts' = {}
  BY <1>0 DEF Cleanup, PortOK
<1>3. run \in 0..MaxRuns /\ run' = run
  BY <1>0 DEF TypeOK
<1> HIDE DEF Cleanup
<1>4. TypeOK'
  BY <1>0, <1>1, <1>2 DEF TypeOK
<1>5. PortOK'
  BY <1>2 DEF PortOK
<1>6. \A r \in Runs : wk[r] = "running" /\ isolate # r =>
                        \E q \in 1..r : overtaken'[q]
  <2> SUFFICES ASSUME NEW r \in Runs, wk[r] = "running", isolate # r
               PROVE  \E q \in 1..r : overtaken'[q]
    OBVIOUS
  <2>1. PICK q \in 1..r : overtaken[q]
    BY <1>0 DEF IsolateOK
  <2>2. q \in Runs
    OBVIOUS
  <2>3. QED
    BY <1>1, <2>1, <2>2
<1>7. IsolateOK'
  <2> SUFFICES ASSUME NEW r \in Runs
               PROVE  /\ wk'[r] = "spawning" => overtaken'[r]
                      /\ wk'[r] = "running" => \E q \in 1..r : overtaken'[q]
                      /\ wk'[r] = "sent" => verdict[r] # "none"
                      /\ r > run => wk'[r] = "none" /\ ~overtaken'[r] /\ ~fact[r]
    BY <1>3 DEF IsolateOK
  <2>1. wk'[r] = "spawning" => overtaken'[r]
    BY <1>1
  <2>2. wk'[r] = "running" => \E q \in 1..r : overtaken'[q]
    BY <1>1, <1>6
  <2>3. r > run => wk'[r] = "none" /\ ~overtaken'[r] /\ ~fact[r]
    BY <1>0, <1>1 DEF IsolateOK
  <2>4. wk'[r] = "sent" => verdict[r] # "none"
    BY <1>0, <1>1 DEF IsolateOK
  <2>5. QED
    BY <2>1, <2>2, <2>3, <2>4
<1>8. OrphansAreOvertaken'
  <2> SUFFICES ASSUME NEW r \in Runs, wk'[r] \in {"spawning", "running"}
               PROVE  \E q \in 1..r : overtaken'[q]
    BY DEF OrphansAreOvertaken, Working
  <2>1. CASE wk'[r] = "spawning"
    BY <1>1, <2>1
  <2>2. CASE wk'[r] = "running"
    BY <1>1, <1>6, <2>2
  <2>3. QED
    BY <2>1, <2>2
<1>9. NoteOK' /\ SuccessIsFaithful'
  BY <1>1, <1>3 DEF NoteOK, SuccessIsFaithful
<1>10. FailureIsOwn'
  BY <1>1, <1>3 DEF FailureIsOwn
<1>11. QED
  BY <1>4, <1>5, <1>7, <1>8, <1>9, <1>10 DEF OneShotInv

\* The bloc's steps that only clean up: cancel and close.
LEMMA CancelStep == OneShotInv /\ (Cancel \/ Close) => OneShotInv'
<1> SUFFICES ASSUME OneShotInv, Cancel \/ Close PROVE OneShotInv'
  OBVIOUS
<1>0. TypeOK /\ PortOK /\ SuccessIsFaithful /\ FailureIsOwn
  BY DEF OneShotInv
<1>1. CASE Cancel
  <2>1. shown' \in 0..run /\ closed' \in BOOLEAN
    BY <1>0, <1>1 DEF Cancel, None, TypeOK
  <2>2. QED
    BY <1>1, <2>1, CleanupStep DEF Cancel, Screens
<1>2. CASE Close
  <2>1. /\ ui' \in Screens /\ shown' \in 0..run /\ closed' \in BOOLEAN
        /\ ui' = "running" => closed' /\ run # 0
        /\ ui' = "success" => /\ shown' = run /\ run # 0 /\ wk[run] = "sent"
                              /\ verdict[run] = "success" /\ noted = fact[run]
        /\ ui' = "failure" => shown' # 0 /\ (shown' = run \/ overtaken[shown'])
    BY <1>0, <1>2
       DEF Close, TypeOK, PortOK, None, SuccessIsFaithful, FailureIsOwn
  <2>2. QED
    BY <1>2, <2>1, CleanupStep DEF Close
<1>3. QED
  BY <1>1, <1>2

\* A result that arrives is the current run's.
LEMMA FinishedStep ==
  ASSUME OneShotInv, NEW r \in Runs, Finished(r)
  PROVE  OneShotInv'
<1>0. TypeOK /\ PortOK /\ NoteOK /\ IsolateOK
  BY DEF OneShotInv
<1>1. /\ r = run /\ port = r /\ ui = "running" /\ ~closed /\ noted = fact[run]
      /\ run # 0 /\ wk[r] = "sent"
  BY <1>0 DEF Finished, PortOK, NoteOK, TypeOK, None, Runs
<1>2. verdict[r] \in {"success", "failure"}
  BY <1>0, <1>1 DEF TypeOK, IsolateOK
<1>3. run \in Nat
  BY <1>0, OneShotAssumption DEF TypeOK
<1>4. /\ Cleanup /\ ui' = verdict[r] /\ shown' = r
      /\ UNCHANGED <<run, noted, closed, verdict, fact>>
  BY DEF Finished
<1>5. ui' \in Screens /\ shown' \in 0..run /\ closed' \in BOOLEAN
  BY <1>0, <1>1, <1>2, <1>3, <1>4 DEF Screens, TypeOK
<1>6. QED
  BY <1>1, <1>2, <1>4, <1>5, CleanupStep

\* A failed spawn ends whatever is current, also a run that is not its own.
LEMMA SpawnFailsStep ==
  ASSUME OneShotInv, NEW r \in Runs, SpawnFails(r)
  PROVE  OneShotInv'
<1> USE OneShotAssumption DEF Runs, None
<1>0. TypeOK /\ PortOK /\ IsolateOK /\ OrphansAreOvertaken /\ NoteOK
      /\ SuccessIsFaithful /\ FailureIsOwn
  BY DEF OneShotInv
<1>r. /\ run \in 0..MaxRuns /\ run' = run /\ r \in 1..run /\ wk[r] = "spawning"
      /\ (r = run /\ port = run) \/ overtaken[r]
  BY <1>0 DEF TypeOK, IsolateOK, SpawnFails
<1>q. UNCHANGED <<noted, closed, verdict, fact>>
  BY DEF SpawnFails
<1>1. CASE closed
  <2>1. /\ wk' = [wk EXCEPT ![r] = "failed"]
        /\ UNCHANGED <<ui, shown, isolate, port, openPorts, overtaken>>
    BY <1>1 DEF SpawnFails
  <2>2. /\ wk' \in [Runs -> WorkerStates] /\ wk'[r] = "failed"
        /\ \A q \in Runs : q # r => wk'[q] = wk[q]
    BY <1>0, <2>1 DEF TypeOK, WorkerStates
  <2>3. TypeOK' /\ PortOK' /\ NoteOK'
    BY <1>0, <1>q, <1>r, <2>1, <2>2 DEF TypeOK, PortOK, NoteOK
  <2>4. IsolateOK'
    BY <1>0, <1>q, <1>r, <2>1, <2>2 DEF IsolateOK
  <2>5. OrphansAreOvertaken'
    BY <1>0, <1>q, <1>r, <2>1, <2>2 DEF OrphansAreOvertaken, Working
  <2>6. SuccessIsFaithful' /\ FailureIsOwn'
    BY <1>0, <1>q, <1>r, <2>1, <2>2
       DEF SuccessIsFaithful, FailureIsOwn, TypeOK, PortOK
  <2>7. QED
    BY <2>3, <2>4, <2>5, <2>6 DEF OneShotInv
<1>2. CASE ~closed
  <2>1. /\ wk' = [Killed EXCEPT ![r] = "failed"]
        /\ overtaken' = [Overtaken EXCEPT ![r] = overtaken[r]]
        /\ isolate' = 0 /\ port' = 0 /\ openPorts' = {}
        /\ ui' = "failure" /\ shown' = r
    BY <1>0, <1>2 DEF SpawnFails, PortOK
  <2>2. /\ wk' \in [Runs -> WorkerStates] /\ overtaken' \in [Runs -> BOOLEAN]
        /\ wk'[r] = "failed" /\ overtaken'[r] = overtaken[r]
        /\ \A q \in Runs : overtaken[q] => overtaken'[q]
        /\ \A q \in Runs : q # r =>
             /\ wk'[q] # "killed" => wk'[q] = wk[q]
             /\ wk'[q] = "running" => isolate # q
             /\ wk[q] \notin {"running", "killed"} => wk'[q] = wk[q]
             /\ wk[q] = "spawning" => overtaken'[q]
             /\ overtaken'[q] => overtaken[q] \/ wk[q] = "spawning"
    BY <1>0, <2>1, CleanupPointwise DEF TypeOK, WorkerStates
  <2>3. TypeOK' /\ PortOK' /\ NoteOK' /\ SuccessIsFaithful'
    BY <1>0, <1>q, <1>r, <2>1, <2>2
       DEF TypeOK, PortOK, NoteOK, SuccessIsFaithful, Screens
  <2>4. FailureIsOwn'
    BY <1>r, <2>1, <2>2 DEF FailureIsOwn
  <2>5. \A q \in Runs : wk'[q] = "running" => \E p \in 1..q : overtaken'[p]
    <3> SUFFICES ASSUME NEW q \in Runs, wk'[q] = "running"
                 PROVE  \E p \in 1..q : overtaken'[p]
      OBVIOUS
    <3>1. wk[q] = "running" /\ isolate # q
      BY <2>2
    <3>2. PICK p \in 1..q : overtaken[p]
      BY <1>0, <3>1 DEF IsolateOK
    <3>3. p \in Runs
      OBVIOUS
    <3>4. QED
      BY <2>2, <3>2, <3>3
  <2>6. \A q \in Runs : wk'[q] = "spawning" => overtaken'[q]
    BY <2>2
  <2>7. \A q \in Runs : wk'[q] = "sent" => verdict[q] # "none"
    BY <1>0, <2>2 DEF IsolateOK
  <2>8. \A q \in Runs : q > run => wk'[q] = "none" /\ ~overtaken'[q] /\ ~fact[q]
    BY <1>0, <1>r, <2>2 DEF IsolateOK
  <2>9. IsolateOK'
    BY <1>q, <1>r, <2>5, <2>6, <2>7, <2>8 DEF IsolateOK
  <2>10. OrphansAreOvertaken'
    BY <2>5, <2>6 DEF OrphansAreOvertaken, Working
  <2>11. QED
    BY <2>3, <2>4, <2>9, <2>10 DEF OneShotInv
<1>3. QED
  BY <1>1, <1>2

\* A new run replaces the old one, whose isolate is killed if it is known.
LEMMA StartRunStep == OneShotInv /\ StartRun => OneShotInv'
<1> SUFFICES ASSUME OneShotInv, StartRun PROVE OneShotInv'
  OBVIOUS
<1> USE OneShotAssumption DEF Runs, None
<1>0. TypeOK /\ PortOK /\ IsolateOK /\ OrphansAreOvertaken
  BY DEF OneShotInv
<1> DEFINE new == run + 1
<1>1. /\ ~closed /\ run' = new /\ new \in Runs /\ run \in Nat
      /\ ui' = "running" /\ shown' = new /\ noted' = FALSE
      /\ isolate' = 0 /\ port' = new /\ openPorts' = {new}
      /\ UNCHANGED <<closed, verdict, fact>>
      /\ wk[new] = "none" /\ ~overtaken[new] /\ ~fact[new]
  <2>1. /\ ~closed /\ run' = new /\ run < MaxRuns
        /\ ui' = "running" /\ shown' = new /\ noted' = FALSE
        /\ isolate' = 0 /\ port' = new
        /\ openPorts' = (openPorts \ {port}) \cup {new}
        /\ UNCHANGED <<closed, verdict, fact>>
    BY DEF StartRun
  <2>2. run \in Nat /\ new \in Runs /\ new > run
    BY <1>0, <2>1 DEF TypeOK
  <2>3. openPorts \ {port} = {}
    BY <1>0 DEF PortOK
  <2>4. wk[new] = "none" /\ ~overtaken[new] /\ ~fact[new]
    BY <1>0, <2>2 DEF IsolateOK
  <2> HIDE DEF new
  <2>5. QED
    BY <2>1, <2>2, <2>3, <2>4
<1>2. /\ wk' = [Killed EXCEPT ![new] = "spawning"]
      /\ overtaken' = Overtaken
  BY DEF StartRun
<1> HIDE DEF new
<1>3. /\ wk' \in [Runs -> WorkerStates] /\ overtaken' \in [Runs -> BOOLEAN]
      /\ wk'[new] = "spawning" /\ ~overtaken'[new]
      /\ \A q \in Runs : overtaken[q] => overtaken'[q]
      /\ \A q \in Runs : q # new =>
           /\ wk'[q] # "killed" => wk'[q] = wk[q]
           /\ wk'[q] = "running" => isolate # q
           /\ wk[q] \notin {"running", "killed"} => wk'[q] = wk[q]
           /\ wk[q] = "spawning" => overtaken'[q]
           /\ overtaken'[q] => overtaken[q] \/ wk[q] = "spawning"
  BY <1>0, <1>1, <1>2, CleanupPointwise DEF TypeOK, WorkerStates
<1>4. TypeOK'
  <2>1. /\ run' \in 0..MaxRuns /\ shown' \in 0..run' /\ isolate' \in 0..run'
        /\ port' \in 0..run' /\ openPorts' \subseteq Runs
    BY <1>1
  <2>2. verdict' \in [Runs -> {"none", "success", "failure"}]
        /\ fact' \in [Runs -> BOOLEAN] /\ closed' \in BOOLEAN
    BY <1>0, <1>1 DEF TypeOK
  <2>3. QED
    BY <1>1, <1>3, <2>1, <2>2 DEF TypeOK, Screens
<1>5. PortOK' /\ NoteOK' /\ SuccessIsFaithful' /\ FailureIsOwn'
  <2>1. new # 0 /\ fact'[new] = FALSE
    BY <1>0, <1>1 DEF TypeOK
  <2>2. QED
    BY <1>1, <2>1 DEF PortOK, NoteOK, SuccessIsFaithful, FailureIsOwn
<1>6. \A q \in Runs : wk'[q] = "running" => \E p \in 1..q : overtaken'[p]
  <2> SUFFICES ASSUME NEW q \in Runs, wk'[q] = "running"
               PROVE  \E p \in 1..q : overtaken'[p]
    OBVIOUS
  <2>1. wk[q] = "running" /\ isolate # q
    BY <1>3
  <2>2. PICK p \in 1..q : overtaken[p]
    BY <1>0, <2>1 DEF IsolateOK
  <2>3. p \in Runs
    OBVIOUS
  <2>4. QED
    BY <1>3, <2>2, <2>3
<1>7. \A q \in Runs : wk'[q] = "spawning" => q = new \/ overtaken'[q]
  BY <1>3
<1>8. \A q \in Runs : wk'[q] = "sent" => verdict[q] # "none"
  BY <1>0, <1>3 DEF IsolateOK
<1>9. \A q \in Runs : q > new => wk'[q] = "none" /\ ~overtaken'[q] /\ ~fact[q]
  BY <1>0, <1>1, <1>3 DEF IsolateOK, new
<1>10. IsolateOK'
  BY <1>1, <1>6, <1>7, <1>8, <1>9 DEF IsolateOK
<1>11. OrphansAreOvertaken'
  <2> SUFFICES ASSUME NEW q \in Runs, wk'[q] \in {"spawning", "running"}
               PROVE  q = new \/ \E p \in 1..q : overtaken'[p]
    BY <1>1 DEF OrphansAreOvertaken, Working
  <2>1. CASE wk'[q] = "spawning"
    BY <1>7, <2>1
  <2>2. CASE wk'[q] = "running"
    BY <1>6, <2>2
  <2>3. QED
    BY <2>1, <2>2
<1>12. QED
  BY <1>4, <1>5, <1>10, <1>11 DEF OneShotInv

\* The return of a spawn gives the bloc the isolate of a run that may be past.
LEMMA SpawnReturnsStep ==
  ASSUME OneShotInv, NEW r \in Runs, SpawnReturns(r)
  PROVE  OneShotInv'
<1> USE OneShotAssumption DEF Runs, None
<1>0. TypeOK /\ PortOK /\ IsolateOK /\ OrphansAreOvertaken /\ NoteOK
      /\ SuccessIsFaithful /\ FailureIsOwn
  BY DEF OneShotInv
<1>1. /\ wk[r] = "spawning" /\ wk' = [wk EXCEPT ![r] = "running"]
      /\ isolate' = r
      /\ UNCHANGED <<ui, shown, run, port, noted, closed, openPorts, verdict,
                     fact, overtaken>>
  BY DEF SpawnReturns
<1>2. /\ wk' \in [Runs -> WorkerStates] /\ wk'[r] = "running"
      /\ \A q \in Runs : q # r => wk'[q] = wk[q]
  BY <1>0, <1>1 DEF TypeOK, WorkerStates
<1>3. run \in Nat /\ r <= run /\ ((r = run /\ port = run) \/ overtaken[r])
  BY <1>0, <1>1 DEF TypeOK, IsolateOK
<1>4. TypeOK' /\ PortOK' /\ NoteOK' /\ FailureIsOwn'
  BY <1>0, <1>1, <1>2, <1>3 DEF TypeOK, PortOK, NoteOK, FailureIsOwn
<1>5. SuccessIsFaithful'
  BY <1>0, <1>1, <1>2 DEF SuccessIsFaithful, TypeOK, PortOK
<1>6. OrphansAreOvertaken'
  BY <1>0, <1>1, <1>2 DEF OrphansAreOvertaken, Working
<1>7. \A q \in Runs : wk'[q] = "running" /\ q # r =>
                        \E p \in 1..q : overtaken[p]
  <2> SUFFICES ASSUME NEW q \in Runs, wk[q] = "running", q # r,
                      ~ \E p \in 1..q : overtaken[p]
               PROVE  FALSE
    BY <1>2
  <2>1. q = run
    BY <1>0 DEF OrphansAreOvertaken, Working
  <2>2. overtaken[r] /\ r \in 1..q
    BY <1>3, <2>1
  <2>3. QED
    BY <2>2
<1>8. IsolateOK'
  BY <1>0, <1>1, <1>2, <1>3, <1>7 DEF IsolateOK
<1>9. QED
  BY <1>4, <1>5, <1>6, <1>8 DEF OneShotInv

\* A report is noted for the current run only; a result stops its worker.
LEMMA WorkerStep ==
  ASSUME OneShotInv, NEW r \in Runs, Report(r) \/ WorkerEnds(r)
  PROVE  OneShotInv'
<1> USE OneShotAssumption DEF Runs, None
<1>0. TypeOK /\ PortOK /\ IsolateOK /\ OrphansAreOvertaken /\ NoteOK
      /\ SuccessIsFaithful /\ FailureIsOwn
  BY DEF OneShotInv
<1>r. wk[r] = "running" /\ run \in Nat /\ r <= run
  BY <1>0 DEF Report, WorkerEnds, TypeOK, IsolateOK
<1>1. CASE Report(r)
  <2>1. /\ fact' = [fact EXCEPT ![r] = TRUE] /\ UNCHANGED wk
        /\ UNCHANGED <<run, isolate, port, closed, openPorts, verdict, overtaken>>
    BY <1>1 DEF Report
  <2>2. /\ fact' \in [Runs -> BOOLEAN] /\ fact'[r]
        /\ \A q \in Runs : q # r => fact'[q] = fact[q]
    BY <1>0, <2>1 DEF TypeOK
  <2>3. CASE r \in openPorts
    <3>1. /\ r = run /\ port = r /\ ~closed /\ ui = "running"
          /\ ui' = "running" /\ shown' = r /\ noted' = TRUE
      BY <1>0, <1>1, <2>3 DEF Report, TypeOK, PortOK
    <3>2. TypeOK' /\ PortOK' /\ IsolateOK'
      BY <1>0, <1>r, <2>1, <2>2, <3>1 DEF TypeOK, PortOK, IsolateOK
    <3>3. NoteOK' /\ SuccessIsFaithful' /\ FailureIsOwn' /\ OrphansAreOvertaken'
      BY <1>0, <2>1, <2>2, <3>1
         DEF NoteOK, SuccessIsFaithful, FailureIsOwn, OrphansAreOvertaken,
             Working
    <3>4. QED
      BY <3>2, <3>3 DEF OneShotInv
  <2>4. CASE r \notin openPorts
    <3>1. UNCHANGED <<ui, shown, noted>>
      BY <1>1, <2>4 DEF Report
    <3>2. TypeOK' /\ PortOK' /\ IsolateOK'
      BY <1>0, <1>r, <2>1, <2>2, <3>1 DEF TypeOK, PortOK, IsolateOK
    <3>3. NoteOK'
      BY <1>0, <1>r, <2>1, <2>2, <2>4, <3>1 DEF NoteOK, PortOK, TypeOK
    <3>4. SuccessIsFaithful'
      <4>1. ui = "success" => run \in Runs /\ run # r
        BY <1>0, <1>r DEF SuccessIsFaithful, PortOK, TypeOK
      <4>2. QED
        BY <1>0, <2>1, <2>2, <3>1, <4>1 DEF SuccessIsFaithful
    <3>5. FailureIsOwn' /\ OrphansAreOvertaken'
      BY <1>0, <2>1, <3>1 DEF FailureIsOwn, OrphansAreOvertaken, Working
    <3>6. QED
      BY <3>2, <3>3, <3>4, <3>5 DEF OneShotInv
  <2>5. QED
    BY <2>3, <2>4
<1>2. CASE WorkerEnds(r)
  <2>1. PICK v \in {"success", "failure"} : verdict' = [verdict EXCEPT ![r] = v]
    BY <1>2 DEF WorkerEnds
  <2>2. /\ wk' = [wk EXCEPT ![r] = "sent"]
        /\ UNCHANGED <<ui, shown, run, isolate, port, noted, closed, openPorts,
                       fact, overtaken>>
    BY <1>2 DEF WorkerEnds, blocVars
  <2>3. /\ wk' \in [Runs -> WorkerStates] /\ wk'[r] = "sent"
        /\ verdict' \in [Runs -> {"none", "success", "failure"}]
        /\ verdict'[r] = v
        /\ \A q \in Runs : q # r => wk'[q] = wk[q] /\ verdict'[q] = verdict[q]
    BY <1>0, <2>1, <2>2 DEF TypeOK, WorkerStates
  <2>4. TypeOK' /\ PortOK' /\ NoteOK' /\ FailureIsOwn'
    BY <1>0, <2>2, <2>3 DEF TypeOK, PortOK, NoteOK, FailureIsOwn
  <2>5. IsolateOK'
    BY <1>0, <1>r, <2>2, <2>3 DEF IsolateOK
  <2>6. SuccessIsFaithful' /\ OrphansAreOvertaken'
    BY <1>0, <1>r, <2>2, <2>3
       DEF SuccessIsFaithful, OrphansAreOvertaken, Working, PortOK, TypeOK
  <2>7. QED
    BY <2>4, <2>5, <2>6 DEF OneShotInv
<1>3. QED
  BY <1>1, <1>2

\* The invariant is inductive.
LEMMA NextInv == OneShotInv /\ [Next]_vars => OneShotInv'
<1> SUFFICES ASSUME OneShotInv, [Next]_vars PROVE OneShotInv'
  OBVIOUS
<1>1. CASE StartRun
  BY <1>1, StartRunStep
<1>2. CASE Cancel \/ Close
  BY <1>2, CancelStep
<1>3. ASSUME NEW r \in Runs, SpawnReturns(r) PROVE OneShotInv'
  BY <1>3, SpawnReturnsStep
<1>4. ASSUME NEW r \in Runs, SpawnFails(r) PROVE OneShotInv'
  BY <1>4, SpawnFailsStep
<1>5. ASSUME NEW r \in Runs, Report(r) \/ WorkerEnds(r) PROVE OneShotInv'
  BY <1>5, WorkerStep
<1>6. ASSUME NEW r \in Runs, Finished(r) PROVE OneShotInv'
  BY <1>6, FinishedStep
<1>7. CASE UNCHANGED vars
  BY <1>7 DEF vars, blocVars, workerVars, OneShotInv, TypeOK, PortOK, IsolateOK,
     NoteOK, SuccessIsFaithful, FailureIsOwn, OrphansAreOvertaken, Working
<1>8. QED
  BY <1>1, <1>2, <1>3, <1>4, <1>5, <1>6, <1>7 DEF Next

\* The inductive invariant of a one-operation bloc always holds.
THEOREM OneShotInvariance == Spec => []OneShotInv
<1>1. Init => OneShotInv
  BY InitInv
<1>2. OneShotInv /\ [Next]_vars => OneShotInv'
  BY NextInv
<1>3. QED
  BY <1>1, <1>2, PTL DEF Spec

\* A success shown by ConversionBloc and its likes is that of the run started
\* last, with what that run's worker reported.
THEOREM OneShot_SuccessIsFaithful == Spec => []SuccessIsFaithful
<1>1. OneShotInv => SuccessIsFaithful
  BY DEF OneShotInv
<1>2. QED
  BY <1>1, OneShotInvariance, PTL

\* A failure that is shown is the current run's, or the failed spawn of a run
\* abandoned while _onStartConversion awaited it.
THEOREM OneShot_FailureIsOwn == Spec => []FailureIsOwn
<1>1. OneShotInv => FailureIsOwn
  BY DEF OneShotInv
<1>2. QED
  BY <1>1, OneShotInvariance, PTL

\* A worker that runs on after a cancel, a restart or a close can be traced to a
\* clean-up that came while a spawn was awaited.
THEOREM OneShot_OrphansAreOvertaken == Spec => []OrphansAreOvertaken
<1>1. OneShotInv => OrphansAreOvertaken
  BY DEF OneShotInv
<1>2. QED
  BY <1>1, OneShotInvariance, PTL
=============================================================================
