------------------------------ MODULE OneShot -------------------------------
(***************************************************************************)
(* The blocs that run one operation at a time: ConversionBloc,             *)
(* NspMergeBloc, PatcherBloc and HasherBloc.  A Start cleans up, opens a   *)
(* port and awaits Isolate.spawn; everything the bloc handles while it     *)
(* awaits finds _isolate still null, and the references it holds after it  *)
(* may be those of a later run.  A drop on the hasher's screen starts a    *)
(* run over a running one, so Start is never gated here.                   *)
(*                                                                         *)
(* A run is named by its number; its port and its isolate carry the same   *)
(* name.  As in NativeQueue, one turn of the event loop is one action.     *)
(***************************************************************************)
EXTENDS Naturals

CONSTANTS
  MaxRuns,       \* bound: how many operations the user starts
  MayClose       \* TRUE: the bloc may be closed

ASSUME OneShotAssumption == MaxRuns \in Nat \ {0} /\ MayClose \in BOOLEAN

Runs == 1..MaxRuns

\* The null of _isolate and _receivePort; no run.
None == 0

VARIABLES
  \* the bloc
  ui,          \* the state last emitted
  shown,       \* the run that state is about (None: about no run)
  run,         \* the last run started
  isolate,     \* _isolate
  port,        \* _receivePort
  noted,       \* _alreadyDecrypted (or _lastTrimMessage) is set
  closed,      \* close() was called
  \* the runtime and the workers
  openPorts,   \* receive ports that deliver
  wk,          \* where each run's isolate is
  verdict,     \* the result each worker sent
  fact,        \* what each worker reported along the way
  overtaken    \* history: a clean-up came while the run's spawn was awaited

blocVars == <<ui, shown, run, isolate, port, noted, closed>>
workerVars == <<wk, verdict, fact, overtaken>>
vars == <<blocVars, openPorts, workerVars>>

Screens == {"idle", "running", "success", "failure"}
WorkerStates == {"none", "spawning", "running", "sent", "killed", "failed"}

Init ==
  /\ ui = "idle" /\ shown = None /\ run = 0
  /\ isolate = None /\ port = None /\ noted = FALSE /\ closed = FALSE
  /\ openPorts = {}
  /\ wk = [r \in Runs |-> "none"]
  /\ verdict = [r \in Runs |-> "none"]
  /\ fact = [r \in Runs |-> FALSE]
  /\ overtaken = [r \in Runs |-> FALSE]

-----------------------------------------------------------------------------
\* The workers once _isolate was killed: a worker that has sent its result ended.
Killed == [r \in Runs |->
             IF r = isolate /\ wk[r] = "running" THEN "killed" ELSE wk[r]]

Overtaken == [r \in Runs |-> overtaken[r] \/ wk[r] = "spawning"]

\* Mutant of Cleanup: the port stays open.
CleanupPortKept ==
  /\ wk' = Killed
  /\ overtaken' = Overtaken
  /\ isolate' = None
  /\ port' = None
  /\ openPorts' = openPorts

\* Mutant of Cleanup: the isolate is forgotten, not killed.
CleanupNoKill ==
  /\ wk' = wk
  /\ overtaken' = Overtaken
  /\ isolate' = None
  /\ port' = None
  /\ openPorts' = openPorts \ {port}

\* _cleanup: nothing to kill while the spawn is awaited.
Cleanup ==
  /\ wk' = Killed
  /\ overtaken' = Overtaken
  /\ isolate' = None
  /\ port' = None
  /\ openPorts' = openPorts \ {port}

\* Mutant of StartRun: what the previous run reported is kept.
StartRunStaleNote ==
  /\ ~closed
  /\ run < MaxRuns
  /\ run' = run + 1
  /\ ui' = "running" /\ shown' = run + 1
  /\ wk' = [Killed EXCEPT ![run + 1] = "spawning"]
  /\ overtaken' = Overtaken
  /\ isolate' = None
  /\ port' = run + 1
  /\ openPorts' = (openPorts \ {port}) \cup {run + 1}
  /\ UNCHANGED <<noted, closed, verdict, fact>>

\* _onStartConversion up to its await: _cleanup, a new port, Isolate.spawn.
StartRun ==
  /\ ~closed
  /\ run < MaxRuns
  /\ run' = run + 1
  /\ ui' = "running" /\ shown' = run + 1
  /\ noted' = FALSE
  /\ wk' = [Killed EXCEPT ![run + 1] = "spawning"]
  /\ overtaken' = Overtaken
  /\ isolate' = None
  /\ port' = run + 1
  /\ openPorts' = (openPorts \ {port}) \cup {run + 1}
  /\ UNCHANGED <<closed, verdict, fact>>

\* Isolate.spawn of run r returns: _isolate is set, whatever came in between.
SpawnReturns(r) ==
  /\ wk[r] = "spawning"
  /\ wk' = [wk EXCEPT ![r] = "running"]
  /\ isolate' = r
  /\ UNCHANGED <<ui, shown, run, port, noted, closed, openPorts, verdict, fact,
                 overtaken>>

\* Mutant of SpawnFails: nobody awaits the spawn, as in ChdBloc.
SpawnFailsUnseen(r) ==
  /\ wk[r] = "spawning"
  /\ wk' = [wk EXCEPT ![r] = "failed"]
  /\ UNCHANGED <<blocVars, openPorts, verdict, fact, overtaken>>

\* Isolate.spawn of run r throws: the catch adds a failed result, and the
\* handler of that result cleans up and shows it, whichever run is current.
\* A closed bloc accepts no event.
SpawnFails(r) ==
  /\ wk[r] = "spawning"
  /\ IF closed
     THEN /\ wk' = [wk EXCEPT ![r] = "failed"]
          /\ UNCHANGED <<ui, shown, isolate, port, openPorts, overtaken>>
     ELSE /\ wk' = [Killed EXCEPT ![r] = "failed"]
          /\ overtaken' = [Overtaken EXCEPT ![r] = overtaken[r]]
          /\ isolate' = None
          /\ port' = None /\ openPorts' = openPorts \ {port}
          /\ ui' = "failure" /\ shown' = r
  /\ UNCHANGED <<run, noted, closed, verdict, fact>>

\* _onCancelConversion
Cancel ==
  /\ ~closed
  /\ Cleanup
  /\ ui' = "idle" /\ shown' = None
  /\ UNCHANGED <<run, noted, closed, verdict, fact>>

\* Run r reports that there was nothing to decrypt (or to trim).  The port's
\* listener notes it, and the progress event shows the run as running.
Report(r) ==
  /\ wk[r] = "running"
  /\ fact' = [fact EXCEPT ![r] = TRUE]
  /\ IF r \in openPorts
     THEN ui' = "running" /\ shown' = r /\ noted' = TRUE
     ELSE UNCHANGED <<ui, shown, noted>>
  /\ UNCHANGED <<run, isolate, port, closed, openPorts, wk, verdict, overtaken>>

\* The worker of run r sends its result, the last thing it does.
WorkerEnds(r) ==
  /\ wk[r] = "running"
  /\ wk' = [wk EXCEPT ![r] = "sent"]
  /\ \E v \in {"success", "failure"} : verdict' = [verdict EXCEPT ![r] = v]
  /\ UNCHANGED <<blocVars, openPorts, fact, overtaken>>

\* _onConversionFinished on the result of run r: its port is still open.
Finished(r) ==
  /\ r \in openPorts
  /\ wk[r] = "sent"
  /\ Cleanup
  /\ ui' = verdict[r] /\ shown' = r
  /\ UNCHANGED <<run, noted, closed, verdict, fact>>

\* close()
Close ==
  /\ MayClose
  /\ ~closed
  /\ closed' = TRUE
  /\ Cleanup
  /\ UNCHANGED <<ui, shown, run, noted, verdict, fact>>

-----------------------------------------------------------------------------
Next ==
  \/ StartRun
  \/ Cancel
  \/ Close
  \/ \E r \in Runs :
       \/ SpawnReturns(r)
       \/ SpawnFails(r)
       \/ Report(r)
       \/ WorkerEnds(r)
       \/ Finished(r)

\* An awaited spawn returns or throws, a worker over finite files ends, and a
\* result sent to an open port is delivered.
Fairness ==
  \A r \in Runs :
    /\ WF_vars(SpawnReturns(r) \/ SpawnFails(r))
    /\ WF_vars(WorkerEnds(r))
    /\ WF_vars(Finished(r))

Spec == Init /\ [][Next]_vars
FairSpec == Spec /\ Fairness

-----------------------------------------------------------------------------
\* Every variable keeps its type; a port that is open is the one referred to.
TypeOK ==
  /\ ui \in Screens
  /\ run \in 0..MaxRuns
  /\ shown \in 0..run /\ isolate \in 0..run /\ port \in 0..run
  /\ noted \in BOOLEAN /\ closed \in BOOLEAN
  /\ openPorts \subseteq Runs /\ openPorts \subseteq {port}
  /\ wk \in [Runs -> WorkerStates]
  /\ verdict \in [Runs -> {"none", "success", "failure"}]
  /\ fact \in [Runs -> BOOLEAN]
  /\ overtaken \in [Runs -> BOOLEAN]

\* A worker that writes files, or is about to.
Working(r) == wk[r] \in {"spawning", "running"}

\* A success is that of the run started last, whose worker said so, and comes
\* with what that worker reported, never with what an earlier one did.
SuccessIsFaithful ==
  ui = "success" =>
    /\ shown = run
    /\ wk[run] = "sent" /\ verdict[run] = "success"
    /\ noted = fact[run]

\* Only the failed spawn of an abandoned run can be shown, or end a later run.
FailureIsOwn ==
  ui = "failure" => shown = run \/ overtaken[shown]

\* A worker runs on behind the screen only if some run, it or an earlier one,
\* was abandoned while its spawn was awaited: every other one is killed.
OrphansAreOvertaken ==
  \A r \in Runs :
    Working(r) => \/ r = run /\ ui = "running" /\ r \in openPorts
                  \/ \E q \in 1..r : overtaken[q]

\* A run that is shown ends, also when its spawn fails.
RunEnds == (ui = "running") ~> (ui # "running" \/ closed)

-----------------------------------------------------------------------------
\* The inductive invariant: what _receivePort and _isolate mean.
PortOK ==
  /\ port # None => port = run /\ openPorts = {port} /\ ui = "running" /\ ~closed
  /\ port = None => openPorts = {}
  /\ ui = "running" /\ ~closed => port = run
  /\ ui = "running" => run # 0
  /\ ui \in {"success", "failure"} => shown # None

IsolateOK ==
  \A r \in Runs :
    /\ wk[r] = "spawning" => (r = run /\ port = run) \/ overtaken[r]
    /\ wk[r] = "running" => isolate = r \/ \E q \in 1..r : overtaken[q]
    /\ wk[r] = "sent" => verdict[r] # "none"
    /\ r > run => wk[r] = "none" /\ ~overtaken[r] /\ ~fact[r]

NoteOK == ui = "running" /\ ~closed => noted = fact[run]

OneShotInv ==
  /\ TypeOK
  /\ PortOK
  /\ IsolateOK
  /\ NoteOK
  /\ SuccessIsFaithful
  /\ FailureIsOwn
  /\ OrphansAreOvertaken
=============================================================================
