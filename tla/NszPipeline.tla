----------------------------- MODULE NszPipeline ----------------------------
(***************************************************************************)
(* NszArchive.compress and decompress inside the isolate of an NSZ job.    *)
(* The loop walks the archive's entries; an entry that is no NCA is taken  *)
(* over in the same turn, for an NCA the loop awaits.  In parallel mode it *)
(* only reads the NCA's header and hands the NCA to a job: an async        *)
(* closure that acquires a permit of _Semaphore and runs a nested isolate. *)
(* Serial compression and decompression do the work in the loop.  Then the *)
(* members are assembled into the output, and the temporary directory is   *)
(* deleted whatever happened.                                              *)
(*                                                                         *)
(* Nobody listens to a job before Future.wait: one that fails while the    *)
(* loop still awaits is an uncaught error, and uncaught errors end the     *)
(* isolate, which leaves neither a result nor a clean-up.                  *)
(***************************************************************************)
EXTENDS Naturals, Sequences, FiniteSets

CONSTANTS
  NumEntries,   \* bound: entries of the archive
  Ncas,         \* the entries that are compressible NCAs (or NCZs)
  MaxSetting    \* bound: the largest maxConcurrentNcas

ASSUME PipelineAssumption ==
  /\ NumEntries \in Nat /\ MaxSetting \in Nat
  /\ Ncas \subseteq 1..NumEntries

Entries == 1..NumEntries

VARIABLES
  \* the job's isolate
  parallel,    \* nszParallel (FALSE for decompress)
  pc,          \* where the archive function is
  next,        \* index: the NCA the loop awaits, past the end after the loop
  members,     \* the entries whose member is set
  threw,       \* the part that threw, if any
  verdict,     \* the result sent to the bloc
  job,         \* the closures of jobs, by NCA
  slots,       \* the permits the semaphore was made with
  permits,     \* _permits
  waiters,     \* _waiters
  \* the nested isolates and the disk
  iso,         \* where each NCA's isolate is
  temp,        \* each NCA's file in tempDir
  dir,         \* tempDir exists
  output       \* the file at outputPath

flowVars == <<parallel, pc, next, members, threw, verdict>>
semVars == <<slots, permits, waiters>>
diskVars == <<temp, dir, output>>
vars == <<flowVars, job, semVars, iso, diskVars>>

\* Mutant of Slots: the setting is taken as it is.
SlotsUnclamped(setting) == setting

\* The permits the semaphore starts with: at least one.
Slots(setting) == IF setting < 1 THEN 1 ELSE setting

Init ==
  /\ parallel \in BOOLEAN
  /\ pc = "tickets" /\ next = 1 /\ members = {} /\ threw = "no"
  /\ verdict = "none"
  /\ job = [i \in Ncas |-> "none"]
  /\ \E setting \in 0..MaxSetting : slots = Slots(setting)
  /\ permits = slots /\ waiters = <<>>
  /\ iso = [i \in Ncas |-> "none"]
  /\ temp = [i \in Ncas |-> "none"]
  /\ dir = TRUE /\ output = "none"

-----------------------------------------------------------------------------
\* The isolate of the job runs.
Alive == pc \notin {"dead", "killed"}

\* A nested isolate that writes, or is about to.
Working(i) == iso[i] \in {"spawned", "writing"}

\* An exception in the given part: on to finally.
Throw(part) ==
  /\ pc' = "cleanup" /\ threw' = part
  /\ UNCHANGED <<parallel, next, members, verdict>>

\* Mutant of GoOn: the loop is left for the assembly, the jobs not awaited.
GoOnNoWait(k, done) ==
  \E n \in k..NumEntries + 1 :
    /\ n \in Ncas \/ n = NumEntries + 1
    /\ \A i \in k..n - 1 : i \notin Ncas
    /\ next' = n
    /\ members' = members \cup done \cup (k..n - 1)
    /\ pc' = IF n \in Ncas THEN "loop" ELSE "assemble"
    /\ UNCHANGED <<parallel, threw, verdict>>

\* The loop from entry k on, up to the next NCA or past the end; done are
\* the members set before.
GoOn(k, done) ==
  \E n \in k..NumEntries + 1 :
    /\ n \in Ncas \/ n = NumEntries + 1
    /\ \A i \in k..n - 1 : i \notin Ncas
    /\ next' = n
    /\ members' = members \cup done \cup (k..n - 1)
    /\ pc' = IF n \in Ncas THEN "loop"
             ELSE IF parallel /\ Ncas # {} THEN "wait" ELSE "assemble"
    /\ UNCHANGED <<parallel, threw, verdict>>

\* _loadTickets, then the loop up to its first NCA.
LoadTickets ==
  /\ pc = "tickets"
  /\ GoOn(1, {}) \/ Throw("loop")
  /\ UNCHANGED <<job, semVars, iso, diskVars>>

\* The NCA's header is read, and its job runs up to its first real await:
\* _Semaphore.acquire gives a permit, and Isolate.run, or a place in the queue.
Dispatch ==
  /\ pc = "loop" /\ parallel
  /\ IF permits > 0
     THEN /\ permits' = permits - 1
          /\ job' = [job EXCEPT ![next] = "running"]
          /\ iso' = [iso EXCEPT ![next] = "spawned"]
          /\ UNCHANGED waiters
     ELSE /\ job' = [job EXCEPT ![next] = "queued"]
          /\ waiters' = Append(waiters, next)
          /\ UNCHANGED <<permits, iso>>
  /\ GoOn(next + 1, {})
  /\ UNCHANGED <<slots, diskVars>>

\* Serial mode: the NCA is written to its temporary file.
PackInLoop ==
  /\ pc = "loop" /\ ~parallel
  /\ temp' = [temp EXCEPT ![next] = "whole"]
  /\ GoOn(next + 1, {next})
  /\ UNCHANGED <<job, semVars, iso, dir, output>>

\* The read of a header, or the codec in serial mode, throws.
LoopThrows ==
  /\ pc = "loop"
  /\ \/ UNCHANGED temp
     \/ ~parallel /\ temp' = [temp EXCEPT ![next] = "partial"]
  /\ Throw("loop")
  /\ UNCHANGED <<job, semVars, iso, dir, output>>

-----------------------------------------------------------------------------
\* The nested isolates (_compressIsolate).

\* Nca.parse throws: the NCA needs a ticket that is missing or was malformed.
LacksTicket(i) ==
  /\ iso[i] = "spawned"
  /\ iso' = [iso EXCEPT ![i] = "noTicket"]
  /\ UNCHANGED <<flowVars, job, semVars, diskVars>>

\* The temporary file is opened, which needs its directory.
OpensTemp(i) ==
  /\ iso[i] = "spawned"
  /\ dir
  /\ iso' = [iso EXCEPT ![i] = "writing"]
  /\ temp' = [temp EXCEPT ![i] = "partial"]
  /\ UNCHANGED <<flowVars, job, semVars, dir, output>>

\* The NCA is written; a file in a deleted directory is lost.
WritesTemp(i) ==
  /\ iso[i] = "writing"
  /\ iso' = [iso EXCEPT ![i] = "wrote"]
  /\ temp' = [temp EXCEPT ![i] = IF dir THEN "whole" ELSE "none"]
  /\ UNCHANGED <<flowVars, job, semVars, dir, output>>

\* The spawn, the file or the codec fails.
IsolateFails(i) ==
  /\ Working(i)
  /\ iso' = [iso EXCEPT ![i] = "failed"]
  /\ UNCHANGED <<flowVars, job, semVars, diskVars>>

-----------------------------------------------------------------------------
\* The jobs' ends.

\* Mutant of Release: a waiter is let in, and a permit given back as well.
ReleaseTwice(i, end) ==
  /\ permits' = permits + 1
  /\ IF waiters = <<>>
     THEN /\ job' = [job EXCEPT ![i] = end]
          /\ UNCHANGED waiters
     ELSE /\ job' = [job EXCEPT ![i] = end, ![Head(waiters)] = "running"]
          /\ waiters' = Tail(waiters)
  /\ UNCHANGED slots

\* Mutant of Release: a permit is given back, and no waiter let in.
ReleaseNoWake(i, end) ==
  /\ permits' = permits + 1
  /\ job' = [job EXCEPT ![i] = end]
  /\ UNCHANGED <<slots, waiters>>

\* _Semaphore.release in the finally of job i: its permit goes to the first
\* waiter, or back.
Release(i, end) ==
  /\ IF waiters = <<>>
     THEN /\ permits' = permits + 1
          /\ job' = [job EXCEPT ![i] = end]
          /\ UNCHANGED waiters
     ELSE /\ job' = [job EXCEPT ![i] = end, ![Head(waiters)] = "running"]
          /\ waiters' = Tail(waiters)
          /\ UNCHANGED permits
  /\ UNCHANGED slots

\* The waiter let in by a release calls Isolate.run.
Admit ==
  iso' = IF waiters = <<>> THEN iso ELSE [iso EXCEPT ![Head(waiters)] = "spawned"]

\* The nested isolate of NCA i returned and its file is there: the member is set.
JobSucceeds(i) ==
  /\ Alive
  /\ job[i] = "running" /\ iso[i] = "wrote" /\ temp[i] = "whole"
  /\ members' = members \cup {i}
  /\ Release(i, "done")
  /\ Admit
  /\ UNCHANGED <<parallel, pc, next, threw, verdict, diskVars>>

\* The nested isolate threw, or its file is gone when its length is asked.
\* Unless Future.wait listens, the error ends the job's isolate.
JobFails(i) ==
  /\ Alive
  /\ job[i] = "running"
  /\ iso[i] \in {"noTicket", "failed"} \/ (iso[i] = "wrote" /\ temp[i] # "whole")
  /\ Release(i, "error")
  /\ IF pc = "wait"
     THEN Admit /\ UNCHANGED pc
     ELSE pc' = "dead" /\ UNCHANGED iso
  /\ UNCHANGED <<parallel, next, members, threw, verdict, diskVars>>

-----------------------------------------------------------------------------
\* Mutant of WaitReturns: the first error is rethrown at once (eagerError).
WaitReturnsEager ==
  /\ pc = "wait"
  /\ IF \E i \in Ncas : job[i] = "error"
     THEN Throw("jobs")
     ELSE /\ \A i \in Ncas : job[i] = "done"
          /\ pc' = "assemble"
          /\ UNCHANGED <<parallel, next, members, threw, verdict>>
  /\ UNCHANGED <<job, semVars, iso, diskVars>>

\* Mutant of WaitReturns: the jobs' errors are swallowed.
WaitReturnsDeaf ==
  /\ pc = "wait"
  /\ \A i \in Ncas : job[i] \in {"done", "error"}
  /\ pc' = "assemble"
  /\ UNCHANGED <<parallel, next, members, threw, verdict>>
  /\ UNCHANGED <<job, semVars, iso, diskVars>>

\* Future.wait: once all jobs have ended, the first error is rethrown.
WaitReturns ==
  /\ pc = "wait"
  /\ \A i \in Ncas : job[i] \in {"done", "error"}
  /\ IF \E i \in Ncas : job[i] = "error"
     THEN Throw("jobs")
     ELSE /\ pc' = "assemble"
          /\ UNCHANGED <<parallel, next, members, threw, verdict>>
  /\ UNCHANGED <<job, semVars, iso, diskVars>>

\* Pfs0Builder.writeTo opens the output.
BeginAssembly ==
  /\ pc = "assemble"
  /\ pc' = "assembling"
  /\ output' = "partial"
  /\ UNCHANGED <<parallel, next, members, threw, verdict, job, semVars, iso,
                 temp, dir>>

\* The members that are set are written; one whose file is short or missing
\* throws, as may the disk.
EndAssembly ==
  /\ pc = "assembling"
  /\ \/ /\ \A i \in Ncas \cap members : temp[i] = "whole"
        /\ output' = IF members = Entries THEN "whole" ELSE "short"
        /\ pc' = "cleanup"
        /\ UNCHANGED <<parallel, next, members, threw, verdict>>
     \/ Throw("assembly") /\ UNCHANGED output
  /\ UNCHANGED <<job, semVars, iso, temp, dir>>

\* finally: the directory is deleted; NszWorker sends the result.
CleanUp ==
  /\ pc = "cleanup"
  /\ dir' = FALSE
  /\ temp' = [i \in Ncas |-> "none"]
  /\ pc' = "done"
  /\ verdict' = IF threw = "no" THEN "success" ELSE "failure"
  /\ UNCHANGED <<parallel, next, members, threw, job, semVars, iso, output>>

\* NszBloc._cleanup, on a result or a cancel: the isolate is killed, the scratch
\* directory deleted.  The nested isolates run on.
Kill ==
  /\ pc # "killed"
  /\ pc' = "killed"
  /\ dir' = FALSE
  /\ temp' = [i \in Ncas |-> "none"]
  /\ UNCHANGED <<parallel, next, members, threw, verdict, job, semVars, iso, output>>

-----------------------------------------------------------------------------
LoopStep == LoadTickets \/ Dispatch \/ PackInLoop \/ LoopThrows
EndStep == WaitReturns \/ BeginAssembly \/ EndAssembly \/ CleanUp
IsolateStep(i) ==
  LacksTicket(i) \/ OpensTemp(i) \/ WritesTemp(i) \/ IsolateFails(i)
JobStep(i) == JobSucceeds(i) \/ JobFails(i)

Next ==
  \/ LoopStep
  \/ EndStep
  \/ Kill
  \/ \E i \in Ncas : IsolateStep(i) \/ JobStep(i)

\* File operations return, codecs over finite files end, and the result of a
\* nested isolate is delivered to an isolate that runs.
Fairness ==
  /\ WF_vars(LoopStep)
  /\ WF_vars(EndStep)
  /\ \A i \in Ncas : WF_vars(IsolateStep(i)) /\ WF_vars(JobStep(i))

Spec == Init /\ [][Next]_vars
FairSpec == Spec /\ Fairness

-----------------------------------------------------------------------------
\* Every variable keeps its type.
TypeOK ==
  /\ parallel \in BOOLEAN
  /\ pc \in {"tickets", "loop", "wait", "assemble", "assembling", "cleanup",
             "done", "dead", "killed"}
  /\ next \in 1..NumEntries + 1
  /\ pc = "loop" => next \in Ncas
  /\ members \subseteq Entries
  /\ threw \in {"no", "loop", "jobs", "assembly"}
  /\ verdict \in {"none", "success", "failure"}
  /\ job \in [Ncas -> {"none", "queued", "running", "done", "error"}]
  /\ slots \in Nat \ {0} /\ permits \in 0..slots
  /\ waiters \in Seq(Ncas)
  /\ iso \in [Ncas -> {"none", "spawned", "writing", "wrote", "noTicket", "failed"}]
  /\ temp \in [Ncas -> {"none", "partial", "whole"}]
  /\ dir \in BOOLEAN
  /\ output \in {"none", "partial", "short", "whole"}

\* No more nested isolates work at once than the semaphore has permits, also
\* after the job's isolate died or was killed.
IsolatesWithinSlots == Cardinality({i \in Ncas : Working(i)}) <= slots

\* A success means that the output holds every entry of the archive: no member
\* was skipped as null, and each temporary file was complete when copied.
SuccessIsWhole == verdict = "success" => output = "whole"

\* The directory is not deleted under a nested isolate by the archive function,
\* unless the loop itself threw while jobs were running.
DirOutlivesWriters ==
  pc \in {"cleanup", "done"} /\ threw # "loop" =>
    \A i \in Ncas : ~Working(i) /\ job[i] \notin {"running", "queued"}

\* Once every NCA has been handed out, an NCA that fails is reported.
LateErrorSurfaces ==
  (pc = "wait" /\ \E i \in Ncas : iso[i] \in {"noTicket", "failed"})
    ~> (verdict = "failure" \/ pc = "killed")

\* The archive function ends, or its isolate does: no NCA waits for a permit
\* that does not come.
Ends == <>(pc \in {"done", "dead", "killed"})

\* nsz_archive.dart:311, "titlekey NCAs needing them will surface a clear error
\* during parse": refuted, the error may end the isolate before Future.wait,
\* without any error of the loop's own.
MissingTicketSurfaces ==
  (\E i \in Ncas : iso[i] = "noTicket") ~>
    (verdict = "failure" \/ pc = "killed" \/ threw = "loop")

-----------------------------------------------------------------------------
\* The inductive invariant.

Holders == {i \in Ncas : job[i] = "running"}

\* Permits are conserved, and the queue holds exactly the queued jobs, once.
SemaphoreOK ==
  /\ permits + Cardinality(Holders) = slots
  /\ waiters # <<>> => permits = 0
  /\ \A m \in 1..Len(waiters) : job[waiters[m]] = "queued"
  /\ \A m, n \in 1..Len(waiters) : m # n => waiters[m] # waiters[n]

\* A nested isolate works for a job that holds a permit; jobs are handed out in
\* order, and in parallel mode only.
JobsOK ==
  \A i \in Ncas :
    /\ Working(i) => job[i] = "running"
    /\ job[i] = "none" <=> ~parallel \/ i >= next
    /\ job[i] = "done" => i \in members

\* The members set so far are those of the entries the loop has passed, but for
\* the NCAs of jobs that have not succeeded.
MembersOK ==
  \A e \in Entries :
    e < next => e \in members \/ (e \in Ncas /\ parallel)

\* After the loop, and after Future.wait.
PhaseOK ==
  /\ pc \in {"wait", "assemble", "assembling"} => next = NumEntries + 1
  /\ pc \in {"assemble", "assembling"} =>
       threw = "no" /\ \A i \in Ncas : job[i] \in {"none", "done"}
  /\ pc \in {"cleanup", "done"} /\ threw = "no" => output = "whole"
  /\ verdict = "success" => output = "whole"
  /\ verdict # "none" => pc \in {"done", "dead", "killed"}
  /\ pc \in {"tickets", "loop", "wait"} => threw = "no"
  /\ pc = "tickets" => next = 1 /\ \A i \in Ncas : job[i] = "none"

PipelineInv ==
  /\ TypeOK
  /\ SemaphoreOK
  /\ JobsOK
  /\ MembersOK
  /\ PhaseOK
  /\ DirOutlivesWriters
=============================================================================
