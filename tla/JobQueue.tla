------------------------------ MODULE JobQueue ------------------------------
(***************************************************************************)
(* What a queue of file operations promises to the screen that drives it,  *)
(* with no worker, no port and no native call in sight.  The screen hands  *)
(* over a list of jobs; they end one at a time and in order; the queue is  *)
(* "done" once every job has ended, or after a cancel, in which case the   *)
(* outcomes are those of a prefix of the jobs.  A disposed queue says      *)
(* nothing more.  NativeQueue (ChdBloc, ArchiveBloc) and ScratchQueue      *)
(* (NszBloc, NspUnmergeBloc) implement it.                                 *)
(***************************************************************************)
EXTENDS Naturals, Sequences

CONSTANT MaxLen     \* the longest list of jobs handed over at once

VARIABLES phase,      \* what the screen shows
          total,      \* number of jobs of the current list
          outcomes,   \* how each ended job ended: TRUE for success
          stopped,    \* the user cancelled the current list
          session     \* how often the application was launched again

vars == <<phase, total, outcomes, stopped, session>>

Phases == {"idle", "running", "done", "disposed"}

Init ==
  /\ phase = "idle"
  /\ total = 0
  /\ outcomes = <<>>
  /\ stopped = FALSE
  /\ session = 0

\* A new list replaces whatever there was, running or not.
Submit(n) ==
  /\ phase # "disposed"
  /\ phase' = "running"
  /\ total' = n
  /\ outcomes' = <<>>
  /\ stopped' = FALSE
  /\ UNCHANGED session

\* A job that ends while the list is not cancelled has its outcome recorded.
Complete(ok) ==
  /\ phase = "running"
  /\ ~stopped
  /\ outcomes' = Append(outcomes, ok)
  /\ phase' = IF Len(outcomes) + 1 = total THEN "done" ELSE "running"
  /\ UNCHANGED <<total, stopped, session>>

\* A cancel is remembered.  A running list may end at once (its worker can be
\* killed) or later (its worker can only be asked); any other ends at once.
Cancel ==
  /\ phase # "disposed"
  /\ stopped' = TRUE
  /\ \/ phase' = "done"
     \/ phase = "running" /\ phase' = "running"
  /\ UNCHANGED <<total, outcomes, session>>

\* The cancelled list ends; the job it interrupted leaves no outcome.
Stop ==
  /\ phase = "running"
  /\ stopped
  /\ phase' = "done"
  /\ UNCHANGED <<total, outcomes, stopped, session>>

\* A disposed queue forgets its list.
Dispose ==
  /\ phase # "disposed"
  /\ phase' = "disposed"
  /\ total' = 0
  /\ outcomes' = <<>>
  /\ stopped' = FALSE
  /\ UNCHANGED session

\* The application is launched again: nothing of the list remains.
Relaunch ==
  /\ session' = session + 1
  /\ phase' = "idle"
  /\ total' = 0
  /\ outcomes' = <<>>
  /\ stopped' = FALSE

End == Stop \/ \E ok \in BOOLEAN : Complete(ok)

Next ==
  \/ \E n \in 1..MaxLen : Submit(n)
  \/ End
  \/ Cancel
  \/ Dispose
  \/ Relaunch

\* What the queue may do.
Spec == Init /\ [][Next]_vars

\* What it owes: a running list always makes progress towards its end.
Progress == WF_vars(End)
=============================================================================
