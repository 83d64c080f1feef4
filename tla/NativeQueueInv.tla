--------------------------- MODULE NativeQueueInv ---------------------------
(***************************************************************************)
(* The inductive invariant of NativeQueue, in named parts.  TypeOK and the *)
(* properties of NativeQueue are not inductive: they need to know what the *)
(* bloc's references mean (RefsOK), which workers do not exist yet (Fresh),*)
(* and how a worker's state, result and output go together (WorkersOK).    *)
(***************************************************************************)
EXTENDS NativeQueue

\* The worker whose result the bloc is waiting for.
Current == <<starts, idx + 1>>

\* While a worker is active the bloc refers to it, and to nothing otherwise.
RefsOK ==
  /\ active => /\ ui = "progress"
               /\ Current \in Workers
               /\ idx < total
               /\ cells = Current /\ port = Current
               /\ timer \in {NoRef, Current}
               /\ ~closed
  /\ ~active => cells = NoRef /\ port = NoRef /\ timer = NoRef
  /\ ui = "progress" /\ ~closed => active
  /\ timers \subseteq {timer} /\ openPorts \subseteq {port}

\* Workers later than the current one do not exist.
Fresh ==
  \A w \in Workers :
    w[1] > starts \/ (w[1] = starts /\ w[2] > idx + 1) =>
      wk[w] = "none" /\ output[w] = "absent"

\* Cells in use are live; live cells are the bloc's or were abandoned.
HeapOK ==
  /\ \A w \in Workers : InFlight(w) => heap[w] = "live"
  /\ cells # NoRef => heap[cells] = "live"
  /\ \A w \in Workers : heap[w] = "live" /\ w # cells => cancelCell[w]

\* What a worker's state says of its result and of its output.
WorkersOK ==
  \A w \in Workers :
    /\ wk[w] \in {"none", "spawning", "failed", "native"} =>
         output[w] \notin Written
    /\ wk[w] \in {"returned", "sent", "delivered"} =>
         /\ code[w] \in {"ok", "error", "cancelled"}
         /\ (code[w] = "ok") <=> (output[w] \in Written)
         /\ code[w] = "cancelled" => cancelCell[w]
    /\ wk[w] \in {"native", "returned", "sent", "delivered"} =>
         kind[w] \in AllKinds
    /\ wk[w] = "returned" /\ output[w] = "partial" =>
         kind[w] = "container" \/ LeftBehind(w)
    /\ wk[w] \in {"sent", "delivered"} /\ output[w] = "partial" =>
         LeftBehind(w)

\* The user is at the origin of every cancellation the bloc can see, and no
\* result of a cancelled queue is taken for that of a job.
CancelOK ==
  /\ cancelReq => queueCancelled
  /\ active /\ queueCancelled => cancelReq
  /\ cells # NoRef => (cancelCell[cells] => queueCancelled)

\* The entries are those of the jobs before the current one.
ResultsOK ==
  /\ Len(results) = idx
  /\ idx <= total
  /\ \A i \in 1..Len(results) :
       /\ results[i].by = <<starts, i>>
       /\ wk[results[i].by] = "delivered"
       /\ (results[i].code = "ok") <=> (output[results[i].by] \in Written)
  /\ ui = "done" /\ ~queueCancelled => idx = total
  /\ starts = 0 => total = 0

\* With the screen's gate nothing is in flight but the current worker.
GateOK ==
  Gated =>
    /\ \A v, w \in Workers : InFlight(v) /\ InFlight(w) => v = w
    /\ ~closed => \A w \in Workers : InFlight(w) => w = cells

\* What is shown was read from the current cell, which only grows.
FracOK == active => frac <= progressCell[cells]

IInv ==
  /\ TypeOK
  /\ RefsOK
  /\ Fresh
  /\ HeapOK
  /\ WorkersOK
  /\ CancelOK
  /\ ResultsOK
  /\ GateOK
  /\ FracOK
=============================================================================
