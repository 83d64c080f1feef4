--------------------------- MODULE MCScratchQueue ---------------------------
(***************************************************************************)
(* TLC instances of ScratchQueue.                                          *)
(*   Scratch.cfg     a queue of up to two jobs, another of one, a relaunch:*)
(*                   cancels at any time, failures, closes, refinement of  *)
(*                   JobQueue                                              *)
(*   ScratchDoc.cfg  the comment in _startJob on the scratch directory     *)
(***************************************************************************)
EXTENDS ScratchQueue

\* A queue with a next job, and one that is started after it.
MCLenAt == <<2, 1>>

OneJob == <<1>>
=============================================================================
