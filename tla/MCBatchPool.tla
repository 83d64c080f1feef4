---------------------------- MODULE MCBatchPool -----------------------------
(***************************************************************************)
(* TLC instances of BatchPool.                                             *)
(*   Batch.cfg     cancels, failing spawns, one or two workers at a time    *)
(*   BatchDoc.cfg  the summary at BatchFinished, two workers at a time     *)
(***************************************************************************)
EXTENDS BatchPool

CONSTANTS p1, p2

MCPaths == {p1, p2}
=============================================================================
