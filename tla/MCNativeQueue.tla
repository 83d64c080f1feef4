--------------------------- MODULE MCNativeQueue ----------------------------
(***************************************************************************)
(* The TLC instance of NativeQueue, NativeQueue.cfg: nothing gated, spawns *)
(* that may fail and a bloc that may be closed at any time.                *)
(***************************************************************************)
EXTENDS NativeQueueInv

\* The two places a partial output is removed in: the native call ("archiveFile"
\* is a "chdFile" without its first steps) and the Dart worker.
MCKinds == <<{"chdFile"}, {"container"}>>
=============================================================================
