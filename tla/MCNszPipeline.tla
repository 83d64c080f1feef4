--------------------------- MODULE MCNszPipeline ----------------------------
(***************************************************************************)
(* TLC instance of NszPipeline.  In both configurations every entry but    *)
(* the second is an NCA, so that the loop takes an entry over between two  *)
(* NCAs.                                                                   *)
(***************************************************************************)
EXTENDS NszPipeline
=============================================================================
