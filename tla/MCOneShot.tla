----------------------------- MODULE MCOneShot ------------------------------
(***************************************************************************)
(* TLC instance of OneShot (OneShot.cfg): three runs, each of which may be *)
(* started over the one before.                                            *)
(***************************************************************************)
EXTENDS OneShot
=============================================================================
