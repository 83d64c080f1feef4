---------------------------- MODULE SwitchFiles ----------------------------
(***************************************************************************)
(* The converters of Switch files (lib/switch), each run by itself in a    *)
(* worker isolate: the codec of one NCA body, the NSP merger with the      *)
(* unmerger, and the rewriting of card images.                             *)
(***************************************************************************)
EXTENDS NczCodec, NspTools, XczArchive

allVars == <<vars, nspVars, xczVars>>

SwitchInit ==
  \/ Init /\ NspIdle /\ XczIdle
  \/ CodecIdle /\ NspStart /\ XczIdle
  \/ CodecIdle /\ NspIdle /\ XczStart

SwitchNext ==
  \/ Next /\ UNCHANGED <<nspVars, xczVars>>
  \/ NspNext /\ UNCHANGED <<vars, xczVars>>
  \/ XczNext /\ UNCHANGED <<vars, nspVars>>

SwitchSpec == SwitchInit /\ [][SwitchNext]_allVars
=============================================================================
