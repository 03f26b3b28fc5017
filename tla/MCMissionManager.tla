-------------------------- MODULE MCMissionManager --------------------------
(* Small instances of MissionManager: ids and names are numbers, so the cfg  *)
(* gives the bounds and there is nothing to define.                          *)
EXTENDS MissionManager
==============================================================================
