------------------------- MODULE MCMissionContext -------------------------
(***************************************************************************)
(* MissionContext for model checking.  The bounds are in the cfg files.    *)
(***************************************************************************)
EXTENDS MissionContext
=============================================================================
