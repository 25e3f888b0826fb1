---------------------------- MODULE MCRtspCliMng ----------------------------
(* One camera, two updates (so that one can arrive during the restart the   *)
(* other caused), one video subsession, and the queue the program consumes  *)
(* (the other two are filled in the same loop and do not interact with it). *)
EXTENDS RtspCliMng
=============================================================================
