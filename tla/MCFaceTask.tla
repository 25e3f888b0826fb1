----------------------------- MODULE MCFaceTask -----------------------------
(* Two cameras, two registrations at once, one update and one restart.      *)
EXTENDS FaceTask
=============================================================================
