---------------------------- MODULE MCAlertReport ----------------------------
(* Two writers and a ring of two rows: three rows more than the ring holds  *)
(* are reached, and a download of several batches is overtaken by deletes.  *)
EXTENDS AlertReport
=============================================================================
