------------------------------ MODULE MCRWLock ------------------------------
(* Four threads: two can wait on each condition variable while a third holds *)
(* the lock and a fourth barges in.                                          *)
EXTENDS RWLock
=============================================================================
