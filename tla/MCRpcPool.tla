----------------------------- MODULE MCRpcPool -----------------------------
(* Two callers and a pool of two: with the short-lived objects that two      *)
(* callers create when it is full there are four clients, of which those in  *)
(* the pool may be abandoned there.                                          *)
EXTENDS RpcPool
=============================================================================
