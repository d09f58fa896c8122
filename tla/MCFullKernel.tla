------------------------------ MODULE MCFullKernel -----------------------------
(***************************************************************************)
(* FullKernel with two signals and a Mongo server that goes away twice.     *)
(***************************************************************************)
EXTENDS FullKernel

MCSignals == {"SIGTERM", "SIGINT"}
================================================================================
