------------------------------ MODULE MCBootstrap ------------------------------
(***************************************************************************)
(* Bootstrap with the five providers of Kernel.ts and the three signals of *)
(* index.ts:69-71.                                                         *)
(***************************************************************************)
EXTENDS Bootstrap

MCNumProviders == 5
MCSignals == {"SIGTERM", "SIGINT", "SIGQUIT"}
================================================================================
