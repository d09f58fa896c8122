----------------------------- MODULE MCDataLoaders -----------------------------
(***************************************************************************)
(* Two resolvers that load two keys through a cache with room for one.     *)
(***************************************************************************)
EXTENDS DataLoaders

MCKeys == {"k1", "k2"}
================================================================================
