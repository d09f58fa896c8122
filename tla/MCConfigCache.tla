----------------------------- MODULE MCConfigCache -----------------------------
(***************************************************************************)
(* ConfigCache with two keys, two concurrent calls and two writes per key; *)
(* the second value of k2 is blank, and setCache stores k1 only.           *)
(***************************************************************************)
EXTENDS ConfigCache

MCKeys == {"k1", "k2"}
MCKeyLists == {<<"k1", "k2">>}
MCKeyPrefixes == {CacheKeys}
MCBlank == {<<"k2", 2>>}
MCOneKey == {"k1"}
================================================================================
