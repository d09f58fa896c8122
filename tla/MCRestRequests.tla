----------------------------- MODULE MCRestRequests -----------------------------
(***************************************************************************)
(* Two requests over two cache keys, with the tokens of an administrator   *)
(* and of a user, in a process without a Kafka producer.                   *)
(***************************************************************************)
EXTENDS RestRequests, TLC

Input(route, token, payload, prefix) ==
    [route |-> route, token |-> token, payload |-> payload, prefix |-> prefix]

MCKeys == {"k1", "k2"}
MCInputs ==
    {Input("/health", None, "good", {}), Input("/graphql", "user", "good", {}),
     Input("/configs/keys", "admin", "good", {"k2"}),
     Input("/configs/expire", "admin", "good", MCKeys),
     Input("/configs/expire", "user", "good", MCKeys),
     Input("/configs/log-level", None, "good", {}),
     Input("/configs/log-level", None, "invalid", {}),
     Input("/configs/test", "user", "quang", {}), Input("/configs/test", None, "malformed", {}),
     Input("/kafka-demo/produce", None, "good", {}),
     Input("/jobs-demo/dispatch", "user", "good", {})}
================================================================================
