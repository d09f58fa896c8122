---------------------------- MODULE MCKafkaConsumers ---------------------------
(***************************************************************************)
(* KafkaConsumers with two listeners of different topics.  One has a name  *)
(* of its own; KAFKA_ENABLED_CONSUMERS is empty, names it, or names its    *)
(* class, which does not enable it, and the other listener.                *)
(***************************************************************************)
EXTENDS KafkaConsumers

MCDefinitions ==
    {[target |-> "ExampleKafkaConsumer", topic |-> "demo-topic", name |-> "example",
      groupId |-> None, fromBeginning |-> TRUE],
     [target |-> "UserEventsConsumer", topic |-> "user-events", name |-> None,
      groupId |-> None, fromBeginning |-> None]}

MCEnabled ==
    {Empty, Text("example"),
     <<Word("ExampleKafkaConsumer"), Word(""), Word("UserEventsConsumer")>>}

MCEnvironments ==
    {("KAFKA_ENABLED_CONSUMERS" :> e) @@ ("KAFKA_CONSUMER_GROUP_ID" :> g)
       @@ [key \in Required |-> Empty] :
       e \in MCEnabled, g \in {Empty, Text("shared")}}
================================================================================
