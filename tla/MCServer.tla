-------------------------------- MODULE MCServer -------------------------------
(***************************************************************************)
(* Server with two queues, one of them injected in a controller, two Kafka *)
(* consumers, one client connection and two signals, for every set of      *)
(* server types, Kafka usable or not for every reason, and lists of jobs   *)
(* that name none, one or both of the queues, the last with a space before *)
(* the second name.                                                        *)
(***************************************************************************)
EXTENDS Server

MCSignals == {"SIGTERM", "SIGINT"}
MCJobClasses == <<"q1", "q2">>
MCKafkaDefinitions == <<"c1", "c2">>
MCInjected == {"q1"}
MCConns == {"k1"}

MCServerTypes ==
    {Empty, Text("bot"), Text("producer"), Text("worker"), Text("consumer"),
     <<Word("producer"), Padded("worker")>>, <<Word("producer"), Padded("consumer")>>,
     <<Word("worker"), Word("consumer")>>,
     <<Word("producer"), Padded("worker"), Padded("consumer")>>}
MCKafkas ==
    {<<Empty, Text("b1")>>, <<Text("TRUE"), Text("b1")>>, <<Text("true"), Empty>>,
     <<Text("true"), <<Word("b1"), Word("b2")>>>>}
MCJobLists ==
    {Empty, Text("q1"), <<Word("q1"), Word("q2")>>, <<Word("q2"), Padded("q1")>>}

MCEnvironments ==
    {("SERVER_TYPE" :> s) @@ ("KAFKA_ENABLED" :> k[1]) @@ ("KAFKA_BROKERS" :> k[2])
       @@ ("JOB_DEFINITIONS" :> j) @@ [key \in Required |-> Empty] :
       s \in MCServerTypes, k \in MCKafkas, j \in MCJobLists}
================================================================================
