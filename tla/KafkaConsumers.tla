----------------------------- MODULE KafkaConsumers ----------------------------
(***************************************************************************)
(* The Kafka side of the processes (pods): each runs a                     *)
(* KafkaConsumerRunner, which starts one kafkajs consumer per enabled      *)
(* @KafkaListener definition; consumers with the same group id share the   *)
(* partitions.  eachMessage awaits the listener's handle() and swallows    *)
(* what it throws, so an offset is resolved either way.                    *)
(*                                                                         *)
(* Kafka and kafkajs are external: a partition has at most one owner in a  *)
(* group, which reads from the committed offset or, if the group has not   *)
(* committed any, from the beginning or the end; it resolves offsets one   *)
(* by one and commits them now and then and when it disconnects; a         *)
(* rebalance may take a partition away in the middle of a message, and a   *)
(* crash loses what was not committed.  kafkajs assigns partitions to the  *)
(* members of a group whichever topic they subscribed to, and a member     *)
(* ignores those of a topic that it did not subscribe to.                  *)
(***************************************************************************)
EXTENDS Naturals, Functions, Environment

CONSTANTS
    Pods,            \* processes
    Definitions,     \* getKafkaConsumers(): records of target, topic, name, groupId,
                     \* fromBeginning
    Environments,    \* the environments that the pods may start in
    Partitions,      \* of every topic
    None,            \* an option that is not given
    MaxMessages,     \* bound: messages in a partition
    MaxProduced,     \* bound: messages in all
    MaxDisturbances  \* bound: crashes, rebalances, failed disconnects

Topics == {d.topic : d \in Definitions}
Members == Pods \X Definitions
Subscription(m) == m[2].topic
Offsets == 0 .. MaxMessages - 1
Attempts == 0 .. MaxDisturbances + 2   \* the history counts no further

ASSUME KafkaAssumption ==
    /\ MaxMessages \in Nat /\ MaxProduced \in Nat /\ MaxDisturbances \in Nat
    /\ \A d \in Definitions :
         /\ DOMAIN d = {"target", "topic", "name", "groupId", "fromBeginning"}
         /\ d.fromBeginning \in BOOLEAN \cup {None}
    /\ None \notin Members \cup Nat

VARIABLES
    enabled,      \* the words of KAFKA_ENABLED_CONSUMERS
    envGroup,     \* KAFKA_CONSUMER_GROUP_ID, or None
    envFromBeginning, \* KAFKA_CONSUMER_FROM_BEGINNING
    pod,          \* per pod: "up" (booting or running), "closing", "down"
    member,       \* per consumer: "none", "joined" or "stopping"
    produced,     \* per topic and partition, how many messages it holds
    owner,        \* per group, topic and partition, the consumer it is assigned to
    position,     \* the next offset its owner resolves
    committed,    \* the group's committed offset, or None
    start,        \* history: where an owner last began without a committed offset
    working,      \* per consumer and partition, the offset in handle(), or None
    attempts,     \* history: how often handle() was called for an offset
    disturbances  \* history: how often delivery was disturbed

config == <<enabled, envGroup, envFromBeginning>>
vars == <<config, pod, member, produced, owner, position, committed, start,
          working, attempts, disturbances>>

\* Stands for `${clientId}-${topic}`.
DefaultGroup(topic) == Text(topic)

\* A plausible bug: the topic is left out of the default group.
GroupIdOfClient(d) ==
    IF d.groupId # None THEN d.groupId
    ELSE IF envGroup # None THEN envGroup
         ELSE DefaultGroup(CHOOSE t \in Topics : TRUE)

\* definition.groupId || env.kafka.consumer.groupId || clientId-topic
GroupId(d) ==
    IF d.groupId # None THEN d.groupId
    ELSE IF envGroup # None THEN envGroup ELSE DefaultGroup(d.topic)

\* definition.fromBeginning ?? env.kafka.consumer.fromBeginning
FromBeginning(d) ==
    IF d.fromBeginning # None THEN d.fromBeginning ELSE envFromBeginning

GroupOf(m) == GroupId(m[2])

\* What the groups read: a partition of a topic, each with its own offsets.
Stream(m, p) == <<GroupOf(m), Subscription(m), p>>
StreamsOfGroups == {Stream(m, p) : m \in Members, p \in Partitions}
Streams == DOMAIN owner

Init ==
    /\ \E raw \in Environments :
         /\ Starts(raw)
         /\ enabled = EnabledConsumers(raw)
         /\ envGroup = OrElse(raw, "KAFKA_CONSUMER_GROUP_ID", None)
         /\ envFromBeginning = ConsumerFromBeginning(raw)
    /\ pod = [q \in Pods |-> "up"]
    /\ member = [m \in Members |-> "none"]
    /\ produced = [tp \in Topics \X Partitions |-> 0]
    /\ owner = [s \in StreamsOfGroups |-> None]
    /\ position = [s \in StreamsOfGroups |-> 0]
    /\ committed = [s \in StreamsOfGroups |-> None]
    /\ start = [s \in StreamsOfGroups |-> 0]
    /\ working = [m \in Members |-> [p \in Partitions |-> None]]
    /\ attempts = [s \in StreamsOfGroups |-> [o \in Offsets |-> 0]]
    /\ disturbances = 0

--------------------------------------------------------------------------------
(***************************************************************************)
(* KafkaConsumerRunner.boot                                                *)
(***************************************************************************)

\* getEnabledConsumers: the whitelist names definition.name if it is given,
\* and the class otherwise.
NameOf(d) == IF d.name # None THEN d.name ELSE d.target
Enabled(d) == enabled = {} \/ Word(NameOf(d)) \in enabled

\* registerConsumer: connect, subscribe, run, push.
RegisterConsumer(m) ==
    /\ pod[m[1]] = "up"
    /\ Enabled(m[2])
    /\ member[m] = "none"
    /\ member' = [member EXCEPT ![m] = "joined"]
    /\ UNCHANGED <<config, pod, produced, owner, position, committed, working,
                   start, attempts, disturbances>>

--------------------------------------------------------------------------------
(***************************************************************************)
(* Kafka: messages arrive; a partition without an owner is assigned to a   *)
(* member of the group, or taken away from its owner.                      *)
(***************************************************************************)
Produce(tp) ==
    /\ produced[tp] < MaxMessages
    /\ SumFunction(produced) < MaxProduced
    /\ produced' = [produced EXCEPT ![tp] = @ + 1]
    /\ UNCHANGED <<config, pod, member, owner, position, committed, working,
                   start, attempts, disturbances>>

\* Where the group's owner begins to read.
StartOf(m, s) ==
    IF committed[s] # None THEN committed[s]
    ELSE IF FromBeginning(m[2]) THEN 0 ELSE produced[<<s[2], s[3]>>]

Assign(m, s) ==
    /\ member[m] = "joined"
    /\ GroupOf(m) = s[1]
    /\ \E leader \in Members : member[leader] = "joined" /\ Stream(leader, s[3]) = s
    /\ owner[s] = None
    /\ owner' = [owner EXCEPT ![s] = m]
    /\ position' = [position EXCEPT ![s] = StartOf(m, s)]
    /\ start' = IF committed[s] = None
                 THEN [start EXCEPT ![s] = StartOf(m, s)] ELSE start
    /\ UNCHANGED <<config, pod, member, produced, committed, working,
                   attempts, disturbances>>

Rebalance(s) ==
    /\ owner[s] # None
    /\ disturbances < MaxDisturbances
    /\ disturbances' = disturbances + 1
    /\ owner' = [owner EXCEPT ![s] = None]
    /\ UNCHANGED <<config, pod, member, produced, position, committed, working,
                   start, attempts>>

\* The owner has resolved an offset since the last commit.
Uncommitted(s) ==
    position[s] # IF committed[s] = None THEN start[s] ELSE committed[s]

Commit(s) ==
    /\ owner[s] # None
    /\ Uncommitted(s)
    /\ committed' = [committed EXCEPT ![s] = position[s]]
    /\ UNCHANGED <<config, pod, member, produced, owner, position, working,
                   start, attempts, disturbances>>

--------------------------------------------------------------------------------
(***************************************************************************)
(* eachMessage                                                             *)
(***************************************************************************)

\* A plausible bug: the offset is resolved when the message is handed over.
ResolvedOnDelivery(s) == [position EXCEPT ![s] = @ + 1]

\* Nothing is resolved before eachMessage resolves.
PositionOnDelivery(s) == position

Deliver(m, p) ==
    LET s == Stream(m, p) IN
    /\ member[m] = "joined"
    /\ owner[s] = m
    /\ working[m][p] = None
    /\ position[s] < produced[<<s[2], p>>]
    /\ working' = [working EXCEPT ![m][p] = position[s]]
    /\ attempts' = [attempts EXCEPT ![s][position[s]] =
                      IF @ + 1 \in Attempts THEN @ + 1 ELSE @]
    /\ position' = PositionOnDelivery(s)
    /\ UNCHANGED <<config, pod, member, produced, owner, committed, start,
                   disturbances>>

\* A plausible bug: eachMessage without its catch, so that a message whose
\* handler throws is not resolved.
ResolvesUnlessThrown(threw) == ~threw

\* eachMessage resolves even if handle() threw.
Resolves(threw) == TRUE

\* A consumer that lost the partition meanwhile cannot resolve the offset.
Handled(m, p, threw) ==
    LET s == Stream(m, p) IN
    /\ working[m][p] # None
    /\ working' = [working EXCEPT ![m][p] = None]
    /\ position' = IF owner[s] = m /\ position[s] = working[m][p] /\ Resolves(threw)
                   THEN [position EXCEPT ![s] = @ + 1] ELSE position
    /\ UNCHANGED <<config, pod, member, produced, owner, committed, start,
                   attempts, disturbances>>

--------------------------------------------------------------------------------
(***************************************************************************)
(* KafkaConsumerRunner.shutdown: all consumers disconnect in parallel; an  *)
(* error is logged.  A pod that has not booted is not shut down: a signal  *)
(* kills it, which is a crash.                                             *)
(***************************************************************************)
Booted(q) ==
    /\ pod[q] = "up"
    /\ \A d \in Definitions : Enabled(d) => member[<<q, d>>] = "joined"

Shutdown(q) ==
    /\ Booted(q)
    /\ pod' = [pod EXCEPT ![q] = "closing"]
    /\ member' = [m \in Members |->
                    IF m[1] = q /\ member[m] = "joined" THEN "stopping" ELSE member[m]]
    /\ UNCHANGED <<config, produced, owner, position, committed, working, start,
                   attempts, disturbances>>

Owned(m) == {s \in Streams : owner[s] = m}
Freed(ms) == [s \in Streams |-> IF owner[s] \in ms THEN None ELSE owner[s]]

\* A plausible bug: disconnect() does not wait for handle().
NotAwaited(m) == TRUE

\* disconnect() waits for the message in handle().
NotWorking(m) == \A p \in Partitions : working[m][p] = None

ConsumerDisconnects(m) ==
    /\ member[m] = "stopping"
    /\ NotWorking(m)
    /\ member' = [member EXCEPT ![m] = "none"]
    /\ owner' = Freed({m})
    /\ committed' = [s \in Streams |->
                       IF s \in Owned(m) /\ Uncommitted(s)
                       THEN position[s] ELSE committed[s]]
    /\ UNCHANGED <<config, pod, produced, position, working, start, attempts,
                   disturbances>>

\* The disconnect fails: nothing is committed, the group coordinator misses
\* the heartbeats.
DisconnectFails(m) ==
    /\ member[m] = "stopping"
    /\ disturbances < MaxDisturbances
    /\ disturbances' = disturbances + 1
    /\ member' = [member EXCEPT ![m] = "none"]
    /\ owner' = Freed({m})
    /\ UNCHANGED <<config, pod, produced, position, committed, working, start,
                   attempts>>

MembersOf(q) == {m \in Members : m[1] = q}

\* A plausible bug: the disconnects are mapped but not awaited.
NothingAwaited(q) == TRUE

\* The Promise.all of the disconnects has resolved.
AllDisconnected(q) == \A m \in MembersOf(q) : member[m] # "stopping"

\* The process goes on to close the other providers, and ends.
ShutdownResolves(q) ==
    /\ pod[q] = "closing"
    /\ AllDisconnected(q)
    /\ pod' = [pod EXCEPT ![q] = "down"]
    /\ working' = [m \in Members |->
                     IF m[1] = q THEN [p \in Partitions |-> None] ELSE working[m]]
    /\ UNCHANGED <<config, member, produced, owner, position, committed, start,
                   attempts, disturbances>>

\* The process dies, or a registerConsumer rejects and bootstrap exits.
Crash(q) ==
    /\ pod[q] # "down"
    /\ disturbances < MaxDisturbances
    /\ disturbances' = disturbances + 1
    /\ pod' = [pod EXCEPT ![q] = "down"]
    /\ member' = [m \in Members |-> IF m[1] = q THEN "none" ELSE member[m]]
    /\ owner' = Freed(MembersOf(q))
    /\ working' = [m \in Members |->
                     IF m[1] = q THEN [p \in Partitions |-> None] ELSE working[m]]
    /\ UNCHANGED <<config, produced, position, committed, start, attempts>>

\* The orchestrator starts the pod again.
Restart(q) ==
    /\ pod[q] = "down"
    /\ pod' = [pod EXCEPT ![q] = "up"]
    /\ UNCHANGED <<config, member, produced, owner, position, committed,
                   working, start, attempts, disturbances>>

\* What the pods, kafkajs and the orchestrator do of their own accord.
Progress ==
    \/ \E m \in Members :
         \/ RegisterConsumer(m) \/ ConsumerDisconnects(m)
         \/ \E s \in Streams : Assign(m, s)
         \/ \E p \in Partitions :
              \/ Deliver(m, p)
              \/ \E threw \in BOOLEAN : Handled(m, p, threw)
    \/ \E q \in Pods : ShutdownResolves(q) \/ Restart(q)

Next ==
    \/ Progress
    \/ \E m \in Members : DisconnectFails(m)
    \/ \E tp \in Topics \X Partitions : Produce(tp)
    \/ \E s \in Streams : Rebalance(s) \/ Commit(s)
    \/ \E q \in Pods : Shutdown(q) \/ Crash(q)

Spec == Init /\ [][Next]_vars

(***************************************************************************)
(* Kafka delivers, handlers return or throw, and disconnects come to an    *)
(* end.  Fairness of each of these is not needed: messages and             *)
(* disturbances are finite, so none of them can go on for ever.  Nothing   *)
(* is assumed about pods that are restarted in a loop: the liveness        *)
(* property speaks of behaviours in which shutdowns stop.                  *)
(***************************************************************************)
FairSpec == Spec /\ WF_vars(Progress)

--------------------------------------------------------------------------------
\* A pod that is down has no consumers, and partitions belong to consumers
\* that are there.
TypeOK ==
    /\ Word("") \notin enabled /\ envFromBeginning \in BOOLEAN
    /\ pod \in [Pods -> {"up", "closing", "down"}]
    /\ member \in [Members -> {"none", "joined", "stopping"}]
    /\ \A m \in Members : pod[m[1]] = "down" => member[m] = "none"
    /\ \A s \in Streams : owner[s] # None => member[owner[s]] # "none"
    /\ produced \in [Topics \X Partitions -> 0 .. MaxMessages]
    /\ owner \in [StreamsOfGroups -> Members \cup {None}]
    /\ position \in [Streams -> 0 .. MaxMessages]
    /\ committed \in [Streams -> 0 .. MaxMessages \cup {None}]
    /\ start \in [Streams -> 0 .. MaxMessages]
    /\ working \in [Members -> [Partitions -> Offsets \cup {None}]]
    /\ attempts \in [Streams -> [Offsets -> Attempts]]
    /\ disturbances \in 0 .. MaxDisturbances

\* At least one attempt: of the messages from where the group began to read,
\* an offset is committed only after handle() was called for it and returned or
\* threw, through rebalances, shutdowns and crashes; once a group has committed,
\* whoever takes over begins where it left off.
NothingSkipped ==
    \A s \in Streams : committed[s] # None =>
      \A o \in start[s] .. committed[s] - 1 :
        /\ attempts[s][o] > 0
        /\ attempts[s][o] = 1 => \A m \in Members :
             Stream(m, s[3]) = s => working[m][s[3]] # o

\* handle() is called again for a message only if something disturbed the
\* delivery: an orderly shutdown, which awaits handle() and commits, and the
\* hand-over to another pod repeat nothing.
RepeatsOnlyIfDisturbed ==
    \A s \in Streams : \A o \in Offsets : attempts[s][o] <= 1 + disturbances

\* The group that the options give to a listener, or None.
GivenGroup(d) == IF d.groupId # None THEN d.groupId ELSE envGroup

\* The options do not put listeners of different topics into d's group.
OwnGroup(d) ==
    \/ GivenGroup(d) = None
    \/ \A e \in Definitions : e.topic # d.topic => GivenGroup(e) # GivenGroup(d)

\* The messages that d must get: all of them if it reads from the beginning, and
\* otherwise those that its group has not got to when it commits.
Due(d, p, o) ==
    LET s == <<GroupId(d), d.topic, p>> IN
    /\ Enabled(d) /\ OwnGroup(d)
    /\ o < produced[<<d.topic, p>>]
    /\ FromBeginning(d) \/ (committed[s] # None /\ committed[s] <= o)

\* A message whose handler throws does not hold up the partition, and listeners
\* of different topics do not get into each other's way unless the options
\* give them one group: if shutdowns stop, every message that is due gets to
\* the group of the listener.
EveryGroupServed ==
    <>[](\A q \in Pods : pod[q] # "closing") =>
      []<>(\A p \in Partitions : \A o \in Offsets : \A d \in Definitions :
             Due(d, p, o) => attempts[<<GroupId(d), d.topic, p>>][o] > 0)
================================================================================
