------------------------- MODULE KafkaConsumers_proofs -------------------------
(***************************************************************************)
(* What holds of any number of pods, listeners, groups and partitions,     *)
(* however rebalances, shutdowns and crashes interleave.  IndInv says of   *)
(* each stream how far its group has got: what lies before has been        *)
(* handled to the end, and each further call of handle() for a message was *)
(* paid for by a disturbance.                                              *)
(***************************************************************************)
EXTENDS KafkaConsumers, TLAPS

\* Where the next owner begins to read.
Base(s) == IF committed[s] = None THEN start[s] ELSE committed[s]

\* How far the group has got.
Reached(s) == IF owner[s] = None THEN Base(s) ELSE position[s]

\* handle() was called for o and has returned or thrown, once at least.
Finished(s, o) ==
    /\ attempts[s][o] > 0
    /\ attempts[s][o] = 1 => \A m \in Members :
         Stream(m, s[3]) = s => working[m][s[3]] # o

\* The stream's owner reads it, and is handling o.
InHand(s, o) ==
    /\ owner[s] # None
    /\ Stream(owner[s], s[3]) = s
    /\ working[owner[s]][s[3]] = o

\* One call of handle() for o is due to the order of the stream.
Accounted(s, o) ==
    \/ o < Reached(s) /\ (start[s] <= o \/ committed[s] # None)
    \/ o = position[s] /\ InHand(s, o)

PositionsOrdered(s) == start[s] <= Base(s) /\ Base(s) <= Reached(s)

AllFinished(s) == \A o \in start[s] .. Reached(s) - 1 : Finished(s, o)

RepeatsPaid(s) ==
    \A o \in Offsets :
      attempts[s][o] <= disturbances + IF Accounted(s, o) THEN 1 ELSE 0

StreamInv(s) == PositionsOrdered(s) /\ AllFinished(s) /\ RepeatsPaid(s)

\* Whoever is handling a message is one of those who began to.
WorkCounted ==
    /\ \A m \in Members, p \in Partitions :
         working[m][p] # None => attempts[Stream(m, p)][working[m][p]] > 0
    /\ \A m, n \in Members, p \in Partitions :
         /\ m # n /\ Stream(m, p) = Stream(n, p)
         /\ working[m][p] # None /\ working[m][p] = working[n][p]
         => attempts[Stream(m, p)][working[m][p]] > 1

ClosingStops ==
    \A m \in Members : pod[m[1]] = "closing" => member[m] # "joined"

IndInv ==
    /\ TypeOK
    /\ ClosingStops
    /\ WorkCounted
    /\ \A s \in StreamsOfGroups : StreamInv(s)

--------------------------------------------------------------------------------
\* A stream is what a member reads of a partition.
LEMMA StreamParts ==
  /\ \A m \in Members, p \in Partitions :
       /\ Stream(m, p) \in StreamsOfGroups
       /\ Stream(m, p)[3] = p
       /\ Stream(m, p)[2] = Subscription(m)
       /\ Stream(m, p)[1] = GroupOf(m)
       /\ Subscription(m) \in Topics
  /\ \A s \in StreamsOfGroups : s[2] \in Topics /\ s[3] \in Partitions
BY DEF StreamsOfGroups, Stream, Subscription, Topics, Members

\* The options are read once.
LEMMA StreamsFixed ==
  ASSUME UNCHANGED config
  PROVE  /\ StreamsOfGroups' = StreamsOfGroups
         /\ \A m, p : Stream(m, p)' = Stream(m, p)
BY DEF config, StreamsOfGroups, Stream, GroupOf, GroupId

\* Offsets and attempts are numbers.
LEMMA Numbers ==
  /\ Offsets \subseteq Nat /\ None \notin Nat /\ None \notin Members
  /\ Attempts \subseteq Nat /\ 0 \in Attempts /\ 1 \in Attempts
  /\ MaxMessages \in Nat /\ MaxDisturbances \in Nat
BY KafkaAssumption DEF Offsets, Attempts

\* IndInv holds before anything has been read.
LEMMA InitIndInv == Init => IndInv
<1> SUFFICES ASSUME Init
             PROVE  IndInv
  OBVIOUS
<1> USE DEF Init
<1>1. Streams = StreamsOfGroups /\ 0 \in 0 .. MaxMessages /\ 0 \in 0 .. MaxDisturbances
  BY Numbers DEF Streams
<1>2. TypeOK
  <2>1. Word("") \notin enabled /\ envFromBeginning \in BOOLEAN
    BY DEF EnabledConsumers, Listed, ConsumerFromBeginning, IsTrue
  <2> QED BY <1>1, <2>1, Numbers DEF TypeOK, Offsets
<1>3. ClosingStops
  BY DEF ClosingStops, Members
<1>4. WorkCounted
  BY Numbers DEF WorkCounted
<1>5. ASSUME NEW s \in StreamsOfGroups
      PROVE  StreamInv(s)
  <2>1. Reached(s) = 0 /\ Base(s) = 0 /\ start[s] = 0
    BY <1>5 DEF Reached, Base
  <2>2. PositionsOrdered(s) /\ AllFinished(s)
    BY <2>1 DEF PositionsOrdered, AllFinished
  <2>3. RepeatsPaid(s)
    BY <1>5, Numbers DEF RepeatsPaid
  <2> QED BY <2>2, <2>3 DEF StreamInv
<1> QED BY <1>2, <1>3, <1>4, <1>5 DEF IndInv

--------------------------------------------------------------------------------
(***************************************************************************)
(* Types                                                                   *)
(***************************************************************************)

\* How far a group reads lies within the partition.
LEMMA PositionsTyped ==
  ASSUME IndInv, NEW s \in StreamsOfGroups
  PROVE  /\ start[s] \in Nat /\ Base(s) \in Nat /\ Reached(s) \in Nat
         /\ Base(s) \in 0 .. MaxMessages /\ Reached(s) \in 0 .. MaxMessages
         /\ position[s] \in Nat
         /\ start[s] .. Reached(s) - 1 \subseteq Offsets
         /\ \A o \in Offsets : attempts[s][o] \in Attempts /\ attempts[s][o] \in Nat
         /\ owner[s] # None => owner[s] \in Members
         /\ disturbances \in Nat
<1>1. /\ start[s] \in 0 .. MaxMessages /\ position[s] \in 0 .. MaxMessages
      /\ committed[s] \in 0 .. MaxMessages \cup {None}
      /\ attempts[s] \in [Offsets -> Attempts]
      /\ owner[s] \in Members \cup {None}
  BY DEF IndInv, TypeOK, Streams
<1>2. Base(s) \in 0 .. MaxMessages /\ Reached(s) \in 0 .. MaxMessages
  BY <1>1 DEF Base, Reached
<1>3. start[s] \in Nat /\ Base(s) \in Nat /\ Reached(s) \in Nat /\ position[s] \in Nat
  BY <1>1, <1>2, Numbers
<1>4. start[s] .. Reached(s) - 1 \subseteq Offsets
  BY <1>1, <1>2, Numbers DEF Offsets
<1>5. \A o \in Offsets : attempts[s][o] \in Attempts /\ attempts[s][o] \in Nat
  BY <1>1, Numbers
<1>6. disturbances \in Nat
  <2>1. disturbances \in 0 .. MaxDisturbances
    BY DEF IndInv, TypeOK
  <2> QED BY <2>1, Numbers
<1> QED BY <1>1, <1>2, <1>3, <1>4, <1>5, <1>6

\* TypeOK in parts: the settings, who is there, and how far the groups are.
Configured == Word("") \notin enabled /\ envFromBeginning \in BOOLEAN

Membership ==
    /\ pod \in [Pods -> {"up", "closing", "down"}]
    /\ member \in [Members -> {"none", "joined", "stopping"}]
    /\ owner \in [StreamsOfGroups -> Members \cup {None}]
    /\ \A m \in Members : pod[m[1]] = "down" => member[m] = "none"
    /\ \A s \in StreamsOfGroups : owner[s] # None => member[owner[s]] # "none"
    /\ ClosingStops

Delivery ==
    /\ produced \in [Topics \X Partitions -> 0 .. MaxMessages]
    /\ position \in [StreamsOfGroups -> 0 .. MaxMessages]
    /\ committed \in [StreamsOfGroups -> 0 .. MaxMessages \cup {None}]
    /\ start \in [StreamsOfGroups -> 0 .. MaxMessages]
    /\ working \in [Members -> [Partitions -> Offsets \cup {None}]]
    /\ attempts \in [StreamsOfGroups -> [Offsets -> Attempts]]
    /\ disturbances \in 0 .. MaxDisturbances

LEMMA TypeParts == TypeOK /\ ClosingStops <=> Configured /\ Membership /\ Delivery
<1>1. owner \in [StreamsOfGroups -> Members \cup {None}] => Streams = StreamsOfGroups
  BY DEF Streams
<1> QED BY <1>1 DEF TypeOK, Configured, Membership, Delivery

\* No action changes the settings.
LEMMA Settled == Next => UNCHANGED config
BY DEF Next, Progress, RegisterConsumer, Produce, Assign, Rebalance, Commit,
   Deliver, Handled, Shutdown, ConsumerDisconnects, DisconnectFails,
   ShutdownResolves, Crash, Restart

\* The consumers keep to their pods, and the partitions to the consumers.
LEMMA MembershipPreserved ==
  ASSUME Membership, Next
  PROVE  Membership'
<1> USE DEF Membership, ClosingStops, Members
<1>1. StreamsOfGroups' = StreamsOfGroups /\ Streams = StreamsOfGroups
  BY Settled, StreamsFixed DEF Streams
<1>2. None \notin Members
  BY Numbers
<1>3. CASE UNCHANGED <<pod, member, owner>>
  BY <1>1, <1>3
<1>4. ASSUME NEW m \in Members, RegisterConsumer(m)
      PROVE  Membership'
  BY <1>1, <1>4 DEF RegisterConsumer
<1>5. ASSUME NEW m \in Members, NEW s \in Streams, Assign(m, s)
      PROVE  Membership'
  BY <1>1, <1>5 DEF Assign
<1>6. ASSUME NEW s \in Streams, Rebalance(s)
      PROVE  Membership'
  BY <1>1, <1>6 DEF Rebalance
<1>7. ASSUME NEW q \in Pods, Shutdown(q)
      PROVE  Membership'
  BY <1>1, <1>7 DEF Shutdown, Booted
<1>8. ASSUME NEW m \in Members, ConsumerDisconnects(m) \/ DisconnectFails(m)
      PROVE  Membership'
  <2>1. /\ UNCHANGED pod
        /\ member' = [member EXCEPT ![m] = "none"]
        /\ owner' = [s \in StreamsOfGroups |->
                       IF owner[s] \in {m} THEN None ELSE owner[s]]
    BY <1>1, <1>8 DEF ConsumerDisconnects, DisconnectFails, Freed
  <2> QED BY <1>1, <2>1
<1>9. ASSUME NEW q \in Pods, ShutdownResolves(q)
      PROVE  Membership'
  BY <1>1, <1>9 DEF ShutdownResolves, AllDisconnected, MembersOf
<1>10. ASSUME NEW q \in Pods, Crash(q)
       PROVE  Membership'
  BY <1>1, <1>10 DEF Crash, Freed, MembersOf
<1>11. ASSUME NEW q \in Pods, Restart(q)
       PROVE  Membership'
  BY <1>1, <1>11 DEF Restart
<1> QED BY <1>3, <1>4, <1>5, <1>6, <1>7, <1>8, <1>9, <1>10, <1>11
        DEF Next, Progress, Produce, Commit, Deliver, Handled

\* Offsets stay within the partitions.
LEMMA DeliveryPreserved ==
  ASSUME Membership, Delivery, Next
  PROVE  Delivery'
<1> USE Numbers DEF Delivery
<1>1. StreamsOfGroups' = StreamsOfGroups /\ Streams = StreamsOfGroups
  BY Settled, StreamsFixed DEF Streams, Membership
<1>2. CASE /\ UNCHANGED <<produced, position, committed, start, attempts>>
           /\ disturbances' \in 0 .. MaxDisturbances
           /\ working' \in [Members -> [Partitions -> Offsets \cup {None}]]
  BY <1>1, <1>2
<1>3. ASSUME NEW m \in Members, NEW s \in Streams, Assign(m, s)
      PROVE  Delivery'
  <2>1. StartOf(m, s) \in 0 .. MaxMessages
    BY <1>1, StreamParts DEF StartOf
  <2> QED BY <1>1, <1>3, <2>1 DEF Assign
<1>4. ASSUME NEW s \in Streams, Commit(s)
      PROVE  Delivery'
  BY <1>1, <1>4 DEF Commit
<1>5. ASSUME NEW tp \in Topics \X Partitions, Produce(tp)
      PROVE  Delivery'
  <2>1. produced' \in [Topics \X Partitions -> 0 .. MaxMessages]
    BY <1>5 DEF Produce
  <2> QED BY <1>1, <1>5, <2>1 DEF Produce
<1>6. ASSUME NEW m \in Members, NEW p \in Partitions, Deliver(m, p)
      PROVE  Delivery'
  <2> DEFINE s == Stream(m, p)
  <2>1. s \in StreamsOfGroups /\ s[2] \in Topics
    BY StreamParts
  <2> HIDE DEF s
  <2>2. position[s] \in Offsets
    <3>1. position[s] < produced[<<s[2], p>>] /\ produced[<<s[2], p>>] \in 0 .. MaxMessages
      BY <1>6, <2>1 DEF Deliver, s
    <3> QED BY <2>1, <3>1 DEF Offsets
  <2>3. working' \in [Members -> [Partitions -> Offsets \cup {None}]]
    BY <1>6, <2>2 DEF Deliver, s
  <2>4. attempts' \in [StreamsOfGroups -> [Offsets -> Attempts]]
    <3>1. attempts' = [attempts EXCEPT ![s] = [attempts[s] EXCEPT ![position[s]] =
                          IF attempts[s][position[s]] + 1 \in Attempts
                          THEN attempts[s][position[s]] + 1
                          ELSE attempts[s][position[s]]]]
      BY <1>6 DEF Deliver, s
    <3>2. attempts[s] \in [Offsets -> Attempts]
      BY <2>1
    <3> QED BY <2>1, <2>2, <3>1, <3>2
  <2> QED BY <1>1, <1>6, <2>3, <2>4 DEF Deliver, PositionOnDelivery
<1>7. ASSUME NEW m \in Members, NEW p \in Partitions, NEW threw \in BOOLEAN,
             Handled(m, p, threw)
      PROVE  Delivery'
  <2> DEFINE s == Stream(m, p)
  <2>1. s \in StreamsOfGroups
    BY StreamParts
  <2> HIDE DEF s
  <2>2. working' \in [Members -> [Partitions -> Offsets \cup {None}]]
    BY <1>7 DEF Handled
  <2>3. position' \in [StreamsOfGroups -> 0 .. MaxMessages]
    <3>1. CASE position' = position
      BY <3>1
    <3>2. CASE position' = [position EXCEPT ![s] = @ + 1] /\ position[s] = working[m][p]
               /\ working[m][p] # None
      <4>1. position[s] \in Offsets
        BY <3>2
      <4>2. position[s] + 1 \in 0 .. MaxMessages
        BY <4>1 DEF Offsets
      <4> QED BY <2>1, <3>2, <4>2
    <3> QED BY <1>7, <3>1, <3>2 DEF Handled, s
  <2> QED BY <1>1, <1>7, <2>2, <2>3 DEF Handled
<1>8. ASSUME NEW m \in Members, ConsumerDisconnects(m)
      PROVE  Delivery'
  BY <1>1, <1>8 DEF ConsumerDisconnects
<1>9. ASSUME NEW q \in Pods, ShutdownResolves(q) \/ Crash(q)
      PROVE  Delivery'
  <2>1. working' \in [Members -> [Partitions -> Offsets \cup {None}]]
    BY <1>9 DEF ShutdownResolves, Crash
  <2>2. disturbances' \in 0 .. MaxDisturbances
    BY <1>9 DEF ShutdownResolves, Crash
  <2> QED BY <1>2, <1>9, <2>1, <2>2 DEF ShutdownResolves, Crash
<1>10. ASSUME NEW m \in Members, RegisterConsumer(m) \/ DisconnectFails(m)
       PROVE  Delivery'
  <2>1. UNCHANGED <<produced, position, committed, start, attempts, working>>
    BY <1>10 DEF RegisterConsumer, DisconnectFails
  <2>2. disturbances' \in 0 .. MaxDisturbances
    BY <1>10 DEF RegisterConsumer, DisconnectFails
  <2> QED BY <1>2, <2>1, <2>2
<1>11. ASSUME NEW s \in Streams, Rebalance(s)
       PROVE  Delivery'
  <2>1. UNCHANGED <<produced, position, committed, start, attempts, working>>
    BY <1>11 DEF Rebalance
  <2>2. disturbances' \in 0 .. MaxDisturbances
    BY <1>11 DEF Rebalance
  <2> QED BY <1>2, <2>1, <2>2
<1>12. ASSUME NEW q \in Pods, Shutdown(q) \/ Restart(q)
       PROVE  Delivery'
  BY <1>2, <1>12 DEF Shutdown, Restart
<1> HIDE DEF Delivery
<1> QED BY <1>3, <1>4, <1>5, <1>6, <1>7, <1>8, <1>9, <1>10, <1>11, <1>12
        DEF Next, Progress

--------------------------------------------------------------------------------
(***************************************************************************)
(* Who is handling what                                                    *)
(***************************************************************************)

\* Work goes on, or is over or lost.
WorkShrinks ==
    \A m \in Members, p \in Partitions : working'[m][p] \in {working[m][p], None}

\* What handle() was called for stays so.
LEMMA CountKept ==
  ASSUME WorkCounted, UNCHANGED <<config, attempts>>, WorkShrinks
  PROVE  WorkCounted'
BY StreamsFixed DEF WorkCounted, WorkShrinks

\* Deliver hands the message at the position over, and counts it.
LEMMA DeliverEffect ==
  ASSUME IndInv, NEW m \in Members, NEW p \in Partitions, Deliver(m, p),
         NEW s, s = Stream(m, p), NEW o, o = position[s]
  PROVE  /\ s \in StreamsOfGroups /\ s[3] = p /\ o \in Offsets
         /\ owner[s] = m /\ working[m][p] = None
         /\ \A n \in Members, r \in Partitions :
              working'[n][r] = IF n = m /\ r = p THEN o ELSE working[n][r]
         /\ \A t \in StreamsOfGroups, u \in Offsets :
              t # s \/ u # o => attempts'[t][u] = attempts[t][u]
         /\ attempts[s][o] \in Nat /\ attempts'[s][o] \in Nat
         /\ attempts'[s][o] > 0 /\ attempts'[s][o] <= attempts[s][o] + 1
         /\ attempts[s][o] > 0 => attempts'[s][o] > 1
         /\ UNCHANGED <<config, owner, position, committed, start, disturbances>>
<1>1. Delivery /\ Membership
  BY TypeParts DEF IndInv
<1>2. s \in StreamsOfGroups /\ s[2] \in Topics /\ s[3] = p
  BY StreamParts
<1>3. o \in Offsets
  <2>1. o < produced[<<s[2], p>>] /\ produced[<<s[2], p>>] \in 0 .. MaxMessages
    BY <1>1, <1>2 DEF Deliver, Delivery
  <2>2. o \in 0 .. MaxMessages
    BY <1>1, <1>2 DEF Delivery
  <2> QED BY <2>1, <2>2, Numbers DEF Offsets
<1>4. /\ owner[s] = m /\ working[m][p] = None
      /\ UNCHANGED <<config, owner, position, committed, start, disturbances>>
  BY DEF Deliver, PositionOnDelivery
<1>5. \A n \in Members, r \in Partitions :
        working'[n][r] = IF n = m /\ r = p THEN o ELSE working[n][r]
  <2>1. working' = [working EXCEPT ![m] = [working[m] EXCEPT ![p] = o]]
    BY DEF Deliver
  <2>2. \A n \in Members : working[n] \in [Partitions -> Offsets \cup {None}]
    BY <1>1 DEF Delivery
  <2> QED BY <1>1, <2>1, <2>2 DEF Delivery
<1>6. attempts' = [attempts EXCEPT ![s] = [attempts[s] EXCEPT ![o] =
                     IF attempts[s][o] + 1 \in Attempts
                     THEN attempts[s][o] + 1 ELSE attempts[s][o]]]
  BY DEF Deliver
<1>7. \A t \in StreamsOfGroups : attempts[t] \in [Offsets -> Attempts]
  BY <1>1 DEF Delivery
<1>8. \A t \in StreamsOfGroups, u \in Offsets :
        t # s \/ u # o => attempts'[t][u] = attempts[t][u]
  BY <1>1, <1>6, <1>7 DEF Delivery
<1>9. attempts'[s][o] = IF attempts[s][o] + 1 \in Attempts
                        THEN attempts[s][o] + 1 ELSE attempts[s][o]
  BY <1>1, <1>2, <1>3, <1>6, <1>7 DEF Delivery
<1>10. attempts[s][o] \in 0 .. MaxDisturbances + 2
  BY <1>2, <1>3, <1>7 DEF Attempts
<1>11. /\ attempts[s][o] \in Nat /\ attempts'[s][o] \in Nat
       /\ attempts'[s][o] > 0 /\ attempts'[s][o] <= attempts[s][o] + 1
       /\ attempts[s][o] > 0 => attempts'[s][o] > 1
  BY <1>9, <1>10, Numbers DEF Attempts
<1> QED BY <1>2, <1>3, <1>4, <1>5, <1>8, <1>11

\* Two consumers handle a message at once only if it was handed over twice.
LEMMA DeliverCounts ==
  ASSUME IndInv, NEW m \in Members, NEW p \in Partitions, Deliver(m, p)
  PROVE  WorkCounted'
<1> DEFINE s == Stream(m, p)
           o == position[s]
<1>1. /\ s \in StreamsOfGroups /\ s[3] = p /\ o \in Offsets
      /\ \A n \in Members, r \in Partitions :
           working'[n][r] = IF n = m /\ r = p THEN o ELSE working[n][r]
      /\ \A t \in StreamsOfGroups, u \in Offsets :
           t # s \/ u # o => attempts'[t][u] = attempts[t][u]
      /\ attempts[s][o] \in Nat /\ attempts'[s][o] \in Nat
      /\ attempts'[s][o] > 0
      /\ attempts[s][o] > 0 => attempts'[s][o] > 1
      /\ UNCHANGED config
  BY DeliverEffect
<1>2. s = Stream(m, p)
  OBVIOUS
<1> HIDE DEF s, o
<1>3. \A n \in Members, r \in Partitions : Stream(n, r)' = Stream(n, r)
  BY <1>1, StreamsFixed
<1>4. \A n \in Members, r \in Partitions :
        working[n][r] # None =>
          /\ working[n][r] \in Offsets
          /\ attempts[Stream(n, r)][working[n][r]] > 0
  BY TypeParts DEF IndInv, WorkCounted, Delivery
<1>5. \A n \in Members, r \in Partitions : Stream(n, r) \in StreamsOfGroups
  BY StreamParts
<1>6. ASSUME NEW n \in Members, NEW r \in Partitions, working'[n][r] # None
      PROVE  attempts'[Stream(n, r)'][working'[n][r]] > 0
  <2>1. CASE n = m /\ r = p
    BY <1>1, <1>2, <1>3, <2>1
  <2>2. CASE ~(n = m /\ r = p)
    <3>1. working'[n][r] = working[n][r]
      BY <1>1, <2>2
    <3>2. CASE Stream(n, r) = s /\ working[n][r] = o
      BY <1>1, <1>3, <3>1, <3>2
    <3>3. CASE ~(Stream(n, r) = s /\ working[n][r] = o)
      BY <1>1, <1>3, <1>4, <1>5, <1>6, <3>1, <3>3
    <3> QED BY <3>2, <3>3
  <2> QED BY <2>1, <2>2
<1>7. ASSUME NEW n1 \in Members, NEW n2 \in Members, NEW r \in Partitions,
             n1 # n2, Stream(n1, r) = Stream(n2, r),
             working'[n1][r] # None, working'[n1][r] = working'[n2][r]
      PROVE  attempts'[Stream(n1, r)][working'[n1][r]] > 1
  <2>1. CASE r = p /\ (n1 = m \/ n2 = m)
    <3>1. Stream(n1, r) = s /\ working'[n1][r] = o
      BY <1>1, <1>2, <1>7, <2>1
    <3>2. working[n1][r] = o \/ working[n2][r] = o
      BY <1>1, <1>7, <2>1
    <3>3. attempts[s][o] > 0
      BY <1>1, <1>4, <1>7, <3>1, <3>2, Numbers
    <3> QED BY <1>1, <3>1, <3>3
  <2>2. CASE ~(r = p /\ (n1 = m \/ n2 = m))
    <3>1. working'[n1][r] = working[n1][r] /\ working'[n2][r] = working[n2][r]
      BY <1>1, <2>2
    <3>2. attempts[Stream(n1, r)][working[n1][r]] > 1
      BY <1>7, <3>1 DEF IndInv, WorkCounted
    <3>3. CASE Stream(n1, r) = s /\ working[n1][r] = o
      BY <1>1, <3>1, <3>2, <3>3
    <3>4. CASE ~(Stream(n1, r) = s /\ working[n1][r] = o)
      BY <1>1, <1>4, <1>5, <1>7, <3>1, <3>2, <3>4
    <3> QED BY <3>3, <3>4
  <2> QED BY <2>1, <2>2
<1> QED BY <1>3, <1>6, <1>7 DEF WorkCounted

\* No other action begins to handle a message.
LEMMA WorkOnlyShrinks ==
  ASSUME Delivery, Next, \A m \in Members, p \in Partitions : ~Deliver(m, p)
  PROVE  WorkShrinks /\ UNCHANGED attempts
<1>1. \A m \in Members : working[m] \in [Partitions -> Offsets \cup {None}]
  BY DEF Delivery
<1>2. ASSUME NEW m \in Members, NEW p \in Partitions, NEW threw \in BOOLEAN,
             Handled(m, p, threw)
      PROVE  WorkShrinks /\ UNCHANGED attempts
  <2>1. working' = [working EXCEPT ![m] = [working[m] EXCEPT ![p] = None]]
    BY <1>2 DEF Handled
  <2> QED BY <1>1, <1>2, <2>1 DEF Handled, WorkShrinks, Delivery
<1>3. ASSUME NEW q \in Pods, ShutdownResolves(q) \/ Crash(q)
      PROVE  WorkShrinks /\ UNCHANGED attempts
  BY <1>3 DEF ShutdownResolves, Crash, WorkShrinks, Delivery
<1>4. CASE UNCHANGED <<working, attempts>>
  BY <1>4 DEF WorkShrinks
<1> QED BY <1>2, <1>3, <1>4 DEF Next, Progress, RegisterConsumer, Produce, Assign,
        Rebalance, Commit, Shutdown, ConsumerDisconnects, DisconnectFails, Restart

LEMMA WorkCountedPreserved == IndInv /\ Next => WorkCounted'
<1> SUFFICES ASSUME IndInv, Next
             PROVE  WorkCounted'
  OBVIOUS
<1>1. Delivery /\ WorkCounted
  BY TypeParts DEF IndInv
<1>2. CASE \E m \in Members, p \in Partitions : Deliver(m, p)
  BY <1>2, DeliverCounts
<1>3. CASE \A m \in Members, p \in Partitions : ~Deliver(m, p)
  BY <1>1, <1>3, WorkOnlyShrinks, CountKept, Settled
<1> QED BY <1>2, <1>3

--------------------------------------------------------------------------------
(***************************************************************************)
(* How far the groups are                                                  *)
(***************************************************************************)

\* A call of handle() that has ended has ended for good.
LEMMA FinishedStays ==
  ASSUME UNCHANGED <<config, attempts>>, WorkShrinks,
         NEW s \in StreamsOfGroups, NEW o \in Offsets, Finished(s, o)
  PROVE  Finished(s, o)'
<1>1. s[3] \in Partitions /\ o # None
  BY StreamParts, Numbers
<1>2. ASSUME NEW m \in Members, attempts[s][o] = 1, Stream(m, s[3]) = s
      PROVE  working'[m][s[3]] # o
  BY <1>1, <1>2 DEF Finished, WorkShrinks
<1> QED BY <1>1, <1>2, StreamsFixed DEF Finished

\* While nothing is delivered, a group may get further over what is finished,
\* and what it falls back behind is paid for by a disturbance.
LEMMA StreamKept ==
  ASSUME IndInv, NEW s \in StreamsOfGroups,
         UNCHANGED <<config, attempts>>, WorkShrinks,
         PositionsOrdered(s)',
         \A o \in start'[s] .. Reached(s)' - 1 : o \in Offsets /\ Finished(s, o)',
         disturbances' \in {disturbances, disturbances + 1},
         \A o \in Offsets : Accounted(s, o) =>
           Accounted(s, o)' \/ disturbances' = disturbances + 1
  PROVE  StreamInv(s)'
<1>1. AllFinished(s)'
  BY DEF AllFinished
<1>2. disturbances \in Nat /\ \A o \in Offsets : attempts[s][o] \in Nat
  BY PositionsTyped
<1>3. \A o \in Offsets :
        attempts[s][o] <= disturbances + IF Accounted(s, o) THEN 1 ELSE 0
  BY DEF IndInv, StreamInv, RepeatsPaid
<1>4. ASSUME NEW o \in Offsets
      PROVE  attempts'[s][o] <= disturbances' + IF Accounted(s, o)' THEN 1 ELSE 0
  <2> HIDE DEF Accounted
  <2> QED BY <1>2, <1>3
<1>5. RepeatsPaid(s)'
  BY <1>4 DEF RepeatsPaid
<1> QED BY <1>1, <1>5 DEF StreamInv

\* Of a stream whose owner goes on, or that stays without one.
LEMMA StreamUntouched ==
  ASSUME IndInv, NEW s \in StreamsOfGroups,
         UNCHANGED <<config, attempts>>, WorkShrinks,
         start'[s] = start[s], committed'[s] = committed[s],
         position'[s] = position[s], owner'[s] = owner[s],
         disturbances' \in {disturbances, disturbances + 1},
         \A o \in Offsets : o = position[s] /\ InHand(s, o) =>
           InHand(s, o)' \/ disturbances' = disturbances + 1
  PROVE  StreamInv(s)'
<1>1. Base(s)' = Base(s) /\ Reached(s)' = Reached(s)
  BY DEF Base, Reached
<1>2. PositionsOrdered(s)'
  BY <1>1 DEF IndInv, StreamInv, PositionsOrdered
<1>3. \A o \in start'[s] .. Reached(s)' - 1 : o \in Offsets /\ Finished(s, o)'
  BY <1>1, PositionsTyped, FinishedStays DEF IndInv, StreamInv, AllFinished
<1>4. ASSUME NEW o \in Offsets, Accounted(s, o)
      PROVE  Accounted(s, o)' \/ disturbances' = disturbances + 1
  <2>1. CASE o < Reached(s) /\ (start[s] <= o \/ committed[s] # None)
    BY <1>1, <2>1 DEF Accounted
  <2>2. CASE o = position[s] /\ InHand(s, o)
    BY <2>2 DEF Accounted
  <2> QED BY <1>4, <2>1, <2>2 DEF Accounted
<1> QED BY <1>2, <1>3, <1>4, StreamKept

\* A rebalance, a failed disconnect or a crash may take the owner away.
LEMMA Interrupted ==
  ASSUME IndInv, NEW s \in StreamsOfGroups,
         UNCHANGED <<config, attempts, position, committed, start>>, WorkShrinks,
         owner'[s] \in {owner[s], None},
         disturbances' = disturbances + 1
  PROVE  StreamInv(s)'
<1>1. Base(s)' = Base(s) /\ Reached(s)' \in {Reached(s), Base(s)}
  BY DEF Base, Reached
<1>2. start[s] <= Base(s) /\ Base(s) <= Reached(s)
  BY DEF IndInv, StreamInv, PositionsOrdered
<1>3. start[s] \in Nat /\ Base(s) \in Nat /\ Reached(s) \in Nat
  BY PositionsTyped
<1>4. PositionsOrdered(s)'
  BY <1>1, <1>2, <1>3 DEF PositionsOrdered
<1>5. start'[s] .. Reached(s)' - 1 \subseteq start[s] .. Reached(s) - 1
  BY <1>1, <1>2, <1>3
<1>6. \A o \in start[s] .. Reached(s) - 1 : o \in Offsets /\ Finished(s, o)'
  BY PositionsTyped, FinishedStays DEF IndInv, StreamInv, AllFinished
<1> QED BY <1>4, <1>5, <1>6, StreamKept

\* Deliver: the message at the position is accounted for from now on.
LEMMA StreamDelivered ==
  ASSUME IndInv, NEW m \in Members, NEW p \in Partitions, Deliver(m, p),
         NEW t \in StreamsOfGroups,
         NEW s, s = Stream(m, p), NEW o, o = position[s]
  PROVE  StreamInv(t)'
<1>1. s = Stream(m, p) /\ o = position[s]
  OBVIOUS
<1>2. /\ s \in StreamsOfGroups /\ s[3] = p /\ o \in Offsets
      /\ owner[s] = m /\ working[m][p] = None
      /\ \A n \in Members, r \in Partitions :
           working'[n][r] = IF n = m /\ r = p THEN o ELSE working[n][r]
      /\ \A u \in StreamsOfGroups, v \in Offsets :
           u # s \/ v # o => attempts'[u][v] = attempts[u][v]
      /\ attempts[s][o] \in Nat /\ attempts'[s][o] \in Nat
      /\ attempts'[s][o] <= attempts[s][o] + 1
      /\ UNCHANGED <<config, owner, position, committed, start, disturbances>>
  BY DeliverEffect
<1>3. Base(t)' = Base(t) /\ Reached(t)' = Reached(t)
  BY <1>2 DEF Base, Reached
<1>4. StreamInv(t) /\ t[3] \in Partitions
  BY StreamParts DEF IndInv
<1>5. PositionsOrdered(t)'
  BY <1>2, <1>3, <1>4 DEF StreamInv, PositionsOrdered
<1>6. Reached(s) = o /\ o \in Nat /\ m # None
  BY <1>1, <1>2, Numbers DEF Reached
<1>7. \A n \in Members : Stream(n, t[3])' = Stream(n, t[3])
  BY <1>2, StreamsFixed
<1>8. ASSUME NEW v \in start[t] .. Reached(t) - 1
      PROVE  Finished(t, v)'
  <2>1. v \in Offsets /\ Finished(t, v) /\ v < Reached(t)
    BY <1>4, PositionsTyped DEF StreamInv, AllFinished
  <2>2. t # s \/ v # o
    BY <1>6, <2>1
  <2>3. attempts'[t][v] = attempts[t][v]
    BY <1>2, <2>1, <2>2
  <2>4. ASSUME NEW n \in Members, attempts[t][v] = 1, Stream(n, t[3]) = t
        PROVE  working'[n][t[3]] # v
    <3>1. CASE n = m /\ t[3] = p
      BY <1>1, <1>2, <1>4, <2>2, <2>4, <3>1
    <3>2. CASE ~(n = m /\ t[3] = p)
      BY <1>2, <1>4, <2>1, <2>4, <3>2 DEF Finished
    <3> QED BY <3>1, <3>2
  <2> QED BY <1>7, <2>1, <2>3, <2>4 DEF Finished
<1>9. AllFinished(t)'
  BY <1>2, <1>3, <1>8 DEF AllFinished
<1>10. disturbances \in Nat /\ \A v \in Offsets : attempts[t][v] \in Nat
  BY PositionsTyped
<1>11. \A v \in Offsets :
         attempts[t][v] <= disturbances + IF Accounted(t, v) THEN 1 ELSE 0
  BY <1>4 DEF StreamInv, RepeatsPaid
<1>12. ASSUME t = s
       PROVE  attempts'[t][o] <= disturbances' + IF Accounted(t, o)' THEN 1 ELSE 0
  <2>1. ~Accounted(s, o)
    BY <1>1, <1>2, <1>6, Numbers DEF Accounted, InHand
  <2>2. InHand(s, o)'
    BY <1>1, <1>2, <1>6, <1>7, <1>12 DEF InHand
  <2>3. Accounted(s, o)'
    BY <1>1, <1>2, <2>2 DEF Accounted
  <2> QED BY <1>2, <1>10, <1>11, <1>12, <2>1, <2>3
<1>13. ASSUME NEW v \in Offsets, t # s \/ v # o
       PROVE  attempts'[t][v] <= disturbances' + IF Accounted(t, v)' THEN 1 ELSE 0
  <2>1. v = position[t] /\ InHand(t, v) => InHand(t, v)'
    <3>1. SUFFICES ASSUME v = position[t], InHand(t, v)
                   PROVE  InHand(t, v)'
      OBVIOUS
    <3>2. owner[t] \in Members
      BY <3>1, PositionsTyped DEF InHand
    <3>3. ~(owner[t] = m /\ t[3] = p)
      BY <1>1, <1>13, <3>1 DEF InHand
    <3> QED BY <1>2, <1>4, <1>7, <3>1, <3>2, <3>3 DEF InHand
  <2>2. Accounted(t, v) => Accounted(t, v)'
    BY <1>2, <1>3, <2>1 DEF Accounted
  <2>3. attempts'[t][v] = attempts[t][v]
    BY <1>2, <1>13
  <2> QED BY <1>2, <1>10, <1>11, <2>2, <2>3
<1>14. RepeatsPaid(t)'
  BY <1>12, <1>13 DEF RepeatsPaid
<1> QED BY <1>5, <1>9, <1>14 DEF StreamInv

\* Handled: if the consumer still owns the partition, the message counts as
\* read, and nobody else is handling it for the first time.
LEMMA StreamHandled ==
  ASSUME IndInv, NEW m \in Members, NEW p \in Partitions, NEW threw \in BOOLEAN,
         Handled(m, p, threw), UNCHANGED config, WorkShrinks,
         NEW t \in StreamsOfGroups,
         NEW s, s = Stream(m, p), NEW o, o = position[s]
  PROVE  StreamInv(t)'
<1> DEFINE resolved == owner[s] = m /\ position[s] = working[m][p]
<1>1. s \in StreamsOfGroups /\ s[3] = p /\ t[3] \in Partitions
  BY StreamParts
<1>2. /\ UNCHANGED <<owner, committed, start, attempts, disturbances>>
      /\ working[m][p] # None
      /\ position' = IF resolved THEN [position EXCEPT ![s] = @ + 1] ELSE position
  BY DEF Handled, Resolves
<1>3. \A n \in Members, r \in Partitions :
        working'[n][r] = IF n = m /\ r = p THEN None ELSE working[n][r]
  <2>1. working' = [working EXCEPT ![m] = [working[m] EXCEPT ![p] = None]]
    BY DEF Handled
  <2>2. Delivery
    BY TypeParts DEF IndInv
  <2> QED BY <2>1, <2>2 DEF Delivery
<1>4. \A n \in Members, r \in Partitions : Stream(n, r)' = Stream(n, r)
  BY StreamsFixed
<1>5. StreamInv(t)
  BY DEF IndInv
<1>6. position \in [StreamsOfGroups -> 0 .. MaxMessages]
  BY TypeParts DEF IndInv, Delivery
<1>7. CASE ~(t = s /\ resolved)
  <2>1. position'[t] = position[t]
    BY <1>1, <1>2, <1>6, <1>7
  <2>2. ASSUME position[t] = position[t], InHand(t, position[t])
        PROVE  InHand(t, position[t])'
    <3>1. owner[t] \in Members
      BY <2>2, PositionsTyped DEF InHand
    <3>2. ~(owner[t] = m /\ t[3] = p)
      BY <1>7, <2>2 DEF InHand
    <3> QED BY <1>1, <1>2, <1>3, <1>4, <2>1, <2>2, <3>1, <3>2 DEF InHand
  <2>3. \A v \in Offsets : v = position[t] /\ InHand(t, v) => InHand(t, v)'
    BY <2>1, <2>2 DEF InHand
  <2> QED BY <1>2, <2>1, <2>3, StreamUntouched
<1>8. CASE t = s /\ resolved
  <2>1. /\ o \in Nat /\ o = working[m][p] /\ o \in Offsets /\ m # None
        /\ position'[s] = o + 1
    <3>1. working[m][p] \in Offsets
      BY <1>2, TypeParts DEF IndInv, Delivery
    <3> QED BY <1>1, <1>2, <1>6, <1>8, <3>1, Numbers
  <2>2. Base(s)' = Base(s) /\ Reached(s) = o /\ Reached(s)' = o + 1
    BY <1>2, <1>8, <2>1 DEF Base, Reached
  <2>3. /\ start[s] \in Nat /\ Base(s) \in Nat
        /\ start[s] <= Base(s) /\ Base(s) <= o
    BY <1>5, <1>8, <2>2, PositionsTyped DEF StreamInv, PositionsOrdered
  <2>4. PositionsOrdered(s)'
    BY <1>2, <2>1, <2>2, <2>3 DEF PositionsOrdered
  <2>5. Finished(s, o)'
    <3>1. attempts[s][o] > 0
      BY <1>8, <2>1, <1>2 DEF IndInv, WorkCounted
    <3>2. ASSUME NEW n \in Members, attempts[s][o] = 1, Stream(n, s[3]) = s
          PROVE  working'[n][s[3]] # o
      <4>1. CASE n = m
        BY <1>1, <1>3, <2>1, <4>1, Numbers
      <4>2. CASE n # m
        <5>1. working[n][p] # o
          <6>1. ASSUME working[n][p] = o
                PROVE  attempts[Stream(m, p)][working[m][p]] > 1
            BY <1>1, <1>2, <2>1, <3>2, <4>2, <6>1 DEF IndInv, WorkCounted
          <6> QED BY <2>1, <3>2, <6>1
        <5> QED BY <1>1, <1>3, <4>2, <5>1
      <4> QED BY <4>1, <4>2
    <3>3. attempts' = attempts /\ s[3] \in Partitions
      BY <1>1, <1>2
    <3> QED BY <1>4, <3>1, <3>2, <3>3 DEF Finished
  <2>6. \A v \in start[s] .. o : v \in Offsets /\ (v = o \/ Finished(s, v)')
    <3>1. \A v \in start[s] .. o : v = o \/ v \in start[s] .. Reached(s) - 1
      BY <2>1, <2>2, <2>3
    <3> QED BY <1>1, <1>2, <1>5, <1>8, <2>1, <3>1, PositionsTyped, FinishedStays
            DEF StreamInv, AllFinished
  <2>7. ASSUME NEW v \in Offsets, Accounted(s, v)
        PROVE  Accounted(s, v)'
    <3>1. v \in Nat /\ v <= o /\ (start[s] <= v \/ committed[s] # None)
      BY <2>1, <2>2, <2>3, <2>7, Numbers DEF Accounted
    <3>2. v < Reached(s)' /\ (start'[s] <= v \/ committed'[s] # None)
      BY <1>2, <2>1, <2>2, <3>1
    <3> QED BY <3>2 DEF Accounted
  <2> QED BY <1>2, <1>8, <2>1, <2>2, <2>3, <2>4, <2>5, <2>6, <2>7, StreamKept
<1> QED BY <1>7, <1>8

\* Assign: the new owner begins where the group is, or where it decides to.
LEMMA StreamAssigned ==
  ASSUME IndInv, NEW m \in Members, NEW s \in StreamsOfGroups, Assign(m, s),
         UNCHANGED config, NEW t \in StreamsOfGroups
  PROVE  StreamInv(t)'
<1>1. /\ owner[s] = None /\ owner' = [owner EXCEPT ![s] = m]
      /\ position' = [position EXCEPT ![s] = StartOf(m, s)]
      /\ start' = IF committed[s] = None
                  THEN [start EXCEPT ![s] = StartOf(m, s)] ELSE start
      /\ UNCHANGED <<committed, working, attempts, disturbances>>
  BY DEF Assign
<1>2. Delivery /\ Membership
  BY TypeParts DEF IndInv
<1>3. WorkShrinks
  BY <1>1 DEF WorkShrinks
<1>4. CASE t # s
  <2>1. UNCHANGED <<owner[t], position[t], start[t], committed[t], working>>
    BY <1>1, <1>2, <1>4 DEF Delivery, Membership
  <2>2. \A o \in Offsets : InHand(t, o) => InHand(t, o)'
    BY <2>1, StreamsFixed DEF InHand
  <2> QED BY <1>1, <1>3, <2>1, <2>2, StreamUntouched
<1>5. CASE t = s
  <2>1. /\ owner'[s] = m /\ m # None /\ committed'[s] = committed[s]
        /\ position'[s] = StartOf(m, s)
    BY <1>1, <1>2, Numbers DEF Delivery, Membership
  <2>2. start'[s] = IF committed[s] = None THEN StartOf(m, s) ELSE start[s]
    BY <1>1, <1>2 DEF Delivery
  <2>3. StartOf(m, s) \in Nat /\ (committed[s] # None => StartOf(m, s) = committed[s])
    BY <1>2, StreamParts, Numbers DEF StartOf, Delivery
  <2>4. Base(s)' = StartOf(m, s) /\ Reached(s)' = StartOf(m, s) /\ Reached(s) = Base(s)
    BY <1>1, <2>1, <2>2, <2>3 DEF Base, Reached
  <2>5. start[s] \in Nat /\ Base(s) \in Nat /\ start[s] <= Base(s)
    BY PositionsTyped DEF IndInv, StreamInv, PositionsOrdered
  <2>6. PositionsOrdered(s)'
    BY <2>2, <2>3, <2>4, <2>5 DEF PositionsOrdered, Base
  <2>7. ASSUME NEW o \in start'[s] .. Reached(s)' - 1
        PROVE  o \in Offsets /\ Finished(s, o)'
    <3>1. committed[s] # None
      BY <2>2, <2>3, <2>4, <2>7
    <3>2. o \in start[s] .. Reached(s) - 1
      BY <2>2, <2>3, <2>4, <2>7, <3>1 DEF Base
    <3>3. o \in Offsets /\ Finished(s, o)
      BY <3>2, PositionsTyped DEF IndInv, StreamInv, AllFinished
    <3> QED BY <1>1, <1>3, <3>3, FinishedStays
  <2>8. ASSUME NEW o \in Offsets, Accounted(s, o)
        PROVE  Accounted(s, o)'
    <3>1. o \in Nat /\ o < Base(s) /\ (start[s] <= o \/ committed[s] # None)
      BY <1>1, <2>4, <2>8, Numbers DEF Accounted, InHand
    <3>2. committed[s] # None
      BY <2>5, <3>1 DEF Base
    <3> QED BY <2>1, <2>3, <2>4, <3>1, <3>2 DEF Accounted, Base
  <2> QED BY <1>1, <1>3, <1>5, <2>6, <2>7, <2>8, StreamKept
<1> QED BY <1>4, <1>5

\* A commit, now and then or of a consumer that disconnects in order, takes
\* nothing from where the group is.
LEMMA StreamCommitted ==
  ASSUME IndInv, NEW s \in StreamsOfGroups,
         UNCHANGED <<config, start, position, working, attempts, disturbances>>,
         owner[s] # None, owner'[s] \in {owner[s], None},
         committed'[s] = IF Uncommitted(s) THEN position[s] ELSE committed[s],
         owner'[s] = owner[s] \/ NotWorking(owner[s])
  PROVE  StreamInv(s)'
<1>1. Reached(s) = position[s]
  BY DEF Reached
<1>2. /\ start[s] \in Nat /\ Base(s) \in Nat /\ position[s] \in Nat
      /\ start[s] <= Base(s) /\ Base(s) <= position[s]
  BY <1>1, PositionsTyped DEF IndInv, StreamInv, PositionsOrdered
<1>3. Base(s)' = position[s] /\ Reached(s)' = position[s]
  BY <1>1, <1>2, Numbers DEF Base, Reached, Uncommitted
<1>4. WorkShrinks
  BY DEF WorkShrinks
<1>5. PositionsOrdered(s)'
  BY <1>2, <1>3 DEF PositionsOrdered
<1>6. \A o \in start'[s] .. Reached(s)' - 1 : o \in Offsets /\ Finished(s, o)'
  BY <1>1, <1>3, <1>4, PositionsTyped, FinishedStays
  DEF IndInv, StreamInv, AllFinished
<1>7. ASSUME NEW o \in Offsets, Accounted(s, o)
      PROVE  Accounted(s, o)'
  <2>1. CASE o < position[s] /\ (start[s] <= o \/ committed[s] # None)
    <3>1. start'[s] <= o \/ committed'[s] # None
      BY <2>1, <1>2, Numbers
    <3> QED BY <1>3, <2>1, <3>1 DEF Accounted
  <2>2. CASE o = position[s] /\ InHand(s, o)
    <3>1. owner[s] \in Members /\ s[3] \in Partitions /\ o # None
      BY PositionsTyped, StreamParts, Numbers
    <3>2. owner'[s] = owner[s]
      BY <2>2, <3>1 DEF InHand, NotWorking
    <3> QED BY <2>2, <3>2, StreamsFixed DEF Accounted, InHand
  <2> QED BY <1>1, <1>7, <2>1, <2>2 DEF Accounted
<1> QED BY <1>4, <1>5, <1>6, <1>7, StreamKept

\* Of streams whose consumers and positions an action leaves alone.
LEMMA StreamsUntouched ==
  ASSUME IndInv, UNCHANGED <<config, owner, position, committed, start, attempts,
                             working, disturbances>>,
         NEW s \in StreamsOfGroups
  PROVE  StreamInv(s)'
<1>1. \A o \in Offsets : InHand(s, o) => InHand(s, o)'
  BY StreamsFixed DEF InHand
<1> QED BY <1>1, StreamUntouched DEF WorkShrinks

LEMMA StreamsPreserved ==
  IndInv /\ Next => \A s \in StreamsOfGroups : StreamInv(s)'
<1> SUFFICES ASSUME IndInv, Next, NEW s \in StreamsOfGroups
             PROVE  StreamInv(s)'
  OBVIOUS
<1>1. UNCHANGED config
  BY Settled
<1>2. Delivery /\ Membership /\ Streams = StreamsOfGroups
  BY TypeParts DEF IndInv, Membership, Streams
<1>3. (\A m \in Members, p \in Partitions : ~Deliver(m, p)) => WorkShrinks /\ UNCHANGED attempts
  BY <1>2, WorkOnlyShrinks
<1>4. ASSUME NEW m \in Members, NEW p \in Partitions, Deliver(m, p)
      PROVE  StreamInv(s)'
  BY <1>4, StreamDelivered
<1>5. ASSUME NEW m \in Members, NEW p \in Partitions, NEW threw \in BOOLEAN,
             Handled(m, p, threw)
      PROVE  StreamInv(s)'
  <2>1. working' = [working EXCEPT ![m] = [working[m] EXCEPT ![p] = None]]
    BY <1>5 DEF Handled
  <2>2. WorkShrinks
    BY <1>2, <2>1 DEF WorkShrinks, Delivery
  <2> QED BY <1>1, <1>5, <2>2, StreamHandled
<1>6. ASSUME NEW m \in Members, NEW t \in Streams, Assign(m, t)
      PROVE  StreamInv(s)'
  BY <1>1, <1>2, <1>6, StreamAssigned
<1>7. ASSUME NEW t \in Streams, Commit(t)
      PROVE  StreamInv(s)'
  <2>1. /\ owner[t] # None /\ Uncommitted(t)
        /\ committed' = [committed EXCEPT ![t] = position[t]]
        /\ UNCHANGED <<owner, start, position, working, attempts, disturbances>>
    BY <1>7 DEF Commit
  <2>2. CASE s = t
    BY <1>1, <1>2, <2>1, <2>2, StreamCommitted DEF Delivery
  <2>3. CASE s # t
    <3>1. committed'[s] = committed[s] /\ WorkShrinks
      BY <1>2, <2>1, <2>3 DEF Delivery, WorkShrinks
    <3>2. \A o \in Offsets : InHand(s, o) => InHand(s, o)'
      BY <1>1, <2>1, StreamsFixed DEF InHand
    <3> QED BY <1>1, <2>1, <3>1, <3>2, StreamUntouched
  <2> QED BY <2>2, <2>3
<1>8. ASSUME NEW m \in Members, ConsumerDisconnects(m)
      PROVE  StreamInv(s)'
  <2>1. /\ owner'[s] = IF owner[s] = m THEN None ELSE owner[s]
        /\ committed'[s] = IF owner[s] = m /\ Uncommitted(s)
                           THEN position[s] ELSE committed[s]
        /\ NotWorking(m) /\ m # None
        /\ UNCHANGED <<start, position, working, attempts, disturbances>>
    BY <1>2, <1>8, Numbers DEF ConsumerDisconnects, Freed, Owned
  <2>2. CASE owner[s] = m
    BY <1>1, <2>1, <2>2, StreamCommitted
  <2>3. CASE owner[s] # m
    <3>1. owner'[s] = owner[s] /\ committed'[s] = committed[s] /\ WorkShrinks
      BY <2>1, <2>3 DEF WorkShrinks
    <3>2. \A o \in Offsets : InHand(s, o) => InHand(s, o)'
      BY <1>1, <2>1, <3>1, StreamsFixed DEF InHand
    <3> QED BY <1>1, <2>1, <3>1, <3>2, StreamUntouched
  <2> QED BY <2>2, <2>3
<1>9. ASSUME NEW q \in Pods, ShutdownResolves(q)
      PROVE  StreamInv(s)'
  <2>1. /\ UNCHANGED <<owner, position, committed, start, attempts, disturbances>>
        /\ pod[q] = "closing" /\ \A m \in Members : m[1] = q => member[m] # "stopping"
        /\ working' = [m \in Members |->
                         IF m[1] = q THEN [p \in Partitions |-> None] ELSE working[m]]
    BY <1>9 DEF ShutdownResolves, AllDisconnected, MembersOf
  <2>2. WorkShrinks
    BY <1>2, <2>1 DEF WorkShrinks, Delivery
  <2>3. owner[s] # None => owner[s] \in Members /\ owner[s][1] # q
    BY <1>2, <2>1 DEF Membership, ClosingStops
  <2>4. \A o \in Offsets : InHand(s, o) => InHand(s, o)'
    BY <1>1, <2>1, <2>3, StreamsFixed DEF InHand
  <2> QED BY <1>1, <2>1, <2>2, <2>4, StreamUntouched
<1>10. ASSUME NEW q \in Pods, Crash(q)
       PROVE  StreamInv(s)'
  <2>1. /\ UNCHANGED <<position, committed, start, attempts>>
        /\ disturbances' = disturbances + 1
        /\ owner'[s] \in {owner[s], None}
        /\ working' = [m \in Members |->
                         IF m[1] = q THEN [p \in Partitions |-> None] ELSE working[m]]
    BY <1>2, <1>10 DEF Crash, Freed
  <2>2. WorkShrinks
    BY <1>2, <2>1 DEF WorkShrinks, Delivery
  <2> QED BY <1>1, <2>1, <2>2, Interrupted
<1>11. ASSUME NEW m \in Members, DisconnectFails(m)
       PROVE  StreamInv(s)'
  <2>1. /\ UNCHANGED <<position, committed, start, attempts, working>>
        /\ disturbances' = disturbances + 1
        /\ owner'[s] \in {owner[s], None}
    BY <1>2, <1>11 DEF DisconnectFails, Freed
  <2> QED BY <1>1, <2>1, Interrupted DEF WorkShrinks
<1>12. ASSUME NEW t \in Streams, Rebalance(t)
       PROVE  StreamInv(s)'
  <2>1. /\ UNCHANGED <<position, committed, start, attempts, working>>
        /\ disturbances' = disturbances + 1
        /\ owner'[s] \in {owner[s], None}
    BY <1>2, <1>12 DEF Rebalance, Membership
  <2> QED BY <1>1, <2>1, Interrupted DEF WorkShrinks
<1>13. CASE UNCHANGED <<owner, position, committed, start, attempts, working,
                        disturbances>>
  BY <1>1, <1>13, StreamsUntouched
<1> QED BY <1>4, <1>5, <1>6, <1>7, <1>8, <1>9, <1>10, <1>11, <1>12, <1>13
        DEF Next, Progress, RegisterConsumer, Produce, Shutdown, Restart

\* Every step preserves IndInv.
LEMMA NextIndInv == IndInv /\ [Next]_vars => IndInv'
<1> SUFFICES ASSUME IndInv, [Next]_vars
             PROVE  IndInv'
  OBVIOUS
<1>1. CASE Next
  <2>1. Configured /\ Membership /\ Delivery
    BY TypeParts DEF IndInv
  <2>2. Configured' /\ UNCHANGED config
    BY <1>1, <2>1, Settled DEF Configured, config
  <2>3. Membership' /\ Delivery'
    BY <1>1, <2>1, MembershipPreserved, DeliveryPreserved
  <2>4. TypeOK' /\ ClosingStops'
    BY <2>2, <2>3, TypeParts, PTL
  <2> QED BY <1>1, <2>2, <2>4, StreamsFixed, WorkCountedPreserved, StreamsPreserved
          DEF IndInv
<1>2. CASE UNCHANGED vars
  <2>1. UNCHANGED <<config, pod, member, produced, owner, position, committed, start,
                    working, attempts, disturbances>>
    BY <1>2 DEF vars
  <2>2. StreamsOfGroups' = StreamsOfGroups /\ Streams' = Streams
    BY <2>1, StreamsFixed DEF Streams
  <2>3. TypeOK' /\ ClosingStops'
    BY <2>1, <2>2 DEF IndInv, TypeOK, ClosingStops, config
  <2>4. WorkCounted'
    BY <2>1, CountKept DEF IndInv, WorkShrinks
  <2> QED BY <2>1, <2>2, <2>3, <2>4, StreamsUntouched DEF IndInv
<1> QED BY <1>1, <1>2

\* IndInv holds in every reachable state.
THEOREM Invariance == Spec => []IndInv
<1> QED BY InitIndInv, NextIndInv, PTL DEF Spec

\* The variables keep their types: a pod that is down has no consumers, and
\* partitions belong to consumers that are there.
THEOREM TypeCorrect == Spec => []TypeOK
<1>1. IndInv => TypeOK
  BY DEF IndInv
<1> QED BY <1>1, Invariance, PTL

\* Whatever a group commits has been handled, through any rebalances,
\* shutdowns and crashes of any number of pods (KafkaConsumerRunner.ts).
THEOREM HandledBeforeCommitted == Spec => []NothingSkipped
<1>1. IndInv => NothingSkipped
  <2> SUFFICES ASSUME IndInv, NEW s \in Streams, committed[s] # None,
                      NEW o \in start[s] .. committed[s] - 1
               PROVE  Finished(s, o)
    BY DEF NothingSkipped, Finished
  <2>1. s \in StreamsOfGroups
    BY DEF IndInv, TypeOK, Streams
  <2>2. /\ start[s] \in Nat /\ committed[s] \in Nat /\ Reached(s) \in Nat
        /\ committed[s] <= Reached(s)
    BY <2>1, PositionsTyped DEF IndInv, StreamInv, PositionsOrdered, Base
  <2>3. o \in start[s] .. Reached(s) - 1
    BY <2>2
  <2> QED BY <2>1, <2>3 DEF IndInv, StreamInv, AllFinished
<1> QED BY <1>1, Invariance, PTL

\* An orderly shutdown and the hand-over to another pod repeat nothing: each
\* further call of handle() takes a disturbance of its own.
THEOREM RepeatsNeedDisturbance == Spec => []RepeatsOnlyIfDisturbed
<1>1. IndInv => RepeatsOnlyIfDisturbed
  <2> SUFFICES ASSUME IndInv, NEW s \in Streams, NEW o \in Offsets
               PROVE  attempts[s][o] <= 1 + disturbances
    BY DEF RepeatsOnlyIfDisturbed
  <2>1. s \in StreamsOfGroups
    BY DEF IndInv, TypeOK, Streams
  <2>2. attempts[s][o] \in Nat /\ disturbances \in Nat
    BY <2>1, PositionsTyped
  <2>3. attempts[s][o] <= disturbances + IF Accounted(s, o) THEN 1 ELSE 0
    BY <2>1 DEF IndInv, StreamInv, RepeatsPaid
  <2> QED BY <2>2, <2>3
<1> QED BY <1>1, Invariance, PTL
================================================================================
