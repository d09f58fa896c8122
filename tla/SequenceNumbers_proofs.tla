------------------------ MODULE SequenceNumbers_proofs -------------------------
(***************************************************************************)
(* What holds of any number of callers, sequences and operations, however  *)
(* transactions conflict, are retried, throw or lose their answers.        *)
(* IndInv says of a call in its callback which numbers it holds: those     *)
(* that follow the value of the document, which nobody else can change     *)
(* until it commits.  So a commit takes as many numbers as its callback    *)
(* increments, at once, which is what SequenceDispenser promises.          *)
(***************************************************************************)
EXTENDS SequenceNumbers, FiniteSetTheorems, TLAPS

\* Only a transaction has a callback, and it draws a number for a key at a time.
StageFits(c) ==
    /\ call[c].stage = "increment" => ~call[c].op.transaction /\ call[c].drawn = <<>>
    /\ call[c].stage = "callback" =>
         call[c].op.transaction /\ Len(call[c].drawn) <= Len(call[c].op.keys)

\* No number is drawn twice.
DrawnDistinct(c) ==
    call[c].stage \in {"callback", "resolved"} =>
      \A i, j \in DOMAIN call[c].drawn :
        i # j /\ call[c].op.keys[i] = call[c].op.keys[j]
          => call[c].drawn[i] # call[c].drawn[j]

\* What a transaction has drawn follows the value of the document.
HeldFollow(c) ==
    \A k \in Keys : Holds(c, k) =>
      \E m \in Drawn(c, k) : Drawn(c, k) = value[k] + 1 .. m

\* Without new keys all documents are there, also in the snapshot.
OldKeysThere(c) ==
    call[c].stage \in {"increment", "callback"} /\ ~call[c].new =>
      \A i \in DOMAIN call[c].op.keys :
        /\ value[call[c].op.keys[i]] > 0
        /\ call[c].drawn # <<>> => call[c].snapshot[call[c].op.keys[i]] > 0

\* A reason for a rejection (RejectedForReason).
HasReason(c) ==
    call[c].stage = "rejected" =>
      \/ call[c].op.throws \/ disturbances > 0
      \/ call[c].op.transaction /\ call[c].attempt = MaxAttempts
      \/ call[c].new

CallInv(c) ==
    /\ StageFits(c) /\ DrawnDistinct(c) /\ HeldFollow(c)
    /\ OldKeysThere(c) /\ HasReason(c)

AllIssued(k) == UNION {Issued(c, k) : c \in Callers}

\* Of the numbers of k, each has gone to one call, or is counted elsewhere.
NumbersGone(k) ==
    /\ AllIssued(k) \cup elsewhere[k] = 1 .. value[k]
    /\ \A c \in Callers :
         /\ Issued(c, k) \cap elsewhere[k] = {}
         /\ \A d \in Callers \ {c} : Issued(c, k) \cap Issued(d, k) = {}

IndInv ==
    /\ TypeOK
    /\ \A c \in Callers : CallInv(c)
    /\ \A k \in Keys : NumbersGone(k)

--------------------------------------------------------------------------------
(***************************************************************************)
(* Lemmas about numbers and calls                                          *)
(***************************************************************************)

\* The numbers that the list d has drawn from k, in the order of keys.
NumbersOf(d, keys, k) == {d[i] : i \in {j \in DOMAIN d : keys[j] = k}}

\* MongoDB accepts the update of increment (mongoPreUpdateMiddleware.ts), and
\* withTransaction joins a transaction.
LEMMA NothingIllegal == Accepted /\ \A c : Joins(c) /\ ~Illegal(c)
<1>1. Accepted
  BY DEF Accepted, PreUpdateMiddleware, WithVersionKey, IncrementUpdate
<1>2. \A c : Joins(c)
  BY DEF Joins
<1> QED BY <1>1, <1>2 DEF Illegal

\* Drawing a number adds it to those of its key only.
LEMMA DrawnAppend ==
  ASSUME NEW keys \in Seq(Keys), NEW d \in Seq(Nat \ {0}), NEW n \in Nat \ {0},
         Len(d) < Len(keys), NEW k \in Keys
  PROVE  /\ Append(d, n) \in Seq(Nat \ {0})
         /\ Len(Append(d, n)) = Len(d) + 1
         /\ DOMAIN Append(d, n) = DOMAIN d \cup {Len(d) + 1}
         /\ \A i \in DOMAIN d : Append(d, n)[i] = d[i]
         /\ Append(d, n)[Len(d) + 1] = n
         /\ NumbersOf(Append(d, n), keys, k) =
              IF keys[Len(d) + 1] = k THEN NumbersOf(d, keys, k) \cup {n}
              ELSE NumbersOf(d, keys, k)
<1> DEFINE e == Append(d, n)
<1>1. /\ e \in Seq(Nat \ {0}) /\ Len(e) = Len(d) + 1
      /\ \A i \in 1 .. Len(d) : e[i] = d[i]
      /\ e[Len(d) + 1] = n
      /\ DOMAIN e = 1 .. Len(d) + 1 /\ DOMAIN d = 1 .. Len(d) /\ Len(d) \in Nat
  OBVIOUS
<1> HIDE DEF e
<1>2. DOMAIN e = DOMAIN d \cup {Len(d) + 1} /\ \A i \in DOMAIN d : e[i] = d[i]
  BY <1>1
<1>3. CASE keys[Len(d) + 1] = k
  <2>1. {j \in DOMAIN e : keys[j] = k} = {j \in DOMAIN d : keys[j] = k} \cup {Len(d) + 1}
    BY <1>2, <1>3
  <2> QED BY <1>1, <1>2, <1>3, <2>1 DEF NumbersOf
<1>4. CASE keys[Len(d) + 1] # k
  <2>1. {j \in DOMAIN e : keys[j] = k} = {j \in DOMAIN d : keys[j] = k}
    BY <1>2, <1>4
  <2> QED BY <1>1, <1>2, <1>4, <2>1 DEF NumbersOf
<1> QED BY <1>1, <1>2, <1>3, <1>4 DEF e

\* The latest of consecutive numbers.
LEMMA LatestIsLast ==
  ASSUME NEW a \in Nat, NEW m \in Nat, a < m
  PROVE  (CHOOSE n \in a + 1 .. m : \A q \in a + 1 .. m : q <= n) = m
OBVIOUS

\* A call that has begun has all its parts.
LEMMA Begun ==
  ASSUME TypeOK, NEW c \in Callers, call[c].stage # "idle"
  PROVE  /\ call[c] \in [stage : {"increment", "callback", "resolved", "rejected"},
                         op : Operations, attempt : 1 .. MaxAttempts,
                         snapshot : [Keys -> Nat], drawn : Seq(Nat \ {0}), new : BOOLEAN]
         /\ call[c].op \in Operations /\ call[c].attempt \in 1 .. MaxAttempts
         /\ call[c].snapshot \in [Keys -> Nat] /\ call[c].drawn \in Seq(Nat \ {0})
         /\ call[c].new \in BOOLEAN /\ call[c].op.keys \in Seq(Keys)
BY SequenceAssumption DEF TypeOK, CallStates, Idle

\* A step of c changes no other call.
LEMMA OthersKept ==
  ASSUME TypeOK, NEW c \in Callers, NEW state, Continue(c, state)
  PROVE  /\ call'[c] = state /\ DOMAIN call' = Callers
         /\ \A d \in Callers \ {c} : call'[d] = call[d]
         /\ \A d \in Callers \ {c}, k \in Keys :
              /\ Drawn(d, k)' = Drawn(d, k)
              /\ Issued(d, k)' = Issued(d, k)
              /\ Holds(d, k)' <=> Holds(d, k)
<1>1. call'[c] = state /\ DOMAIN call' = Callers /\ \A d \in Callers \ {c} : call'[d] = call[d]
  BY DEF TypeOK, Continue
<1>2. \A d \in Callers \ {c}, k \in Keys : Drawn(d, k)' = Drawn(d, k)
  BY <1>1 DEF Drawn
<1>3. ASSUME NEW d \in Callers \ {c}, NEW k \in Keys
      PROVE  Issued(d, k)' = Issued(d, k) /\ (Holds(d, k)' <=> Holds(d, k))
  BY <1>1, <1>2 DEF Issued, Holds, InTransaction
<1> QED BY <1>1, <1>2, <1>3

\* The numbers that a step takes from k go to its call, or are counted elsewhere.
Accounted(c, k) ==
    \/ /\ Issued(c, k)' = value[k] + 1 .. value'[k]
       /\ elsewhere'[k] = elsewhere[k]
    \/ /\ Issued(c, k)' = {}
       /\ elsewhere'[k] = elsewhere[k] \cup (value[k] + 1 .. value'[k])

\* Documents only count up, and not while another transaction holds them.
ValueRises(c) ==
    /\ value' \in [Keys -> Nat]
    /\ \A k \in Keys : value[k] <= value'[k]
    /\ \A k \in Keys : value'[k] # value[k] => ~LockedFor(c, k)

\* A step of c keeps the other calls' part of the invariant.
LEMMA OthersSafe ==
  ASSUME IndInv, NEW c \in Callers, NEW state, Continue(c, state), ValueRises(c),
         disturbances' \in Nat, disturbances <= disturbances',
         NEW d \in Callers \ {c}
  PROVE  CallInv(d)'
<1>1. /\ call'[d] = call[d]
      /\ \A k \in Keys : Drawn(d, k)' = Drawn(d, k) /\ (Holds(d, k)' <=> Holds(d, k))
  BY OthersKept DEF IndInv
<1>2. CallInv(d) /\ value \in [Keys -> Nat] /\ disturbances \in Nat
  BY SequenceAssumption DEF IndInv, TypeOK
<1>3. StageFits(d)' /\ DrawnDistinct(d)'
  BY <1>1, <1>2 DEF CallInv, StageFits, DrawnDistinct
<1>4. ASSUME NEW k \in Keys, Holds(d, k)
      PROVE  value'[k] = value[k]
  BY <1>4 DEF ValueRises, LockedFor
<1>5. HeldFollow(d)'
  BY <1>1, <1>2, <1>4 DEF CallInv, HeldFollow
<1>6. OldKeysThere(d)'
  <2> SUFFICES ASSUME call[d].stage \in {"increment", "callback"}, ~call[d].new,
                      NEW i \in DOMAIN call[d].op.keys
               PROVE  /\ value'[call[d].op.keys[i]] > 0
                      /\ call[d].drawn # <<>> => call[d].snapshot[call[d].op.keys[i]] > 0
    BY <1>1 DEF OldKeysThere
  <2>1. call[d].op.keys[i] \in Keys
    BY Begun DEF IndInv
  <2>2. /\ value[call[d].op.keys[i]] > 0
        /\ call[d].drawn # <<>> => call[d].snapshot[call[d].op.keys[i]] > 0
    BY <1>2 DEF CallInv, OldKeysThere
  <2>3. value[call[d].op.keys[i]] <= value'[call[d].op.keys[i]]
    BY <2>1 DEF ValueRises
  <2> QED BY <1>2, <2>1, <2>2, <2>3 DEF ValueRises
<1>7. HasReason(d)'
  BY <1>1, <1>2 DEF CallInv, HasReason
<1> QED BY <1>3, <1>5, <1>6, <1>7 DEF CallInv

\* No number goes to two calls, and none is left out.
LEMMA NumbersSafe ==
  ASSUME IndInv, NEW c \in Callers, NEW state, Continue(c, state), ValueRises(c),
         call[c].stage # "resolved", NEW k \in Keys, Accounted(c, k)
  PROVE  NumbersGone(k)'
<1>1. \A d \in Callers \ {c} : Issued(d, k)' = Issued(d, k)
  BY OthersKept DEF IndInv
<1>2. Issued(c, k) = {}
  BY DEF Issued
<1>3. value[k] \in Nat /\ value'[k] \in Nat /\ value[k] <= value'[k]
  BY DEF IndInv, TypeOK, ValueRises
<1>4. NumbersGone(k)
  BY DEF IndInv
<1>5. DEFINE new == value[k] + 1 .. value'[k]
             others == UNION {Issued(d, k) : d \in Callers \ {c}}
<1>6. 1 .. value'[k] = (1 .. value[k]) \cup new /\ (1 .. value[k]) \cap new = {}
  BY <1>3
<1>7. AllIssued(k) = others
  BY <1>2 DEF AllIssued
<1>8. AllIssued(k)' = others \cup Issued(c, k)'
  BY <1>1 DEF AllIssued
<1> HIDE DEF new, others
<1>9. others \cup elsewhere[k] = 1 .. value[k]
  BY <1>4, <1>7 DEF NumbersGone
<1>10. AllIssued(k)' \cup elsewhere'[k] = 1 .. value'[k]
  <2>1. Issued(c, k)' \cup elsewhere'[k] = elsewhere[k] \cup new
    BY DEF Accounted, new
  <2>2. (others \cup Issued(c, k)') \cup elsewhere'[k] = (others \cup elsewhere[k]) \cup new
    BY <2>1
  <2>3. (others \cup Issued(c, k)') \cup elsewhere'[k] = 1 .. value'[k]
    BY <1>6, <1>9, <2>2
  <2> QED BY <1>8, <2>3
<1>11. \A d \in Callers \ {c} : Issued(d, k) \subseteq 1 .. value[k]
  BY <1>9 DEF others
<1>12. elsewhere[k] \subseteq 1 .. value[k]
  BY <1>9
<1>13. Issued(c, k)' \subseteq new /\ elsewhere'[k] \subseteq elsewhere[k] \cup new
       /\ Issued(c, k)' \cap elsewhere'[k] = {}
  BY <1>6, <1>12 DEF Accounted, new
<1>14. \A d \in Callers : Issued(d, k)' \cap elsewhere'[k] = {}
  BY <1>1, <1>4, <1>6, <1>11, <1>13 DEF NumbersGone
<1>15. \A d, e \in Callers : d # e => Issued(d, k)' \cap Issued(e, k)' = {}
  BY <1>1, <1>4, <1>6, <1>11, <1>13 DEF NumbersGone
<1> QED BY <1>10, <1>14, <1>15 DEF NumbersGone

\* What a step of c has to show.
LEMMA StepSafe ==
  ASSUME IndInv, NEW c \in Callers, NEW state, Continue(c, state), state \in CallStates,
         call[c].stage # "resolved", ValueRises(c),
         elsewhere' \in [Keys -> SUBSET Nat],
         disturbances' \in 0 .. MaxDisturbances, disturbances <= disturbances',
         \A k \in Keys : Holds(c, k)' => Holds(c, k) \/ ~LockedFor(c, k),
         \A k \in Keys : Accounted(c, k),
         CallInv(c)'
  PROVE  IndInv'
<1>1. disturbances' \in Nat /\ TypeOK
  BY SequenceAssumption DEF IndInv
<1>2. /\ call'[c] = state /\ DOMAIN call' = Callers
      /\ \A d \in Callers \ {c} : call'[d] = call[d]
      /\ \A d \in Callers \ {c}, k \in Keys : Holds(d, k)' <=> Holds(d, k)
  BY <1>1, OthersKept
<1>3. call' \in [Callers -> CallStates]
  BY <1>1 DEF TypeOK, Continue
<1>4. ASSUME NEW k \in Keys, NEW d \in Callers, NEW e \in Callers,
             Holds(d, k)', Holds(e, k)'
      PROVE  d = e
  <2>1. ASSUME NEW x \in Callers \ {c}, Holds(x, k), Holds(c, k)'
        PROVE  FALSE
    <3>1. Holds(c, k)
      BY <2>1 DEF LockedFor
    <3> QED BY <1>1, <2>1, <3>1 DEF TypeOK
  <2> QED BY <1>1, <1>2, <1>4, <2>1 DEF TypeOK
<1>5. TypeOK'
  BY <1>3, <1>4 DEF TypeOK, ValueRises
<1>6. \A d \in Callers : CallInv(d)'
  BY <1>1, OthersSafe
<1>7. \A k \in Keys : NumbersGone(k)'
  BY NumbersSafe
<1> QED BY <1>5, <1>6, <1>7 DEF IndInv

--------------------------------------------------------------------------------
(***************************************************************************)
(* The steps of a call                                                     *)
(***************************************************************************)

\* A step that writes nothing.
LEMMA ValueKept ==
  ASSUME TypeOK, UNCHANGED value
  PROVE  /\ \A c : ValueRises(c)
         /\ \A k \in Keys : value[k] + 1 .. value'[k] = {}
BY DEF TypeOK, ValueRises

LEMMA CalledSafe ==
  ASSUME IndInv, NEW c \in Callers, NEW op \in Operations, Called(c, op)
  PROVE  IndInv'
<1> DEFINE state == [stage |-> IF op.transaction THEN "callback" ELSE "increment",
                     op |-> op, attempt |-> 1, snapshot |-> NoDocument, drawn |-> <<>>,
                     new |-> \E i \in DOMAIN op.keys : value[op.keys[i]] = 0]
<1>1. /\ call[c] = Idle /\ Continue(c, state)
      /\ UNCHANGED <<value, elsewhere, disturbances>>
  BY DEF Called
<1>2. TypeOK /\ call[c].stage = "idle"
  BY <1>1 DEF IndInv, Idle
<1>3. /\ op.keys \in Seq(Keys) /\ op.keys # <<>> /\ op.transaction \in BOOLEAN
      /\ 1 \in 1 .. MaxAttempts /\ NoDocument \in [Keys -> Nat]
  BY SequenceAssumption DEF NoDocument
<1>4. /\ state.stage \in {"increment", "callback"} /\ state.op = op
      /\ state.drawn = <<>> /\ (state.stage = "callback" <=> op.transaction)
      /\ (state.new <=> \E i \in DOMAIN op.keys : value[op.keys[i]] = 0)
  BY <1>3
<1>5. state \in CallStates
  BY <1>3 DEF CallStates
<1> HIDE DEF state
<1>6. call'[c] = state
  BY <1>1, <1>2, OthersKept
<1>7. \A k \in Keys : ~Holds(c, k)' /\ Issued(c, k)' = {}
  BY <1>4, <1>6 DEF Holds, Drawn, Issued
<1>8. \A k \in Keys : Accounted(c, k)
  BY <1>1, <1>2, <1>7, ValueKept DEF Accounted
<1>9. OldKeysThere(c)'
  <2> SUFFICES ASSUME ~state.new, NEW i \in DOMAIN op.keys
               PROVE  value[op.keys[i]] > 0
    BY <1>1, <1>4, <1>6 DEF OldKeysThere
  <2>1. op.keys[i] \in Keys
    BY <1>3
  <2>2. value[op.keys[i]] \in Nat /\ value[op.keys[i]] # 0
    BY <1>2, <1>4, <2>1 DEF TypeOK
  <2> QED BY <2>2
<1>10. StageFits(c)' /\ DrawnDistinct(c)' /\ HasReason(c)'
  BY <1>3, <1>4, <1>6 DEF StageFits, DrawnDistinct, HasReason
<1>11. CallInv(c)'
  BY <1>7, <1>9, <1>10 DEF CallInv, HeldFollow
<1>12. /\ call[c].stage # "resolved" /\ elsewhere' \in [Keys -> SUBSET Nat]
       /\ disturbances' \in 0 .. MaxDisturbances /\ disturbances <= disturbances'
  BY <1>1, <1>2 DEF TypeOK
<1> QED BY <1>1, <1>2, <1>5, <1>7, <1>8, <1>11, <1>12, ValueKept, StepSafe

\* A call that rejects gives its numbers back, unless only its answer was lost.
LEMMA RejectedSafe ==
  ASSUME IndInv, NEW c \in Callers, call[c].stage \in {"increment", "callback"},
         Continue(c, Rejected(c)), ValueRises(c),
         elsewhere' \in [Keys -> SUBSET Nat],
         \A k \in Keys : elsewhere'[k] = elsewhere[k] \cup (value[k] + 1 .. value'[k]),
         disturbances' \in 0 .. MaxDisturbances, disturbances <= disturbances',
         \/ call[c].op.throws \/ disturbances' > 0
         \/ call[c].op.transaction /\ call[c].attempt = MaxAttempts
         \/ call[c].new
  PROVE  IndInv'
<1>1. TypeOK
  BY DEF IndInv
<1>2. Rejected(c) \in CallStates
  <2>1. NoDocument \in [Keys -> Nat] /\ <<>> \in Seq(Nat \ {0})
    BY DEF NoDocument
  <2> QED BY <1>1, <2>1, Begun DEF Rejected, CallStates
<1>3. /\ Rejected(c).stage = "rejected" /\ Rejected(c).op = call[c].op
      /\ Rejected(c).attempt = call[c].attempt /\ Rejected(c).new = call[c].new
  BY <1>1, Begun DEF Rejected
<1>4. call'[c] = Rejected(c)
  BY <1>1, OthersKept
<1>5. \A k \in Keys : ~Holds(c, k)' /\ Issued(c, k)' = {}
  BY <1>3, <1>4 DEF Holds, InTransaction, Issued
<1>6. \A k \in Keys : Accounted(c, k)
  BY <1>5 DEF Accounted
<1>7. CallInv(c)'
  BY <1>3, <1>4, <1>5
  DEF CallInv, StageFits, DrawnDistinct, HeldFollow, OldKeysThere, HasReason
<1> QED BY <1>2, <1>5, <1>6, <1>7, StepSafe

\* A callback that is called again begins without numbers.
LEMMA RetriedSafe ==
  ASSUME IndInv, NEW c \in Callers, call[c].stage = "callback",
         Continue(c, Retried(c)), UNCHANGED <<value, elsewhere>>,
         disturbances' \in 0 .. MaxDisturbances, disturbances <= disturbances'
  PROVE  IndInv'
<1>1. TypeOK /\ CallInv(c) /\ elsewhere' \in [Keys -> SUBSET Nat]
  BY DEF IndInv, TypeOK
<1>2. \A k \in Keys : elsewhere'[k] = elsewhere[k] \cup (value[k] + 1 .. value'[k])
  BY <1>1, ValueKept
<1>3. CASE call[c].attempt < MaxAttempts
  <2> DEFINE state == [call[c] EXCEPT !.attempt = @ + 1, !.drawn = <<>>,
                                      !.snapshot = NoDocument]
  <2>1. Continue(c, state)
    BY <1>3 DEF Retried
  <2>2. state \in CallStates
    <3>1. NoDocument \in [Keys -> Nat] /\ <<>> \in Seq(Nat \ {0})
      BY DEF NoDocument
    <3>2. call[c].attempt + 1 \in 1 .. MaxAttempts
      BY <1>1, <1>3, Begun, SequenceAssumption
    <3> QED BY <1>1, <3>1, <3>2, Begun DEF CallStates
  <2>3. /\ state.stage = "callback" /\ state.op = call[c].op /\ state.drawn = <<>>
        /\ state.new = call[c].new
    BY <1>1, Begun
  <2> HIDE DEF state
  <2>4. call'[c] = state
    BY <1>1, <2>1, OthersKept
  <2>5. \A k \in Keys : ~Holds(c, k)' /\ Issued(c, k)' = {}
    BY <2>3, <2>4 DEF Holds, Drawn, Issued
  <2>6. \A k \in Keys : Accounted(c, k)
    BY <1>2, <2>5 DEF Accounted
  <2>7. Len(<<>>) <= Len(call[c].op.keys)
    BY <1>1, Begun
  <2>8. StageFits(c)' /\ DrawnDistinct(c)' /\ OldKeysThere(c)' /\ HasReason(c)'
    BY <1>1, <2>3, <2>4, <2>7
    DEF CallInv, StageFits, DrawnDistinct, OldKeysThere, HasReason
  <2>9. CallInv(c)'
    BY <2>5, <2>8 DEF CallInv, HeldFollow
  <2> QED BY <1>1, <2>1, <2>2, <2>5, <2>6, <2>9, ValueKept, StepSafe
<1>4. CASE ~(call[c].attempt < MaxAttempts)
  <2>1. Continue(c, Rejected(c))
    BY <1>4 DEF Retried
  <2>2. call[c].attempt = MaxAttempts /\ call[c].op.transaction
    BY <1>1, <1>4, Begun, SequenceAssumption DEF CallInv, StageFits
  <2> QED BY <1>1, <1>2, <2>1, <2>2, ValueKept, RejectedSafe
<1> QED BY <1>3, <1>4

\* In a callback, the numbers held are those after the document's value, up to
\* the latest.
LEMMA HeldUpToLatest ==
  ASSUME IndInv, NEW c \in Callers, call[c].stage = "callback", NEW k \in Keys
  PROVE  /\ value[k] \in Nat /\ Latest(c, k, value[k]) \in Nat
         /\ value[k] <= Latest(c, k, value[k])
         /\ Drawn(c, k) = value[k] + 1 .. Latest(c, k, value[k])
<1>1. value[k] \in Nat
  BY DEF IndInv, TypeOK
<1>2. CASE Drawn(c, k) = {}
  <2>1. Latest(c, k, value[k]) = value[k]
    BY <1>2 DEF Latest
  <2> QED BY <1>1, <1>2, <2>1
<1>3. CASE Drawn(c, k) # {}
  <2>1. PICK m \in Drawn(c, k) : Drawn(c, k) = value[k] + 1 .. m
    BY <1>3 DEF IndInv, CallInv, HeldFollow, Holds, InTransaction
  <2>2. call[c].drawn \in Seq(Nat \ {0})
    BY Begun DEF IndInv
  <2>3. m \in Nat
    BY <2>2 DEF Drawn
  <2>4. value[k] < m
    BY <1>1, <2>1, <2>3
  <2>5. Latest(c, k, value[k]) = CHOOSE n \in value[k] + 1 .. m : \A q \in value[k] + 1 .. m : q <= n
    BY <1>3, <2>1 DEF Latest
  <2>6. Latest(c, k, value[k]) = m
    BY <1>1, <2>3, <2>4, <2>5, LatestIsLast
  <2> QED BY <1>1, <2>1, <2>3, <2>4, <2>6
<1> QED BY <1>2, <1>3

LEMMA IncrementAloneSafe ==
  ASSUME IndInv, NEW c \in Callers, IncrementAlone(c)
  PROVE  IndInv'
<1> DEFINE k == NextKey(c)
           state == [call[c] EXCEPT !.stage = "resolved", !.drawn = <<value[k] + 1>>]
<1>1. /\ call[c].stage = "increment" /\ ~LockedFor(c, k)
      /\ value' = [value EXCEPT ![k] = @ + 1] /\ Continue(c, state)
      /\ UNCHANGED <<elsewhere, disturbances>>
  BY DEF IncrementAlone, Returned
<1>2. TypeOK /\ CallInv(c) /\ value \in [Keys -> Nat]
  BY DEF IndInv, TypeOK
<1>3. /\ call[c].drawn = <<>> /\ Len(call[c].op.keys) = 1
      /\ call[c].op.keys \in Seq(Keys) /\ k = call[c].op.keys[1]
  <2>1. /\ call[c].drawn = <<>> /\ ~call[c].op.transaction
        /\ call[c].op \in Operations /\ call[c].op.keys \in Seq(Keys)
    <3> HIDE DEF k, state
    <3> QED BY <1>1, <1>2, Begun DEF CallInv, StageFits
  <2>2. Len(call[c].op.keys) = 1
    BY <2>1, SequenceAssumption
  <2> QED BY <2>1, <2>2 DEF NextKey
<1>4. k \in Keys /\ value[k] \in Nat
  BY <1>2, <1>3
<1> HIDE DEF k
<1>5. state \in CallStates
  <2>1. <<value[k] + 1>> \in Seq(Nat \ {0})
    BY <1>4
  <2> QED BY <1>1, <1>2, <2>1, Begun DEF CallStates
<1>6. state.stage = "resolved" /\ state.op = call[c].op /\ state.drawn = <<value[k] + 1>>
  BY <1>1, <1>2, Begun
<1> HIDE DEF state
<1>7. call'[c] = state
  BY <1>1, <1>2, OthersKept
<1>8. ValueRises(c)
  BY <1>1, <1>2, <1>4 DEF ValueRises
<1>9. ASSUME NEW q \in Keys
      PROVE  Accounted(c, q)
  <2>1. Issued(c, q)' = NumbersOf(<<value[k] + 1>>, call[c].op.keys, q)
    BY <1>6, <1>7 DEF Issued, Drawn, NumbersOf
  <2>2. NumbersOf(<<value[k] + 1>>, call[c].op.keys, q)
          = IF q = k THEN {value[k] + 1} ELSE {}
    BY <1>3 DEF NumbersOf
  <2>3. value[q] + 1 .. value'[q] = IF q = k THEN {value[k] + 1} ELSE {}
    <3>1. CASE q = k
      BY <1>1, <1>2, <1>4, <3>1
    <3>2. CASE q # k
      <4>1. value'[q] = value[q] /\ value[q] \in Nat
        BY <1>1, <1>2, <3>2
      <4> QED BY <3>2, <4>1
    <3> QED BY <3>1, <3>2
  <2> QED BY <1>1, <2>1, <2>2, <2>3 DEF Accounted
<1>10. \A q \in Keys : ~Holds(c, q)'
  BY <1>6, <1>7 DEF Holds, InTransaction
<1>11. DrawnDistinct(c)'
  <2>1. \A i, j \in DOMAIN <<value[k] + 1>> : i = j
    OBVIOUS
  <2> QED BY <1>6, <1>7, <2>1 DEF DrawnDistinct
<1>12. CallInv(c)'
  BY <1>6, <1>7, <1>10, <1>11
  DEF CallInv, StageFits, HeldFollow, OldKeysThere, HasReason
<1>13. /\ elsewhere' \in [Keys -> SUBSET Nat]
       /\ disturbances' \in 0 .. MaxDisturbances /\ disturbances <= disturbances'
  BY <1>1, <1>2, SequenceAssumption DEF TypeOK
<1> QED BY <1>1, <1>5, <1>8, <1>9, <1>10, <1>12, <1>13, StepSafe

\* A callback that is called draws the number after those of its transaction.
LEMMA IncrementSafe ==
  ASSUME IndInv, NEW c \in Callers, Increment(c)
  PROVE  IndInv'
<1> DEFINE k == NextKey(c)
           n == Latest(c, k, value[k]) + 1
           state == [call[c] EXCEPT !.drawn = Append(@, n), !.snapshot = Snapshot(c)]
<1>1. /\ call[c].stage = "callback" /\ Len(call[c].drawn) < Len(call[c].op.keys)
      /\ ~LockedFor(c, k) /\ Continue(c, state)
      /\ UNCHANGED <<value, elsewhere, disturbances>>
  BY DEF Increment, Ready, Conflicting, WithSession, Returned
<1>2. TypeOK /\ CallInv(c) /\ value \in [Keys -> Nat]
  BY DEF IndInv, TypeOK
<1>3. /\ call[c].op.keys \in Seq(Keys) /\ call[c].drawn \in Seq(Nat \ {0})
      /\ Len(call[c].drawn) \in Nat /\ Len(call[c].op.keys) \in Nat
      /\ Len(call[c].drawn) < Len(call[c].op.keys)
      /\ k = call[c].op.keys[Len(call[c].drawn) + 1] /\ k \in Keys
  <2>1. call[c].op.keys \in Seq(Keys) /\ call[c].drawn \in Seq(Nat \ {0})
    <3> HIDE DEF k, n, state
    <3> QED BY <1>1, <1>2, Begun
  <2>2. k = call[c].op.keys[Len(call[c].drawn) + 1]
    BY DEF NextKey
  <2> HIDE DEF k, n, state
  <2>3. Len(call[c].drawn) \in Nat /\ Len(call[c].op.keys) \in Nat
    BY <2>1
  <2>4. Len(call[c].drawn) + 1 \in DOMAIN call[c].op.keys
    BY <1>1, <2>1, <2>3
  <2>5. call[c].op.keys[Len(call[c].drawn) + 1] \in Keys
    BY <2>1, <2>4
  <2> QED BY <1>1, <2>1, <2>2, <2>3, <2>5
<1>4. /\ \A q \in Keys : Drawn(c, q) = NumbersOf(call[c].drawn, call[c].op.keys, q)
      /\ Drawn(c, k) = value[k] + 1 .. Latest(c, k, value[k])
      /\ value[k] \in Nat /\ Latest(c, k, value[k]) \in Nat
      /\ value[k] <= Latest(c, k, value[k])
  BY <1>1, <1>3, HeldUpToLatest DEF Drawn, NumbersOf
<1> HIDE DEF k
<1>5. n \in Nat \ {0} /\ n \notin Drawn(c, k) /\ Drawn(c, k) \cup {n} = value[k] + 1 .. n
      /\ n \in value[k] + 1 .. n
  BY <1>4
<1>6. Snapshot(c) \in [Keys -> Nat]
  BY <1>1, <1>2, Begun DEF Snapshot
<1> HIDE DEF n
<1> DEFINE d == call[c].drawn
           keys == call[c].op.keys
<1>7. /\ Append(d, n) \in Seq(Nat \ {0}) /\ Len(Append(d, n)) = Len(d) + 1
      /\ DOMAIN Append(d, n) = DOMAIN d \cup {Len(d) + 1}
      /\ \A i \in DOMAIN d : Append(d, n)[i] = d[i]
      /\ Append(d, n)[Len(d) + 1] = n
      /\ \A q \in Keys : NumbersOf(Append(d, n), keys, q) =
           IF q = k THEN NumbersOf(d, keys, q) \cup {n} ELSE NumbersOf(d, keys, q)
  <2>1. /\ keys \in Seq(Keys) /\ d \in Seq(Nat \ {0}) /\ Len(d) < Len(keys)
        /\ k = keys[Len(d) + 1] /\ k \in Keys
    BY <1>3
  <2> HIDE DEF d, keys
  <2> QED BY <1>5, <2>1, DrawnAppend
<1>8. state \in CallStates
  BY <1>1, <1>2, <1>6, <1>7, Begun DEF CallStates
<1>9. /\ state.stage = "callback" /\ state.op = call[c].op /\ state.new = call[c].new
      /\ state.drawn = Append(call[c].drawn, n) /\ state.snapshot = Snapshot(c)
  BY <1>1, <1>2, Begun
<1> HIDE DEF state
<1>10. call'[c] = state
  BY <1>1, <1>2, OthersKept
<1>11. ASSUME NEW q \in Keys
       PROVE  Drawn(c, q)' = IF q = k THEN Drawn(c, k) \cup {n} ELSE Drawn(c, q)
  <2>1. Drawn(c, q)' = NumbersOf(Append(call[c].drawn, n), call[c].op.keys, q)
    BY <1>9, <1>10 DEF Drawn, NumbersOf
  <2> QED BY <1>4, <1>7, <2>1
<1>12. \A q \in Keys : Holds(c, q)' => Holds(c, q) \/ ~LockedFor(c, q)
  BY <1>1, <1>11 DEF Holds, InTransaction
<1>13. \A q \in Keys : Accounted(c, q)
  BY <1>1, <1>2, <1>9, <1>10, ValueKept DEF Accounted, Issued
<1>14. StageFits(c)' /\ HasReason(c)'
  <2>1. Len(Append(call[c].drawn, n)) <= Len(call[c].op.keys)
    BY <1>1, <1>3, <1>7
  <2>2. call[c].op.transaction
    BY <1>1, <1>2 DEF CallInv, StageFits
  <2> QED BY <1>9, <1>10, <2>1, <2>2 DEF StageFits, HasReason
<1>15. DrawnDistinct(c)'
  <2>1. \A i, j \in DOMAIN d : i # j /\ keys[i] = keys[j] => d[i] # d[j]
    BY <1>1, <1>2 DEF CallInv, DrawnDistinct
  <2>2. \A i \in DOMAIN d : keys[i] = k => d[i] # n
    BY <1>5 DEF Drawn
  <2>3. /\ DOMAIN Append(d, n) = DOMAIN d \cup {Len(d) + 1}
        /\ \A i \in DOMAIN d : Append(d, n)[i] = d[i]
        /\ Append(d, n)[Len(d) + 1] = n
    BY <1>7
  <2>4. \A i, j \in DOMAIN Append(d, n) :
          i # j /\ keys[i] = keys[j] => Append(d, n)[i] # Append(d, n)[j]
    <3> HIDE DEF d, keys
    <3>1. keys[Len(d) + 1] = k
      BY <1>3 DEF d, keys
    <3> QED BY <2>1, <2>2, <2>3, <3>1
  <2> QED BY <1>9, <1>10, <2>4 DEF DrawnDistinct
<1>16. HeldFollow(c)'
  BY <1>1, <1>2, <1>5, <1>9, <1>11 DEF CallInv, HeldFollow, Holds, InTransaction
<1>17. OldKeysThere(c)'
  BY <1>1, <1>2, <1>9, <1>10 DEF CallInv, OldKeysThere, Snapshot
<1>18. CallInv(c)'
  BY <1>14, <1>15, <1>16, <1>17 DEF CallInv
<1>19. /\ elsewhere' \in [Keys -> SUBSET Nat]
       /\ disturbances' \in 0 .. MaxDisturbances /\ disturbances <= disturbances'
  BY <1>1, <1>2, SequenceAssumption DEF TypeOK
<1> QED BY <1>1, <1>2, <1>8, <1>12, <1>13, <1>18, <1>19, ValueKept, StepSafe

LEMMA WriteConflictSafe ==
  ASSUME IndInv, NEW c \in Callers, WriteConflict(c)
  PROVE  IndInv'
<1>1. /\ call[c].stage = "callback" /\ Continue(c, Retried(c))
      /\ UNCHANGED <<value, elsewhere, disturbances>>
  BY DEF WriteConflict, Ready
<1>2. disturbances' \in 0 .. MaxDisturbances /\ disturbances <= disturbances'
  BY <1>1, SequenceAssumption DEF IndInv, TypeOK
<1> QED BY <1>1, <1>2, RetriedSafe

\* Only a key that is new can be inserted twice.
LEMMA RefusedSafe ==
  ASSUME IndInv, NEW c \in Callers, Refused(c)
  PROVE  IndInv'
<1>1. /\ DuplicateKey(c) /\ Continue(c, Rejected(c))
      /\ UNCHANGED <<value, elsewhere, disturbances>>
  BY NothingIllegal DEF Refused
<1>2. /\ TypeOK /\ CallInv(c)
      /\ \A k \in Keys : elsewhere'[k] = elsewhere[k] \cup (value[k] + 1 .. value'[k])
  BY <1>1, ValueKept DEF IndInv
<1>3. call[c].stage \in {"increment", "callback"}
  BY <1>1 DEF DuplicateKey, Ready
<1>4. call[c].new
  <2>1. CASE call[c].stage = "increment" /\ call[c].new
    BY <2>1
  <2>2. CASE Ready(c) /\ Snapshot(c)[NextKey(c)] = 0
    <3>1. Len(call[c].drawn) + 1 \in DOMAIN call[c].op.keys
      BY <1>2, <1>3, <2>2, Begun DEF Ready
    <3>2. call[c].drawn = <<>>
            => Snapshot(c)[NextKey(c)] = value[call[c].op.keys[Len(call[c].drawn) + 1]]
      BY DEF Snapshot, NextKey
    <3>3. call[c].drawn # <<>>
            => Snapshot(c)[NextKey(c)]
                 = call[c].snapshot[call[c].op.keys[Len(call[c].drawn) + 1]]
      BY DEF Snapshot, NextKey
    <3>4. call[c].new \in BOOLEAN
      BY <1>2, <1>3, Begun
    <3> QED BY <1>2, <1>3, <2>2, <3>1, <3>2, <3>3, <3>4 DEF CallInv, OldKeysThere
  <2> QED BY <1>1, <2>1, <2>2 DEF DuplicateKey
<1>5. /\ elsewhere' \in [Keys -> SUBSET Nat]
      /\ disturbances' \in 0 .. MaxDisturbances /\ disturbances <= disturbances'
  BY <1>1, <1>2, SequenceAssumption DEF TypeOK
<1> QED BY <1>1, <1>2, <1>3, <1>4, <1>5, ValueKept, RejectedSafe

LEMMA CallbackThrowsSafe ==
  ASSUME IndInv, NEW c \in Callers, CallbackThrows(c)
  PROVE  IndInv'
<1>1. /\ call[c].stage = "callback" /\ call[c].op.throws /\ Continue(c, Rejected(c))
      /\ UNCHANGED <<value, elsewhere, disturbances>>
  BY DEF CallbackThrows, CallbackEnded
<1>2. /\ TypeOK
      /\ \A k \in Keys : elsewhere'[k] = elsewhere[k] \cup (value[k] + 1 .. value'[k])
  BY <1>1, ValueKept DEF IndInv
<1>3. /\ elsewhere' \in [Keys -> SUBSET Nat]
      /\ disturbances' \in 0 .. MaxDisturbances /\ disturbances <= disturbances'
  BY <1>1, <1>2, SequenceAssumption DEF TypeOK
<1> QED BY <1>1, <1>2, <1>3, ValueKept, RejectedSafe

\* A commit writes what the transaction holds.
LEMMA CommittedRises ==
  ASSUME IndInv, NEW c \in Callers, call[c].stage = "callback", value' = Committed(c)
  PROVE  /\ ValueRises(c)
         /\ \A k \in Keys : Drawn(c, k) = value[k] + 1 .. value'[k]
<1>1. \A k \in Keys : value'[k] = Latest(c, k, value[k])
  BY DEF Committed
<1>2. \A k \in Keys : /\ value[k] \in Nat /\ value'[k] \in Nat /\ value[k] <= value'[k]
                      /\ Drawn(c, k) = value[k] + 1 .. value'[k]
  BY <1>1, HeldUpToLatest
<1>3. value' \in [Keys -> Nat]
  BY <1>2 DEF Committed
<1>4. ASSUME NEW k \in Keys, value'[k] # value[k]
      PROVE  ~LockedFor(c, k)
  <2>1. value'[k] \in value[k] + 1 .. value'[k]
    BY <1>2, <1>4
  <2>2. Holds(c, k)
    BY <1>2, <2>1 DEF Holds, InTransaction
  <2> QED BY <2>2 DEF LockedFor, IndInv, TypeOK
<1> QED BY <1>2, <1>3, <1>4 DEF ValueRises

LEMMA CommitTransactionSafe ==
  ASSUME IndInv, NEW c \in Callers, CommitTransaction(c)
  PROVE  IndInv'
<1> DEFINE state == [call[c] EXCEPT !.stage = "resolved", !.snapshot = NoDocument]
<1>1. /\ call[c].stage = "callback" /\ value' = Committed(c) /\ Continue(c, state)
      /\ UNCHANGED <<elsewhere, disturbances>>
  BY DEF CommitTransaction, CallbackEnded
<1>2. TypeOK /\ CallInv(c)
  BY DEF IndInv
<1>3. ValueRises(c) /\ \A k \in Keys : Drawn(c, k) = value[k] + 1 .. value'[k]
  BY <1>1, CommittedRises
<1>4. state \in CallStates
  <2>1. NoDocument \in [Keys -> Nat]
    BY DEF NoDocument
  <2> QED BY <1>1, <1>2, <2>1, Begun DEF CallStates
<1>5. state.stage = "resolved" /\ state.op = call[c].op /\ state.drawn = call[c].drawn
  BY <1>1, <1>2, Begun
<1> HIDE DEF state
<1>6. call'[c] = state
  BY <1>1, <1>2, OthersKept
<1>7. \A k \in Keys : Issued(c, k)' = Drawn(c, k) /\ ~Holds(c, k)'
  BY <1>5, <1>6 DEF Issued, Drawn, Holds, InTransaction
<1>8. \A k \in Keys : Accounted(c, k)
  BY <1>1, <1>3, <1>7 DEF Accounted
<1>9. DrawnDistinct(c)'
  BY <1>1, <1>2, <1>5, <1>6 DEF CallInv, DrawnDistinct
<1>10. CallInv(c)'
  BY <1>5, <1>6, <1>7, <1>9
  DEF CallInv, StageFits, HeldFollow, OldKeysThere, HasReason
<1>11. /\ elsewhere' \in [Keys -> SUBSET Nat]
       /\ disturbances' \in 0 .. MaxDisturbances /\ disturbances <= disturbances'
  BY <1>1, <1>2, SequenceAssumption DEF TypeOK
<1> QED BY <1>1, <1>3, <1>4, <1>7, <1>8, <1>10, <1>11, StepSafe

LEMMA AnswerLostSafe ==
  ASSUME IndInv, NEW c \in Callers, AnswerLost(c)
  PROVE  IndInv'
<1>1. /\ disturbances < MaxDisturbances /\ disturbances' = disturbances + 1
      /\ elsewhere' = [k \in Keys |-> elsewhere[k] \cup (value[k] + 1 .. value'[k])]
      /\ Continue(c, Rejected(c))
  BY DEF AnswerLost
<1>2. TypeOK /\ CallInv(c) /\ value \in [Keys -> Nat]
  BY DEF IndInv, TypeOK
<1>3. /\ disturbances' \in 0 .. MaxDisturbances /\ disturbances <= disturbances'
      /\ disturbances' > 0
  BY <1>1, <1>2, SequenceAssumption DEF TypeOK
<1>4. call[c].stage \in {"increment", "callback"} /\ ValueRises(c)
  <2>1. CASE /\ call[c].stage = "increment" /\ ~LockedFor(c, NextKey(c))
             /\ value' = [value EXCEPT ![NextKey(c)] = @ + 1]
    <3>1. NextKey(c) \in Keys
      BY <1>2, <2>1, Begun, SequenceAssumption DEF CallInv, StageFits, NextKey
    <3> QED BY <1>2, <2>1, <3>1 DEF ValueRises
  <2>2. CASE CallbackEnded(c) /\ value' = Committed(c)
    BY <2>2, CommittedRises DEF CallbackEnded
  <2> QED BY <2>1, <2>2 DEF AnswerLost
<1>5. \A k \in Keys : elsewhere'[k] = elsewhere[k] \cup (value[k] + 1 .. value'[k])
  BY <1>1
<1>6. elsewhere' \in [Keys -> SUBSET Nat]
  <2>1. \A k \in Keys : elsewhere[k] \subseteq Nat /\ (value[k] + 1 .. value'[k]) \subseteq Nat
    BY <1>2, <1>4 DEF TypeOK, ValueRises
  <2> QED BY <1>1, <2>1
<1> QED BY <1>1, <1>3, <1>4, <1>5, <1>6, RejectedSafe

LEMMA CommandFailsSafe ==
  ASSUME IndInv, NEW c \in Callers, CommandFails(c)
  PROVE  IndInv'
<1>1. /\ call[c].stage \in {"increment", "callback"}
      /\ disturbances < MaxDisturbances /\ disturbances' = disturbances + 1
      /\ UNCHANGED <<value, elsewhere>>
  BY DEF CommandFails
<1>2. /\ TypeOK
      /\ \A k \in Keys : elsewhere'[k] = elsewhere[k] \cup (value[k] + 1 .. value'[k])
  BY <1>1, ValueKept DEF IndInv
<1>3. /\ elsewhere' \in [Keys -> SUBSET Nat] /\ disturbances' > 0
      /\ disturbances' \in 0 .. MaxDisturbances /\ disturbances <= disturbances'
  BY <1>1, <1>2, SequenceAssumption DEF TypeOK
<1>4. CASE Continue(c, Rejected(c))
  BY <1>1, <1>2, <1>3, <1>4, ValueKept, RejectedSafe
<1>5. CASE call[c].stage = "callback" /\ Continue(c, Retried(c))
  BY <1>1, <1>3, <1>5, RetriedSafe
<1> QED BY <1>4, <1>5 DEF CommandFails

--------------------------------------------------------------------------------
(***************************************************************************)
(* The theorems                                                            *)
(***************************************************************************)

LEMMA InitIndInv == Init => IndInv
<1> SUFFICES ASSUME Init PROVE IndInv
  OBVIOUS
<1>1. /\ value \in [Keys -> Nat] /\ elsewhere \in [Keys -> SUBSET Nat]
      /\ \A k \in Keys : elsewhere[k] = 1 .. value[k]
  BY DEF Init
<1>2. \A c \in Callers : call[c] = Idle
  BY DEF Init
<1>3. \A c \in Callers : call[c].stage = "idle"
  BY <1>2 DEF Idle
<1>4. \A c \in Callers, k \in Keys : ~Holds(c, k) /\ Issued(c, k) = {}
  BY <1>3 DEF Holds, InTransaction, Issued
<1>5. call \in [Callers -> CallStates]
  BY DEF Init, CallStates
<1>6. TypeOK
  BY <1>1, <1>4, <1>5, SequenceAssumption DEF TypeOK, Init
<1>7. \A c \in Callers : CallInv(c)
  BY <1>3, <1>4
  DEF CallInv, StageFits, DrawnDistinct, HeldFollow, OldKeysThere, HasReason
<1>8. \A k \in Keys : NumbersGone(k)
  <2> SUFFICES ASSUME NEW k \in Keys PROVE NumbersGone(k)
    OBVIOUS
  <2>1. AllIssued(k) = {}
    BY <1>4 DEF AllIssued
  <2> QED BY <1>1, <1>4, <2>1 DEF NumbersGone
<1> QED BY <1>6, <1>7, <1>8 DEF IndInv

LEMMA NextIndInv == IndInv /\ [Next]_vars => IndInv'
<1> SUFFICES ASSUME IndInv, [Next]_vars PROVE IndInv'
  OBVIOUS
<1>1. CASE Next
  <2>1. PICK c \in Callers :
          \/ \E op \in Operations : Called(c, op)
          \/ Proceed(c) \/ AnswerLost(c) \/ CommandFails(c)
    BY <1>1 DEF Next
  <2>2. CASE \E op \in Operations : Called(c, op)
    BY <2>2, CalledSafe
  <2>3. CASE Proceed(c)
    BY <2>3, IncrementAloneSafe, IncrementSafe, WriteConflictSafe, RefusedSafe,
       CallbackThrowsSafe, CommitTransactionSafe DEF Proceed
  <2>4. CASE AnswerLost(c)
    BY <2>4, AnswerLostSafe
  <2>5. CASE CommandFails(c)
    BY <2>5, CommandFailsSafe
  <2> QED BY <2>1, <2>2, <2>3, <2>4, <2>5
<1>2. CASE UNCHANGED vars
  <2>1. /\ value' = value /\ call' = call /\ elsewhere' = elsewhere
        /\ disturbances' = disturbances
    BY <1>2 DEF vars
  <2>2. \A c \in Callers, k \in Keys :
          Drawn(c, k)' = Drawn(c, k) /\ Issued(c, k)' = Issued(c, k)
          /\ (Holds(c, k)' <=> Holds(c, k))
    BY <2>1 DEF Drawn, Issued, Holds, InTransaction
  <2>3. TypeOK'
    BY <2>1, <2>2 DEF IndInv, TypeOK
  <2>4. ASSUME NEW c \in Callers PROVE CallInv(c)'
    <3>1. StageFits(c)' /\ DrawnDistinct(c)' /\ OldKeysThere(c)' /\ HasReason(c)'
      BY <2>1 DEF IndInv, CallInv, StageFits, DrawnDistinct, OldKeysThere, HasReason
    <3>2. HeldFollow(c)'
      BY <2>1, <2>2 DEF IndInv, CallInv, HeldFollow
    <3> QED BY <3>1, <3>2 DEF CallInv
  <2>5. ASSUME NEW k \in Keys PROVE NumbersGone(k)'
    <3>1. AllIssued(k)' = AllIssued(k)
      BY <2>2 DEF AllIssued
    <3> QED BY <2>1, <2>2, <3>1 DEF IndInv, NumbersGone
  <2> QED BY <2>3, <2>4, <2>5 DEF IndInv
<1> QED BY <1>1, <1>2

\* The inductive invariant, of any number of callers and sequences.
THEOREM Invariance == Spec => []IndInv
BY InitIndInv, NextIndInv, PTL DEF Spec

\* Values have their types, and one transaction at a time holds the document of
\* a key (SequenceRepository.increment in withTransaction).
THEOREM TypeCorrect == Spec => []TypeOK
<1>1. IndInv => TypeOK
  BY DEF IndInv
<1> QED BY <1>1, Invariance, PTL

\* Every number up to a sequence's value went to exactly one call that resolved,
\* or to one whose answer was lost, however often withTransaction ran a callback.
THEOREM NumbersGoOnce == Spec => []NumbersExact
<1>1. IndInv => NumbersExact
  <2> SUFFICES ASSUME IndInv PROVE NumbersExact
    OBVIOUS
  <2>1. \A k \in Keys : NumbersGone(k)
    BY DEF IndInv
  <2>2. \A c \in Callers : DrawnDistinct(c)
    BY DEF IndInv, CallInv
  <2>3. ASSUME NEW k \in Keys, NEW c \in Callers, call[c].stage = "resolved",
               NEW i \in DOMAIN call[c].drawn, NEW j \in DOMAIN call[c].drawn,
               i # j, call[c].op.keys[i] = call[c].op.keys[j]
        PROVE  call[c].drawn[i] # call[c].drawn[j]
    BY <2>2, <2>3 DEF DrawnDistinct
  <2> QED BY <2>1, <2>3 DEF NumbersExact, NumbersGone, AllIssued
<1> QED BY <1>1, Invariance, PTL

\* Without a failing command, a call of withTransaction rejects only because its
\* callback threw, its time was over, or another caller inserted its new key.
THEOREM RejectionsHaveReasons == Spec => []RejectedForReason
<1>1. IndInv => RejectedForReason
  BY DEF IndInv, CallInv, HasReason, RejectedForReason
<1> QED BY <1>1, Invariance, PTL
--------------------------------------------------------------------------------
(***************************************************************************)
(* The refinement: SequenceNumbers implements SequenceDispenser            *)
(***************************************************************************)
AskedBar == [c \in Callers |-> IF call[c] = Idle THEN {} ELSE {call[c].op}]
StateBar == [c \in Callers |-> Seen(c)]
GivenBar == [c \in Callers |-> [k \in Keys |-> Issued(c, k)]]

\* SequenceDispenser counts as FiniteSets does.
LEMMA SameCount ==
  ASSUME NEW op, NEW k
  PROVE  D!Count(op, k) = Cardinality({i \in DOMAIN op.keys : op.keys[i] = k})
<1>1. \A S : D!Cardinality(S) = Cardinality(S)
  BY DEF D!Cardinality, Cardinality
<1> QED BY <1>1 DEF D!Count

\* An increment alone takes one number of its key.
LEMMA CountAlone ==
  ASSUME NEW op \in Operations, ~op.transaction, NEW k
  PROVE  D!Count(op, k) = IF k = op.keys[1] THEN 1 ELSE 0
<1>1. DOMAIN op.keys = {1}
  BY SequenceAssumption
<1>2. CASE k = op.keys[1]
  <2>1. {i \in DOMAIN op.keys : op.keys[i] = k} = {1}
    BY <1>1, <1>2
  <2>2. Cardinality({1}) = 1
    BY FS_Singleton
  <2> QED BY <1>2, <2>1, <2>2, SameCount
<1>3. CASE k # op.keys[1]
  <2>1. {i \in DOMAIN op.keys : op.keys[i] = k} = {}
    BY <1>1, <1>3
  <2>2. Cardinality({}) = 0
    BY FS_EmptySet
  <2> QED BY <1>3, <2>1, <2>2, SameCount
<1> QED BY <1>2, <1>3

\* A callback that has ended holds as many numbers of a key as it increments it.
LEMMA CountDrawn ==
  ASSUME IndInv, NEW c \in Callers, CallbackEnded(c), NEW k \in Keys
  PROVE  Committed(c)[k] = value[k] + D!Count(call[c].op, k)
<1> DEFINE keys == call[c].op.keys
           d == call[c].drawn
           places == {i \in DOMAIN keys : keys[i] = k}
           last == Latest(c, k, value[k])
           f == [i \in places |-> d[i]]
<1>1. call[c].stage = "callback" /\ TypeOK /\ CallInv(c)
  BY DEF CallbackEnded, IndInv
<1>2. d \in Seq(Nat \ {0}) /\ keys \in Seq(Keys) /\ call[c].op \in Operations
  BY <1>1, Begun
<1>3. Len(d) = Len(keys)
  BY <1>1, <1>2 DEF CallbackEnded, Ready, CallInv, StageFits
<1>4. DOMAIN d = DOMAIN keys /\ IsFiniteSet(DOMAIN keys)
  <2>1. DOMAIN keys = 1 .. Len(keys) /\ DOMAIN d = 1 .. Len(d) /\ Len(keys) \in Nat
    BY <1>2
  <2>2. IsFiniteSet(1 .. Len(keys))
    BY <2>1, FS_Interval
  <2> QED BY <1>3, <2>1, <2>2
<1>5. IsFiniteSet(places)
  <2>1. places \subseteq DOMAIN keys
    OBVIOUS
  <2> QED BY <1>4, <2>1, FS_Subset
<1>6. /\ value[k] \in Nat /\ last \in Nat /\ value[k] <= last
      /\ Drawn(c, k) = value[k] + 1 .. last
  BY <1>1, HeldUpToLatest
<1>7. Drawn(c, k) = {d[i] : i \in places}
  BY <1>4 DEF Drawn
<1>8. \A i, j \in places : i # j => d[i] # d[j]
  BY <1>1, <1>4 DEF CallInv, DrawnDistinct
<1> HIDE DEF places, last, d, keys
<1>9. f \in Bijection(places, value[k] + 1 .. last)
  <2>1. f \in [places -> value[k] + 1 .. last]
    BY <1>6, <1>7
  <2>2. \A i, j \in places : f[i] = f[j] => i = j
    BY <1>8
  <2>3. \A n \in value[k] + 1 .. last : \E i \in places : f[i] = n
    BY <1>6, <1>7
  <2> HIDE DEF f
  <2> QED BY <2>1, <2>2, <2>3 DEF Bijection, Injection, Surjection, IsInjective
<1>10. /\ IsFiniteSet(value[k] + 1 .. last)
       /\ Cardinality(value[k] + 1 .. last) = last - value[k]
  <2>1. value[k] + 1 \in Int /\ last \in Int
    BY <1>6
  <2>2. /\ IsFiniteSet(value[k] + 1 .. last)
        /\ Cardinality(value[k] + 1 .. last) =
             IF value[k] + 1 > last THEN 0 ELSE last - (value[k] + 1) + 1
    BY <2>1, FS_Interval
  <2> QED BY <1>6, <2>2
<1>11. Cardinality(places) = last - value[k]
  <2>1. ExistsBijection(places, value[k] + 1 .. last)
    BY <1>9 DEF ExistsBijection
  <2> QED BY <1>5, <1>10, <2>1, FS_Bijection
<1>12. D!Count(call[c].op, k) = Cardinality(places)
  BY SameCount DEF places, keys
<1>13. Committed(c)[k] = last
  BY DEF Committed, last
<1> QED BY <1>6, <1>11, <1>12, <1>13

\* What a step of c changes of what callers see.
LEMMA BarsStep ==
  ASSUME TypeOK, NEW c \in Callers, NEW state, Continue(c, state)
  PROVE  /\ StateBar' = [StateBar EXCEPT ![c] = Seen(c)']
         /\ GivenBar' = [GivenBar EXCEPT ![c] = [k \in Keys |-> Issued(c, k)']]
         /\ AskedBar' = [AskedBar EXCEPT ![c] = IF state = Idle THEN {} ELSE {state.op}]
<1>1. /\ call'[c] = state
      /\ \A d \in Callers \ {c} : call'[d] = call[d]
      /\ \A d \in Callers \ {c}, k \in Keys : Issued(d, k)' = Issued(d, k)
  BY OthersKept
<1>2. \A d \in Callers \ {c} : Seen(d)' = Seen(d)
  BY <1>1 DEF Seen
<1>3. StateBar' = [StateBar EXCEPT ![c] = Seen(c)']
  BY <1>2 DEF StateBar
<1>4. GivenBar' = [GivenBar EXCEPT ![c] = [k \in Keys |-> Issued(c, k)']]
  BY <1>1 DEF GivenBar
<1>5. AskedBar' = [AskedBar EXCEPT ![c] = IF state = Idle THEN {} ELSE {state.op}]
  BY <1>1 DEF AskedBar
<1> QED BY <1>3, <1>4, <1>5

\* A step within a call, and one that ends it, as the caller sees it.
LEMMA CallStep ==
  ASSUME IndInv, NEW c \in Callers, call[c].stage \in {"increment", "callback"},
         NEW state, Continue(c, state), state.op = call[c].op,
         state.stage \in {"increment", "callback", "resolved", "rejected"}
  PROVE  /\ StateBar[c] = "waiting" /\ AskedBar[c] = {call[c].op}
         /\ AskedBar' = AskedBar
         /\ state.stage = "resolved" =>
              /\ StateBar' = [StateBar EXCEPT ![c] = "served"]
              /\ GivenBar' = [GivenBar EXCEPT ![c] = [k \in Keys |-> Issued(c, k)']]
         /\ state.stage = "rejected" =>
              /\ StateBar' = [StateBar EXCEPT ![c] = "failed"]
              /\ GivenBar' = GivenBar
         /\ state.stage \in {"increment", "callback"} =>
              StateBar' = StateBar /\ GivenBar' = GivenBar
<1>1. TypeOK
  BY DEF IndInv
<1>2. /\ StateBar' = [StateBar EXCEPT ![c] = Seen(c)']
      /\ GivenBar' = [GivenBar EXCEPT ![c] = [k \in Keys |-> Issued(c, k)']]
      /\ AskedBar' = [AskedBar EXCEPT ![c] = IF state = Idle THEN {} ELSE {state.op}]
      /\ call'[c] = state
  BY <1>1, BarsStep, OthersKept
<1>3. StateBar[c] = "waiting" /\ AskedBar[c] = {call[c].op}
  BY DEF StateBar, Seen, AskedBar, Idle
<1>4. AskedBar' = AskedBar
  <2>1. state # Idle
    BY DEF Idle
  <2> QED BY <1>2, <1>3, <2>1 DEF AskedBar
<1>5. GivenBar[c] = [k \in Keys |-> {}]
  BY DEF GivenBar, Issued
<1>6. state.stage # "resolved" => GivenBar' = GivenBar
  <2>1. ASSUME state.stage # "resolved", NEW k \in Keys
        PROVE  Issued(c, k)' = {}
    BY <1>2, <2>1 DEF Issued
  <2>2. ASSUME state.stage # "resolved"
        PROVE  [k \in Keys |-> Issued(c, k)'] = [k \in Keys |-> {}]
    BY <2>1, <2>2
  <2> QED BY <1>2, <1>5, <2>2 DEF GivenBar
<1>7. Seen(c)' = CASE state.stage \in {"increment", "callback"} -> "waiting"
                   [] state.stage = "resolved" -> "served"
                   [] state.stage = "rejected" -> "failed"
                   [] OTHER -> "idle"
  BY <1>2 DEF Seen
<1>8. state.stage \in {"increment", "callback"} => StateBar' = StateBar
  BY <1>2, <1>3, <1>7 DEF StateBar
<1> QED BY <1>2, <1>3, <1>4, <1>6, <1>7, <1>8

\* A call that resolves is served, if it gets the next numbers of its keys.
LEMMA Served ==
  ASSUME IndInv, NEW c \in Callers, call[c].stage \in {"increment", "callback"},
         NEW state, Continue(c, state), state.op = call[c].op, state.stage = "resolved",
         elsewhere' = elsewhere,
         value' = [k \in Keys |-> value[k] + D!Count(call[c].op, k)],
         \A k \in Keys : Issued(c, k)' = value[k] + 1 .. value'[k]
  PROVE  D!Serve(c)
<1>1. /\ StateBar[c] = "waiting" /\ AskedBar[c] = {call[c].op} /\ AskedBar' = AskedBar
      /\ StateBar' = [StateBar EXCEPT ![c] = "served"]
      /\ GivenBar' = [GivenBar EXCEPT ![c] = [k \in Keys |-> Issued(c, k)']]
  BY CallStep
<1>2. D!After(call[c].op) = value'
  BY DEF D!After
<1>3. [k \in Keys |-> Issued(c, k)'] = D!Numbers(call[c].op)
  BY <1>2 DEF D!Numbers
<1>4. /\ StateBar[c] = "waiting" /\ StateBar' = [StateBar EXCEPT ![c] = "served"]
      /\ \E op \in AskedBar[c] :
           /\ value' = D!After(op)
           /\ GivenBar' = [GivenBar EXCEPT ![c] = D!Numbers(op)]
      /\ UNCHANGED <<elsewhere, AskedBar>>
  BY <1>1, <1>2, <1>3
<1> QED BY <1>4 DEF D!Serve, StateBar, AskedBar, GivenBar

\* A call that rejects fails, if the numbers that it took are lost.
LEMMA Failed ==
  ASSUME IndInv, NEW c \in Callers, call[c].stage \in {"increment", "callback"},
         Continue(c, Rejected(c)),
         \/ UNCHANGED <<value, elsewhere>>
         \/ /\ value' = [k \in Keys |-> value[k] + D!Count(call[c].op, k)]
            /\ elsewhere' = [k \in Keys |-> elsewhere[k] \cup (value[k] + 1 .. value'[k])]
  PROVE  D!Fail(c)
<1>1. Rejected(c).op = call[c].op /\ Rejected(c).stage = "rejected"
  BY Begun DEF IndInv, Rejected
<1>2. /\ StateBar[c] = "waiting" /\ AskedBar[c] = {call[c].op} /\ AskedBar' = AskedBar
      /\ StateBar' = [StateBar EXCEPT ![c] = "failed"] /\ GivenBar' = GivenBar
  BY <1>1, CallStep
<1>3. /\ StateBar[c] = "waiting" /\ StateBar' = [StateBar EXCEPT ![c] = "failed"]
      /\ \/ UNCHANGED <<value, elsewhere>>
         \/ \E op \in AskedBar[c] :
              /\ value' = D!After(op)
              /\ elsewhere' = [k \in Keys |-> elsewhere[k] \cup D!Numbers(op)[k]]
      /\ UNCHANGED <<AskedBar, GivenBar>>
  <2>1. CASE UNCHANGED <<value, elsewhere>>
    BY <1>2, <2>1
  <2>2. CASE /\ value' = [k \in Keys |-> value[k] + D!Count(call[c].op, k)]
             /\ elsewhere' = [k \in Keys |-> elsewhere[k] \cup (value[k] + 1 .. value'[k])]
    <3>1. D!After(call[c].op) = value'
      BY <2>2 DEF D!After
    <3>2. \A k \in Keys : D!Numbers(call[c].op)[k] = value[k] + 1 .. value'[k]
      BY <3>1 DEF D!Numbers
    <3>3. elsewhere' = [k \in Keys |-> elsewhere[k] \cup D!Numbers(call[c].op)[k]]
      BY <2>2, <3>2
    <3> QED BY <1>2, <3>1, <3>3
  <2> QED BY <2>1, <2>2
<1> QED BY <1>3 DEF D!Fail, StateBar, AskedBar, GivenBar

\* Within a call nothing happens, as far as callers can see.
LEMMA Unseen ==
  ASSUME IndInv, NEW c \in Callers, call[c].stage \in {"increment", "callback"},
         NEW state, Continue(c, state), state.op = call[c].op,
         state.stage \in {"increment", "callback"}, UNCHANGED <<value, elsewhere>>
  PROVE  UNCHANGED D!vars
<1>1. AskedBar' = AskedBar /\ StateBar' = StateBar /\ GivenBar' = GivenBar
  BY CallStep
<1> QED BY <1>1 DEF D!vars, StateBar, AskedBar, GivenBar

LEMMA CalledAsks ==
  ASSUME IndInv, NEW c \in Callers, NEW op \in Operations, Called(c, op)
  PROVE  D!Ask(c, op)
<1> DEFINE state == [stage |-> IF op.transaction THEN "callback" ELSE "increment",
                     op |-> op, attempt |-> 1, snapshot |-> NoDocument, drawn |-> <<>>,
                     new |-> \E i \in DOMAIN op.keys : value[op.keys[i]] = 0]
<1>1. TypeOK /\ call[c] = Idle /\ Continue(c, state) /\ UNCHANGED <<value, elsewhere>>
  BY DEF Called, IndInv
<1>2. state.stage \in {"increment", "callback"} /\ state.op = op
  OBVIOUS
<1> HIDE DEF state
<1>3. state # Idle
  BY <1>2 DEF Idle
<1>4. /\ StateBar' = [StateBar EXCEPT ![c] = Seen(c)']
      /\ GivenBar' = [GivenBar EXCEPT ![c] = [k \in Keys |-> Issued(c, k)']]
      /\ AskedBar' = [AskedBar EXCEPT ![c] = {op}]
      /\ call'[c] = state
  BY <1>1, <1>2, <1>3, BarsStep, OthersKept
<1>5. Seen(c)' = "waiting" /\ StateBar[c] = "idle"
  BY <1>1, <1>2, <1>4 DEF Seen, StateBar, Idle
<1>6. GivenBar' = GivenBar
  <2>1. \A k \in Keys : Issued(c, k)' = {} /\ Issued(c, k) = {}
    BY <1>1, <1>2, <1>4 DEF Issued, Idle
  <2>2. [k \in Keys |-> Issued(c, k)'] = [k \in Keys |-> {}]
    BY <2>1
  <2>3. GivenBar[c] = [k \in Keys |-> {}]
    BY <2>1 DEF GivenBar
  <2> QED BY <1>4, <2>2, <2>3 DEF GivenBar
<1>7. /\ StateBar[c] = "idle" /\ StateBar' = [StateBar EXCEPT ![c] = "waiting"]
      /\ AskedBar' = [AskedBar EXCEPT ![c] = {op}]
      /\ UNCHANGED <<value, elsewhere, GivenBar>>
  BY <1>1, <1>4, <1>5, <1>6
<1> QED BY <1>7 DEF D!Ask, StateBar, AskedBar, GivenBar

\* What an increment alone writes, resolved or not.
LEMMA AloneWrites ==
  ASSUME IndInv, NEW c \in Callers, call[c].stage = "increment",
         value' = [value EXCEPT ![NextKey(c)] = @ + 1]
  PROVE  /\ NextKey(c) = call[c].op.keys[1]
         /\ value' = [k \in Keys |-> value[k] + D!Count(call[c].op, k)]
<1>1. TypeOK /\ CallInv(c) /\ value \in [Keys -> Nat]
  BY DEF IndInv, TypeOK
<1>2. call[c].op \in Operations /\ call[c].drawn = <<>> /\ ~call[c].op.transaction
  BY <1>1, Begun DEF CallInv, StageFits
<1>3. NextKey(c) = call[c].op.keys[1]
  BY <1>2 DEF NextKey
<1>4. \A k \in Keys : D!Count(call[c].op, k) = IF k = NextKey(c) THEN 1 ELSE 0
  BY <1>2, <1>3, CountAlone
<1>5. \A k \in Keys : value'[k] = value[k] + D!Count(call[c].op, k)
  BY <1>1, <1>4
<1> QED BY <1>1, <1>3, <1>5

LEMMA IncrementAloneServes ==
  ASSUME IndInv, NEW c \in Callers, IncrementAlone(c)
  PROVE  D!Serve(c)
<1> DEFINE k0 == NextKey(c)
           state == [call[c] EXCEPT !.stage = "resolved",
                                    !.drawn = <<Returned(value[k0] + 1)>>]
<1>1. /\ call[c].stage = "increment" /\ elsewhere' = elsewhere
      /\ value' = [value EXCEPT ![k0] = @ + 1] /\ Continue(c, state)
  BY DEF IncrementAlone
<1>2. TypeOK /\ value \in [Keys -> Nat] /\ CallInv(c)
  BY DEF IndInv, TypeOK
<1>3. /\ k0 = call[c].op.keys[1]
      /\ value' = [k \in Keys |-> value[k] + D!Count(call[c].op, k)]
  BY <1>1, AloneWrites
<1>4. /\ state.stage = "resolved" /\ state.op = call[c].op
      /\ state.drawn = <<value[k0] + 1>>
  BY <1>1, <1>2, Begun DEF Returned
<1> HIDE DEF k0, state
<1>5. call'[c] = state
  BY <1>1, <1>2, OthersKept
<1>6. ASSUME NEW k \in Keys
      PROVE  Issued(c, k)' = value[k] + 1 .. value'[k]
  <2>1. Issued(c, k)' = IF call[c].op.keys[1] = k THEN {value[k0] + 1} ELSE {}
    <3>1. call'[c].stage = "resolved" /\ call'[c].op.keys[1] = call[c].op.keys[1]
          /\ call'[c].drawn = <<value[k0] + 1>>
      BY <1>4, <1>5
    <3>2. DOMAIN call'[c].drawn = {1} /\ call'[c].drawn[1] = value[k0] + 1
      BY <3>1
    <3> QED BY <3>1, <3>2 DEF Issued, Drawn
  <2>2. value[k] \in Nat /\ value'[k] = IF k = k0 THEN value[k] + 1 ELSE value[k]
    BY <1>1, <1>2
  <2>3. CASE k = k0
    <3>1. value[k] + 1 .. value'[k] = {value[k] + 1}
      BY <2>2, <2>3
    <3> QED BY <1>3, <2>1, <2>3, <3>1
  <2>4. CASE k # k0
    <3>1. value[k] + 1 .. value'[k] = {}
      BY <2>2, <2>4
    <3> QED BY <1>3, <2>1, <2>4, <3>1
  <2> QED BY <2>3, <2>4
<1> QED BY <1>1, <1>3, <1>4, <1>6, Served

LEMMA CommittedCounts ==
  ASSUME IndInv, NEW c \in Callers, CallbackEnded(c)
  PROVE  Committed(c) = [k \in Keys |-> value[k] + D!Count(call[c].op, k)]
BY CountDrawn DEF Committed

LEMMA CommitTransactionServes ==
  ASSUME IndInv, NEW c \in Callers, CommitTransaction(c)
  PROVE  D!Serve(c)
<1> DEFINE state == [call[c] EXCEPT !.stage = "resolved", !.snapshot = NoDocument]
<1>1. /\ call[c].stage = "callback" /\ value' = Committed(c) /\ Continue(c, state)
      /\ elsewhere' = elsewhere /\ TypeOK
  BY DEF CommitTransaction, CallbackEnded, IndInv
<1>2. \A k \in Keys : Drawn(c, k) = value[k] + 1 .. value'[k]
  BY <1>1, CommittedRises
<1>3. value' = [k \in Keys |-> value[k] + D!Count(call[c].op, k)]
  BY <1>1, CommittedCounts DEF CommitTransaction
<1>4. state.stage = "resolved" /\ state.op = call[c].op /\ state.drawn = call[c].drawn
  BY <1>1, Begun
<1> HIDE DEF state
<1>5. call'[c] = state
  BY <1>1, OthersKept
<1>6. \A k \in Keys : Issued(c, k)' = value[k] + 1 .. value'[k]
  BY <1>2, <1>4, <1>5 DEF Issued, Drawn
<1> QED BY <1>1, <1>3, <1>4, <1>6, Served

LEMMA AnswerLostFails ==
  ASSUME IndInv, NEW c \in Callers, AnswerLost(c)
  PROVE  D!Fail(c)
<1>1. /\ Continue(c, Rejected(c))
      /\ elsewhere' = [k \in Keys |-> elsewhere[k] \cup (value[k] + 1 .. value'[k])]
  BY DEF AnswerLost
<1>2. CASE /\ call[c].stage = "increment"
           /\ value' = [value EXCEPT ![NextKey(c)] = @ + 1]
  BY <1>1, <1>2, AloneWrites, Failed
<1>3. CASE CallbackEnded(c) /\ value' = Committed(c)
  BY <1>1, <1>3, CommittedCounts, Failed DEF CallbackEnded
<1> QED BY <1>2, <1>3 DEF AnswerLost

\* An attempt that is over is made again unseen, or the call fails.
LEMMA RetriedUnseen ==
  ASSUME IndInv, NEW c \in Callers, call[c].stage = "callback",
         Continue(c, Retried(c)), UNCHANGED <<value, elsewhere>>
  PROVE  D!Fail(c) \/ UNCHANGED D!vars
<1>1. CASE call[c].attempt < MaxAttempts
  <2>1. Retried(c).stage = "callback" /\ Retried(c).op = call[c].op
    BY <1>1, Begun DEF Retried, IndInv
  <2> QED BY <2>1, Unseen
<1>2. CASE ~(call[c].attempt < MaxAttempts)
  BY <1>2, Failed DEF Retried
<1> QED BY <1>1, <1>2

LEMMA IncrementUnseen ==
  ASSUME IndInv, NEW c \in Callers, Increment(c)
  PROVE  UNCHANGED D!vars
<1> DEFINE n == Returned(Latest(c, NextKey(c), Snapshot(c)[NextKey(c)]) + 1)
           state == [call[c] EXCEPT !.drawn = Append(@, n), !.snapshot = Snapshot(c)]
<1>1. /\ call[c].stage = "callback" /\ Continue(c, state) /\ UNCHANGED <<value, elsewhere>>
  BY DEF Increment, WithSession, Ready
<1>2. state.stage = "callback" /\ state.op = call[c].op
  BY <1>1, Begun DEF IndInv
<1> QED BY <1>1, <1>2, Unseen

LEMMA ProceedDispenses ==
  ASSUME IndInv, NEW c \in Callers, Proceed(c)
  PROVE  D!Serve(c) \/ D!Fail(c) \/ UNCHANGED D!vars
<1>1. CASE IncrementAlone(c)
  BY <1>1, IncrementAloneServes
<1>2. CASE Increment(c)
  BY <1>2, IncrementUnseen
<1>3. CASE WriteConflict(c)
  BY <1>3, RetriedUnseen DEF WriteConflict, Ready
<1>4. CASE Refused(c)
  <2>1. call[c].stage \in {"increment", "callback"}
    BY <1>4 DEF Refused, DuplicateKey, Illegal, Ready
  <2> QED BY <1>4, <2>1, Failed DEF Refused
<1>5. CASE CallbackThrows(c)
  BY <1>5, Failed DEF CallbackThrows, CallbackEnded
<1>6. CASE CommitTransaction(c)
  BY <1>6, CommitTransactionServes
<1> QED BY <1>1, <1>2, <1>3, <1>4, <1>5, <1>6 DEF Proceed

LEMMA CommandFailsDispenses ==
  ASSUME IndInv, NEW c \in Callers, CommandFails(c)
  PROVE  D!Fail(c) \/ UNCHANGED D!vars
<1>1. CASE Continue(c, Rejected(c))
  BY <1>1, Failed DEF CommandFails
<1>2. CASE call[c].stage = "callback" /\ Continue(c, Retried(c))
  BY <1>2, RetriedUnseen DEF CommandFails
<1> QED BY <1>1, <1>2 DEF CommandFails

LEMMA InitDispenses == Init => D!Init
<1> SUFFICES ASSUME Init PROVE D!Init
  OBVIOUS
<1>1. value \in [Keys -> Nat] /\ elsewhere = [k \in Keys |-> 1 .. value[k]]
  BY DEF Init
<1>2. \A c \in Callers : call[c] = Idle /\ call[c].stage = "idle"
  BY DEF Init, Idle
<1>3. \A c \in Callers : Seen(c) = "idle" /\ [k \in Keys |-> Issued(c, k)] = D!Nothing
  BY <1>2 DEF Seen, Issued, D!Nothing
<1> QED BY <1>1, <1>2, <1>3 DEF D!Init

LEMMA NextDispenses == IndInv /\ [Next]_vars => [D!Next]_(D!vars)
<1> SUFFICES ASSUME IndInv, [Next]_vars PROVE [D!Next]_(D!vars)
  OBVIOUS
<1>1. ASSUME NEW c \in Callers, D!Serve(c) \/ D!Fail(c) PROVE D!Next
  BY <1>1 DEF D!Next
<1>2. CASE Next
  <2>1. PICK c \in Callers :
          \/ \E op \in Operations : Called(c, op)
          \/ Proceed(c) \/ AnswerLost(c) \/ CommandFails(c)
    BY <1>2 DEF Next
  <2>2. CASE \E op \in Operations : Called(c, op)
    BY <2>2, CalledAsks DEF D!Next
  <2>3. CASE Proceed(c)
    BY <1>1, <2>3, ProceedDispenses
  <2>4. CASE AnswerLost(c)
    BY <1>1, <2>4, AnswerLostFails
  <2>5. CASE CommandFails(c)
    BY <1>1, <2>5, CommandFailsDispenses
  <2> QED BY <2>1, <2>2, <2>3, <2>4, <2>5
<1>3. CASE UNCHANGED vars
  BY <1>3 DEF vars, D!vars, Seen, Issued, Drawn
<1> QED BY <1>2, <1>3

\* The sequences hand out numbers as SequenceDispenser does: retries, conflicts
\* and nested transactions of withTransaction cannot be seen from outside.
THEOREM ImplementsDispenser == Spec => Dispensed
BY Invariance, InitDispenses, NextDispenses, PTL DEF Spec, Dispensed, D!Spec
================================================================================
