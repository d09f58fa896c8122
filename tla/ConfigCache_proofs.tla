-------------------------- MODULE ConfigCache_proofs ---------------------------
(***************************************************************************)
(* What holds of ConfigCache for any keys, any number of concurrent calls  *)
(* and any bound on the writes.                                            *)
(*                                                                         *)
(* CachedValuesWereStored and StaleOnlyIfDisturbed speak of the cache      *)
(* only; a SETEX moves a value there from a call, so the invariant says    *)
(* the same of the values that calls hold.  HeldValuesWereStored: a call   *)
(* holds values of the right key that were stored.  HoldersCurrent: a call *)
(* whose value is no longer the document's was overtaken.                  *)
(***************************************************************************)
EXTENDS ConfigCache, TLAPS

StoredFor(v, k) == v[1] = k /\ v[2] > 0 /\ v[2] <= store[k]

HeldValuesWereStored ==
    \A c \in Callers :
      /\ call[c].await = "setex" => StoredFor(call[c].value, call[c].key)
      /\ call[c].await = "pipeline" =>
           \A k \in call[c].left : call[c].docs[k] \in Values /\ StoredFor(call[c].docs[k], k)

HoldersCurrent ==
    \A k \in Keys : \A c \in Holders(k) : k \in disturbed \/ call[c].value = Doc(k)

DataInv ==
    /\ CachedValuesWereStored
    /\ HeldValuesWereStored
    /\ StaleOnlyIfDisturbed
    /\ HoldersCurrent

\* The five kinds of call are told apart by the await they stand at.
LEMMA CallKinds ==
  ASSUME NEW s \in CallStates
  PROVE  /\ s = Idle \/ s.await \in {"findOne", "setex", "find", "pipeline", "del"}
         /\ s.await = "none" => s = Idle
         /\ s.await = "findOne" => s \in FindOneCalls
         /\ s.await = "setex" => s \in SetexCalls
         /\ s.await = "find" => s \in FindCalls
         /\ s.await = "pipeline" => s \in PipelineCalls
         /\ s.await = "del" => s \in DelCalls
  BY DEF CallStates, Idle, FindOneCalls, SetexCalls, FindCalls, PipelineCalls, DelCalls

\* The document of a key is a value that was stored for it.
LEMMA DocStored ==
  ASSUME TypeOK, NEW k \in Keys, Doc(k) # NoValue
  PROVE  Doc(k) \in Values /\ StoredFor(Doc(k), k)
  BY DEF TypeOK, Doc, Values, StoredFor

\* A call that goes on to a well-typed await leaves all calls well-typed.
LEMMA AwaitType ==
  ASSUME TypeOK, NEW c \in Callers, NEW s \in CallStates, Await(c, s)
  PROVE  call' \in [Callers -> CallStates]
  BY DEF TypeOK, Await

\* A call that returns does too.
LEMMA ReturnType ==
  ASSUME TypeOK, NEW c \in Callers, Return(c)
  PROVE  call' \in [Callers -> CallStates]
  BY AwaitType DEF Return, CallStates

\* Every step keeps the types.
LEMMA TypeStep == TypeOK /\ [Next]_vars => TypeOK'
<1> SUFFICES ASSUME TypeOK, [Next]_vars
             PROVE  TypeOK'
  OBVIOUS
<1> USE ConfigAssumption
<1>1. ASSUME NEW c \in Callers, NEW k \in Keys, GetByKey(c, k)
      PROVE  TypeOK'
  <2>1. [await |-> "findOne", key |-> k] \in CallStates
    BY DEF CallStates, FindOneCalls
  <2> QED BY <1>1, <2>1, AwaitType DEF GetByKey, TypeOK
<1>2. ASSUME NEW c \in Callers, NEW k \in Keys, SetByKey(c, k)
      PROVE  TypeOK'
  <2>1. Upserted(k) \in Values
    BY DEF TypeOK, Upserted, Values
  <2>2. [await |-> "setex", key |-> k, value |-> Upserted(k)] \in CallStates
    BY <2>1 DEF CallStates, SetexCalls
  <2>3. call' \in [Callers -> CallStates]
    BY <1>2, <2>2, AwaitType DEF SetByKey
  <2>4. store' \in [Keys -> Nat]
    BY <1>2 DEF SetByKey, TypeOK
  <2> QED BY <1>2, <2>3, <2>4 DEF SetByKey, TypeOK
<1>3. ASSUME NEW c \in Callers, NEW k \in CacheOnly, SetCache(c, k)
      PROVE  TypeOK'
  <2>1. k \in Keys /\ <<k, 0>> \in Values /\ Plain(k) \in CacheKeys
    BY DEF Values, Plain, CacheKeys
  <2> QED BY <1>3, <2>1 DEF SetCache, TypeOK
<1>4. ASSUME NEW c \in Callers, NEW keys \in KeyLists, Mget(c, keys)
      PROVE  TypeOK'
  <2> DEFINE results == [i \in DOMAIN keys |->
                           IF Truthy(cache[Tagged(keys[i])])
                           THEN cache[Tagged(keys[i])] ELSE NoValue]
  <2>1. keys \in Seq(Keys)
    OBVIOUS
  <2>2. \A i \in DOMAIN keys : Tagged(keys[i]) \in CacheKeys
    BY <2>1 DEF Tagged, CacheKeys
  <2>3. \A i \in DOMAIN keys : results[i] \in Values \cup {NoValue}
    BY <2>2 DEF TypeOK
  <2>4. results \in Seq(Values \cup {NoValue})
    BY <2>1, <2>3
  <2>5. [await |-> "find", keys |-> keys, results |-> results] \in CallStates
    BY <2>4 DEF CallStates, FindCalls, Aligned
  <2> QED BY <1>4, <2>5, AwaitType DEF Mget, TypeOK
<1>5. ASSUME NEW c \in Callers, NEW prefix \in KeyPrefixes, ExpireConfigs(c, prefix)
      PROVE  TypeOK'
  <2> DEFINE left == {ck \in prefix : cache[ck] # NoValue}
  <2>1. [await |-> "del", left |-> left] \in CallStates
    BY DEF CallStates, DelCalls
  <2> QED BY <1>5, <2>1, AwaitType DEF ExpireConfigs, TypeOK
<1>6. ASSUME NEW c \in Callers, FindOne(c)
      PROVE  TypeOK'
  <2>1. call[c] \in FindOneCalls
    BY <1>6, CallKinds DEF FindOne, TypeOK
  <2>2. call[c].key \in Keys
    BY <2>1 DEF FindOneCalls
  <2>3. CASE NotFound(call[c].key)
    BY <1>6, <2>3, ReturnType DEF FindOne, TypeOK
  <2>4. CASE ~NotFound(call[c].key)
    <3>1. [await |-> "setex", key |-> call[c].key, value |-> Doc(call[c].key)]
            \in CallStates
      BY <2>2, <2>4, DocStored DEF NotFound, CallStates, SetexCalls
    <3> QED BY <1>6, <2>4, <3>1, AwaitType DEF FindOne, TypeOK
  <2> QED BY <2>3, <2>4
<1>7. ASSUME NEW c \in Callers, Setex(c)
      PROVE  TypeOK'
  <2>1. call[c] \in SetexCalls
    BY <1>7, CallKinds DEF Setex, TypeOK
  <2>2. call[c].value \in Values
    BY <2>1 DEF SetexCalls
  <2> QED BY <1>7, <2>2, ReturnType DEF Setex, TypeOK
<1>8. ASSUME NEW c \in Callers, Find(c)
      PROVE  TypeOK'
  <2> DEFINE keys == call[c].keys
             old == call[c].results
             found == {k \in Missing(keys, old) : store[k] # 0}
             At(i) == CHOOSE k \in found : KeysNotFound(keys, old, k) = i
             Hit(i) == \E k \in found : KeysNotFound(keys, old, k) = i
             results == [i \in DOMAIN keys |-> IF Hit(i) THEN Doc(At(i)) ELSE old[i]]
             docs == [k \in Keys |-> IF k \in found THEN Doc(k) ELSE NoValue]
             next == [await |-> "pipeline", keys |-> keys, results |-> results,
                      docs |-> docs, left |-> found]
  <2>1. call[c] \in FindCalls
    BY <1>8, CallKinds DEF Find, TypeOK
  <2>2. /\ keys \in KeyLists /\ keys \in Seq(Keys)
        /\ old \in Seq(Values \cup {NoValue}) /\ DOMAIN old = DOMAIN keys
    BY <2>1 DEF FindCalls, Aligned
  <2>3. CASE \E k \in found : Doc(k) \in Blank
    BY <1>8, <2>3, ReturnType DEF Find, TypeOK
  <2>4. CASE ~\E k \in found : Doc(k) \in Blank
    <3>1. found \subseteq Keys
      BY <2>2 DEF Missing
    <3>2. \A k \in Keys : Doc(k) \in Values \cup {NoValue}
      BY DocStored
    <3>3. \A i \in DOMAIN keys : results[i] \in Values \cup {NoValue}
      <4>1. ASSUME NEW i \in DOMAIN keys, Hit(i)
            PROVE  Doc(At(i)) \in Values \cup {NoValue}
        BY <4>1, <3>1, <3>2
      <4>2. \A i \in DOMAIN keys : old[i] \in Values \cup {NoValue}
        BY <2>2
      <4> QED BY <4>1, <4>2
    <3>4. results \in Seq(Values \cup {NoValue}) /\ DOMAIN results = DOMAIN keys
      <4>1. PICK n \in Nat : DOMAIN keys = 1 .. n
        BY <2>2
      <4> HIDE DEF Hit, At
      <4> QED BY <3>3, <4>1
    <3>5. docs \in [Keys -> Values \cup {NoValue}]
      BY <3>2
    <3>6. next \in CallStates
      BY <2>2, <3>1, <3>4, <3>5 DEF CallStates, PipelineCalls, Aligned
    <3>7. Await(c, next)
      BY <1>8, <2>4 DEF Find
    <3> QED BY <1>8, <3>6, <3>7, AwaitType DEF Find, TypeOK
  <2> QED BY <2>3, <2>4
<1>9. ASSUME NEW c \in Callers, NEW k \in Keys, PipelineCommand(c, k)
      PROVE  TypeOK'
  <2> DEFINE next == [call[c] EXCEPT !.left = @ \ {k}]
  <2>1. call[c] \in PipelineCalls
    BY <1>9, CallKinds DEF PipelineCommand, TypeOK
  <2>2. next \in CallStates
    BY <2>1 DEF PipelineCalls, CallStates, Aligned
  <2>3. call[c].docs[k] \in Values \cup {NoValue} /\ Tagged(k) \in CacheKeys
    BY <2>1 DEF PipelineCalls, Tagged, CacheKeys
  <2> QED BY <1>9, <2>2, <2>3, AwaitType DEF PipelineCommand, FillKey, TypeOK
<1>10. ASSUME NEW c \in Callers, PipelineDone(c)
       PROVE  TypeOK'
  BY <1>10, ReturnType DEF PipelineDone, TypeOK
<1>11. ASSUME NEW c \in Callers, NEW ck \in CacheKeys, Del(c, ck)
       PROVE  TypeOK'
  <2> DEFINE next == [call[c] EXCEPT !.left = @ \ {ck}]
  <2>1. call[c] \in DelCalls
    BY <1>11, CallKinds DEF Del, TypeOK
  <2>2. next \in CallStates
    BY <2>1 DEF DelCalls, CallStates
  <2>3. call' \in [Callers -> CallStates]
    BY <1>11, <2>2, AwaitType, ReturnType DEF Del
  <2> QED BY <1>11, <2>3 DEF Del, TypeOK
<1>12. ASSUME NEW c \in Callers, Fail(c)
       PROVE  TypeOK'
  <2>1. call[c].await = "setex" => call[c].key \in Keys
    BY CallKinds DEF TypeOK, SetexCalls
  <2> QED BY <1>12, <2>1, ReturnType DEF Fail, TypeOK
<1>13. ASSUME NEW ck \in CacheKeys, Expire(ck)
       PROVE  TypeOK'
  BY <1>13 DEF Expire, TypeOK
<1>14. CASE UNCHANGED vars
  BY <1>14 DEF vars, TypeOK
<1> QED
  BY <1>1, <1>2, <1>3, <1>4, <1>5, <1>6, <1>7, <1>8, <1>9, <1>10, <1>11, <1>12,
     <1>13, <1>14
  DEF Next, Proceed

--------------------------------------------------------------------------------
\* A step that touches neither store nor history, and in which the caller
\* holds no value for a plain key before or after, leaves the holders alone.
LEMMA SameHolders ==
  ASSUME TypeOK, NEW c \in Callers, NEW s \in CallStates, Await(c, s),
         s.await # "setex", call[c].await # "setex"
  PROVE  /\ \A k \in Keys : Holders(k)' = Holders(k)
         /\ \A k \in Keys : \A d \in Holders(k) : call'[d] = call[d]
  BY DEF TypeOK, Await, Holders

\* A step that only moves a call from one await that holds nothing to another.
LEMMA QuietStep ==
  ASSUME TypeOK, DataInv, NEW c \in Callers, NEW s \in CallStates, Await(c, s),
         s.await \notin {"setex", "pipeline"}, call[c].await # "setex",
         UNCHANGED <<store, cache, disturbed>>
  PROVE  DataInv'
<1> USE DEF DataInv
<1>1. CachedValuesWereStored'
  BY DEF CachedValuesWereStored
<1>2. HeldValuesWereStored'
  BY DEF HeldValuesWereStored, StoredFor, TypeOK, Await
<1>3. \A k \in Keys : Doc(k)' = Doc(k)
  BY DEF Doc
<1>4. StaleOnlyIfDisturbed'
  BY <1>3, SameHolders DEF StaleOnlyIfDisturbed
<1>5. HoldersCurrent'
  BY <1>3, SameHolders DEF HoldersCurrent
<1> QED BY <1>1, <1>2, <1>4, <1>5

\* A step of getByKey, setByKey or setCache keeps the invariant.
LEMMA PlainStep ==
  ASSUME TypeOK, DataInv, NEW c \in Callers
  PROVE  /\ \A k \in Keys : GetByKey(c, k) \/ SetByKey(c, k) => DataInv'
         /\ \A k \in CacheOnly : SetCache(c, k) => DataInv'
         /\ FindOne(c) \/ Setex(c) => DataInv'
<1> USE ConfigAssumption DEF DataInv
<1>1. ASSUME NEW k \in Keys, GetByKey(c, k)
      PROVE  DataInv'
  <2>1. [await |-> "findOne", key |-> k] \in CallStates
    BY DEF CallStates, FindOneCalls
  <2> QED BY <1>1, <2>1, QuietStep DEF GetByKey, Idle
<1>2. ASSUME NEW k \in Keys, SetByKey(c, k)
      PROVE  DataInv'
  <2> USE <1>2 DEF SetByKey, Await
  <2>1. /\ store'[k] = store[k] + 1 /\ store[k] \in Nat
        /\ \A j \in Keys : store[j] \in Nat /\ store'[j] >= store[j]
        /\ \A j \in Keys \ {k} : store'[j] = store[j]
    BY DEF TypeOK
  <2>2. /\ call'[c] = [await |-> "setex", key |-> k, value |-> Upserted(k)]
        /\ \A d \in Callers \ {c} : call'[d] = call[d]
        /\ call[c].await = "none"
    BY DEF TypeOK, Idle
  <2>3. Doc(k)' = Upserted(k) /\ \A j \in Keys \ {k} : Doc(j)' = Doc(j)
    BY <2>1 DEF Doc, Upserted
  <2>4. Holders(k)' = Holders(k) \cup {c} /\ \A j \in Keys \ {k} : Holders(j)' = Holders(j)
    BY <2>2 DEF Holders
  <2>5. CachedValuesWereStored'
    <3> SUFFICES ASSUME NEW ck \in CacheKeys, cache[ck] # NoValue
                 PROVE  /\ cache[ck][1] = ck[2]
                        /\ cache[ck][2] <= store'[cache[ck][1]]
                        /\ cache[ck][2] = 0 => cache[ck][1] \in disturbed'
      BY DEF CachedValuesWereStored
    <3>1. cache[ck][1] \in Keys /\ cache[ck][2] \in Nat
      BY DEF TypeOK, Values
    <3> QED BY <2>1, <3>1 DEF CachedValuesWereStored
  <2>6. HeldValuesWereStored'
    <3> DEFINE NowStored(v, j) == v[1] = j /\ v[2] > 0 /\ v[2] <= store'[j]
               Held(s) == /\ s.await = "setex" => NowStored(s.value, s.key)
                          /\ s.await = "pipeline" =>
                               \A j \in s.left : s.docs[j] \in Values /\ NowStored(s.docs[j], j)
    <3>1. NowStored(Upserted(k), k)
      BY <2>1 DEF Upserted
    <3>2. \A v \in Values, j \in Keys : StoredFor(v, j) => NowStored(v, j)
      BY <2>1 DEF StoredFor, Values
    <3>3. ASSUME NEW d \in Callers
          PROVE  /\ call[d].await = "setex" => call[d].value \in Values /\ call[d].key \in Keys
                 /\ call[d].await = "pipeline" => call[d].left \subseteq Keys
      BY CallKinds DEF TypeOK, SetexCalls, PipelineCalls
    <3>4. \A d \in Callers : Held(call[d])
      BY <3>2, <3>3 DEF HeldValuesWereStored
    <3>5. Held([await |-> "setex", key |-> k, value |-> Upserted(k)])
      BY <3>1
    <3>6. \A d \in Callers : Held(call'[d])
      <4> HIDE DEF Held
      <4> QED BY <2>2, <3>4, <3>5
    <3> QED BY <3>6 DEF HeldValuesWereStored, StoredFor
  <2>7. StaleOnlyIfDisturbed'
    BY <2>2, <2>3, <2>4 DEF StaleOnlyIfDisturbed, Holders
  <2>8. HoldersCurrent'
    BY <2>2, <2>3, <2>4 DEF HoldersCurrent, Holders
  <2> QED BY <2>5, <2>6, <2>7, <2>8
<1>3. ASSUME NEW k \in CacheOnly, SetCache(c, k)
      PROVE  DataInv'
  <2> USE <1>3 DEF SetCache
  <2>1. k \in Keys /\ Plain(k) \in CacheKeys /\ store[k] \in Nat
    BY DEF Plain, CacheKeys, TypeOK
  <2>2. \A j \in Keys : Doc(j)' = Doc(j) /\ Holders(j)' = Holders(j)
    BY DEF Doc, Holders
  <2>3. CachedValuesWereStored'
    BY <2>1 DEF CachedValuesWereStored, TypeOK, Plain
  <2>4. HeldValuesWereStored' /\ HoldersCurrent'
    BY <2>2 DEF HeldValuesWereStored, HoldersCurrent, StoredFor
  <2>5. \A j \in Keys \ {k} : cache'[Plain(j)] = cache[Plain(j)]
    BY DEF TypeOK, Plain
  <2>6. StaleOnlyIfDisturbed'
    BY <2>2, <2>5 DEF StaleOnlyIfDisturbed
  <2> QED BY <2>3, <2>4, <2>6
<1>4. ASSUME FindOne(c)
      PROVE  DataInv'
  <2> USE <1>4 DEF FindOne
  <2> DEFINE k == call[c].key
  <2>1. call[c] \in FindOneCalls /\ k \in Keys
    BY CallKinds DEF TypeOK, FindOneCalls
  <2>2. CASE NotFound(k)
    BY <2>2, QuietStep DEF Return, CallStates, Idle
  <2>3. CASE ~NotFound(k)
    <3>1. /\ call'[c] = [await |-> "setex", key |-> k, value |-> Doc(k)]
          /\ \A d \in Callers \ {c} : call'[d] = call[d]
      BY <2>3 DEF TypeOK, Await
    <3>2. Holders(k)' = Holders(k) \cup {c} /\ \A j \in Keys \ {k} : Holders(j)' = Holders(j)
      BY <3>1 DEF Holders
    <3>3. \A j \in Keys : Doc(j)' = Doc(j)
      BY DEF Doc
    <3>4. CachedValuesWereStored'
      BY DEF CachedValuesWereStored
    <3>5. StoredFor(Doc(k), k)
      BY <2>1, <2>3, DocStored DEF NotFound
    <3>6. HeldValuesWereStored'
      BY <3>1, <3>5 DEF HeldValuesWereStored, StoredFor
    <3>7. StaleOnlyIfDisturbed'
      BY <2>1, <3>1, <3>2, <3>3 DEF StaleOnlyIfDisturbed, Holders
    <3>8. HoldersCurrent'
      BY <2>1, <3>1, <3>2, <3>3 DEF HoldersCurrent, Holders
    <3> QED BY <3>4, <3>6, <3>7, <3>8
  <2> QED BY <2>2, <2>3
<1>5. ASSUME Setex(c)
      PROVE  DataInv'
  <2> USE <1>5 DEF Setex
  <2> DEFINE k == call[c].key
             v == call[c].value
  <2>1. k \in Keys /\ v \in Values /\ StoredFor(v, k) /\ Plain(k) \in CacheKeys
    BY CallKinds DEF TypeOK, SetexCalls, HeldValuesWereStored, Plain, CacheKeys
  <2>2. /\ cache'[Plain(k)] = v
        /\ \A ck \in CacheKeys : ck # Plain(k) => cache'[ck] = cache[ck]
    BY <2>1 DEF TypeOK
  <2>3. call'[c] = Idle /\ \A d \in Callers \ {c} : call'[d] = call[d]
    BY DEF Return, Await, TypeOK
  <2>4. \A j \in Keys : Doc(j)' = Doc(j)
    BY DEF Doc
  <2>5. /\ \A j \in Keys : Holders(j)' = Holders(j) \ {c}
        /\ \A j \in Keys \ {k} : c \notin Holders(j)
    BY <2>3 DEF Holders, Idle
  <2>6. CachedValuesWereStored'
    BY <2>1, <2>2 DEF CachedValuesWereStored, StoredFor, Plain
  <2>7. HeldValuesWereStored'
    BY <2>3 DEF HeldValuesWereStored, StoredFor, Idle
  <2>8. HoldersCurrent'
    BY <2>3, <2>4, <2>5 DEF HoldersCurrent, Holders
  <2>9. StaleOnlyIfDisturbed'
    <3>1. k \in disturbed \/ v = Doc(k)
      BY <2>1 DEF HoldersCurrent, Holders
    <3>2. \A j \in Keys \ {k} : Plain(j) \in CacheKeys /\ cache'[Plain(j)] = cache[Plain(j)]
      BY <2>2 DEF Plain, CacheKeys
    <3>3. \A j \in Keys \ {k} : \A d \in Holders(j) : d \in Holders(j)' /\ call'[d] = call[d]
      BY <2>3, <2>5 DEF Holders
    <3> QED BY <2>2, <2>4, <3>1, <3>2, <3>3 DEF StaleOnlyIfDisturbed
  <2> QED BY <2>6, <2>7, <2>8, <2>9
<1> QED BY <1>1, <1>2, <1>3, <1>4, <1>5

\* So does a step of getByMultiKeys.
LEMMA MultiStep ==
  ASSUME TypeOK, DataInv, NEW c \in Callers
  PROVE  /\ \A keys \in KeyLists : Mget(c, keys) => DataInv'
         /\ Find(c) => DataInv'
         /\ \A k \in Keys : PipelineCommand(c, k) => DataInv'
         /\ PipelineDone(c) => DataInv'
<1> USE ConfigAssumption
<1>0. TypeOK /\ [Next]_vars => TypeOK'
  BY TypeStep
<1>1. ASSUME NEW keys \in KeyLists, Mget(c, keys)
      PROVE  DataInv'
  <2>1. TypeOK'
    BY <1>0, <1>1 DEF Next
  <2>2. PICK s : Await(c, s) /\ s.await = "find"
    BY <1>1 DEF Mget
  <2>3. s \in CallStates
    BY <2>1, <2>2 DEF TypeOK, Await
  <2> QED BY <1>1, <2>2, <2>3, QuietStep DEF Mget, Idle
<1>2. ASSUME Find(c)
      PROVE  DataInv'
  <2> DEFINE keys == call[c].keys
             old == call[c].results
             found == {k \in Missing(keys, old) : store[k] # 0}
             docs == [k \in Keys |-> IF k \in found THEN Doc(k) ELSE NoValue]
             results == [i \in DOMAIN keys |->
                           IF \E k \in found : KeysNotFound(keys, old, k) = i
                           THEN Doc(CHOOSE k \in found : KeysNotFound(keys, old, k) = i)
                           ELSE old[i]]
             next == [await |-> "pipeline", keys |-> keys, results |-> results,
                      docs |-> docs, left |-> found]
  <2>1. TypeOK'
    BY <1>0, <1>2 DEF Next, Proceed
  <2>2. call[c] \in FindCalls /\ call[c].await = "find"
    BY <1>2, CallKinds DEF Find, TypeOK
  <2>3. found \subseteq Keys
    BY <2>2 DEF FindCalls, Aligned, Missing
  <2>4. CASE Return(c)
    BY <1>2, <2>2, <2>4, QuietStep DEF Find, Return, CallStates, Idle
  <2>5. CASE ~Return(c)
    <3>1. PICK s : /\ Await(c, s)
                   /\ s.await = "pipeline" /\ s.docs = docs /\ s.left = found
      <4>1. Await(c, next)
        BY <1>2, <2>5 DEF Find
      <4>2. next.await = "pipeline" /\ next.docs = docs /\ next.left = found
        OBVIOUS
      <4> HIDE DEF next
      <4> QED BY <4>1, <4>2
    <3>2. s \in CallStates
      BY <2>1, <3>1 DEF TypeOK, Await
    <3>3. \A k \in Keys : Doc(k)' = Doc(k)
      BY <1>2 DEF Find, Doc
    <3>4. CachedValuesWereStored'
      BY <1>2 DEF Find, DataInv, CachedValuesWereStored
    <3>5. StaleOnlyIfDisturbed' /\ HoldersCurrent'
      BY <1>2, <2>2, <3>1, <3>2, <3>3, SameHolders
      DEF Find, DataInv, StaleOnlyIfDisturbed, HoldersCurrent
    <3>6. \A k \in found : docs[k] \in Values /\ StoredFor(docs[k], k)
      <4>1. \A k \in found : Doc(k) # NoValue /\ docs[k] = Doc(k)
        BY <2>3 DEF Doc, TypeOK, Values
      <4> QED BY <2>3, <4>1, DocStored
    <3>7. call'[c] = s /\ \A d \in Callers \ {c} : call'[d] = call[d]
      BY <3>1 DEF TypeOK, Await
    <3>8. HeldValuesWereStored'
      BY <1>2, <3>1, <3>6, <3>7 DEF Find, DataInv, HeldValuesWereStored, StoredFor
    <3> QED BY <3>4, <3>5, <3>8 DEF DataInv
  <2> QED BY <2>4, <2>5
<1>3. ASSUME NEW k \in Keys, PipelineCommand(c, k)
      PROVE  DataInv'
  <2> USE <1>3 DEF PipelineCommand, FillKey, DataInv
  <2> DEFINE s == [call[c] EXCEPT !.left = @ \ {k}]
  <2>1. call[c] \in PipelineCalls
    BY CallKinds DEF TypeOK
  <2>2. /\ s.await = "pipeline" /\ s.docs = call[c].docs
        /\ s.left = call[c].left \ {k} /\ s \in CallStates
    BY <2>1 DEF PipelineCalls, CallStates, Aligned
  <2>3. call'[c] = s /\ \A d \in Callers \ {c} : call'[d] = call[d]
    BY DEF TypeOK, Await
  <2>4. \A j \in Keys : Doc(j)' = Doc(j)
    BY DEF Doc
  <2>5. StoredFor(call[c].docs[k], k) /\ Tagged(k) \in CacheKeys
    BY DEF HeldValuesWereStored, Tagged, CacheKeys
  <2>6. CachedValuesWereStored'
    BY <2>5 DEF CachedValuesWereStored, StoredFor, TypeOK, Tagged
  <2>7. HeldValuesWereStored'
    <3>1. \A j \in s.left : s.docs[j] \in Values /\ StoredFor(s.docs[j], j)
      BY <2>2 DEF HeldValuesWereStored
    <3> HIDE DEF s
    <3> QED BY <2>2, <2>3, <3>1 DEF HeldValuesWereStored, StoredFor
  <2>8. \A j \in Keys : cache'[Plain(j)] = cache[Plain(j)]
    BY DEF TypeOK, Plain, Tagged, CacheKeys
  <2>9. /\ \A j \in Keys : Holders(j)' = Holders(j)
        /\ \A j \in Keys : \A d \in Holders(j) : call'[d] = call[d]
    <3> HIDE DEF s
    <3> QED BY <2>2, <2>3 DEF Holders
  <2>10. StaleOnlyIfDisturbed' /\ HoldersCurrent'
    BY <2>4, <2>8, <2>9 DEF StaleOnlyIfDisturbed, HoldersCurrent
  <2> QED BY <2>6, <2>7, <2>10
<1>4. ASSUME PipelineDone(c)
      PROVE  DataInv'
  BY <1>4, QuietStep DEF PipelineDone, Return, CallStates, Idle
<1> QED BY <1>1, <1>2, <1>3, <1>4

\* So do expireConfigs, a failure and the time to live.
LEMMA RemovalStep ==
  ASSUME TypeOK, DataInv
  PROVE  /\ \A c \in Callers, prefix \in KeyPrefixes : ExpireConfigs(c, prefix) => DataInv'
         /\ \A c \in Callers, ck \in CacheKeys : Del(c, ck) => DataInv'
         /\ \A c \in Callers : Fail(c) => DataInv'
         /\ \A ck \in CacheKeys : Expire(ck) => DataInv'
<1> USE ConfigAssumption
<1>1. ASSUME NEW c \in Callers, NEW prefix \in KeyPrefixes, ExpireConfigs(c, prefix)
      PROVE  DataInv'
  <2>1. [await |-> "del", left |-> {ck \in prefix : cache[ck] # NoValue}] \in CallStates
    BY DEF CallStates, DelCalls
  <2> QED BY <1>1, <2>1, QuietStep DEF ExpireConfigs, Idle
<1>2. ASSUME NEW ck \in CacheKeys, cache' = [cache EXCEPT ![ck] = NoValue],
             UNCHANGED <<store, disturbed>>,
             \A k \in Keys : Holders(k)' = Holders(k),
             \A k \in Keys : \A d \in Holders(k) : call'[d] = call[d],
             HeldValuesWereStored'
      PROVE  DataInv'
  <2>1. \A k \in Keys : Doc(k)' = Doc(k)
    BY <1>2 DEF Doc
  <2>2. CachedValuesWereStored'
    BY <1>2 DEF DataInv, CachedValuesWereStored, TypeOK
  <2>3. StaleOnlyIfDisturbed'
    <3>1. \A k \in Keys : cache'[Plain(k)] \in {NoValue, cache[Plain(k)]}
      BY <1>2 DEF TypeOK, Plain, CacheKeys
    <3> QED BY <1>2, <2>1, <3>1 DEF DataInv, StaleOnlyIfDisturbed
  <2>4. HoldersCurrent'
    BY <1>2, <2>1 DEF DataInv, HoldersCurrent
  <2> QED BY <1>2, <2>2, <2>3, <2>4 DEF DataInv
<1>3. ASSUME NEW c \in Callers, NEW ck \in CacheKeys, Del(c, ck)
      PROVE  DataInv'
  <2>1. call[c] \in DelCalls
    BY <1>3, CallKinds DEF Del, TypeOK
  <2>2. PICK s \in CallStates : Await(c, s) /\ s.await \in {"none", "del"}
    BY <1>3, <2>1 DEF Del, Return, CallStates, Idle, DelCalls
  <2>3. HeldValuesWereStored'
    BY <1>3, <2>2 DEF Del, DataInv, HeldValuesWereStored, StoredFor, TypeOK, Await
  <2>4. /\ \A k \in Keys : Holders(k)' = Holders(k)
        /\ \A k \in Keys : \A d \in Holders(k) : call'[d] = call[d]
    BY <1>3, <2>2, SameHolders DEF Del
  <2> QED BY <1>2, <1>3, <2>3, <2>4 DEF Del
<1>4. ASSUME NEW c \in Callers, Fail(c)
      PROVE  DataInv'
  <2> USE <1>4 DEF Fail, DataInv
  <2>1. CASE call[c].await # "setex"
    BY <2>1, QuietStep DEF Return, CallStates, Idle
  <2>2. CASE call[c].await = "setex"
    <3> USE <2>2
    <3> DEFINE k == call[c].key
    <3>1. k \in Keys
      BY CallKinds DEF TypeOK, SetexCalls
    <3>2. call'[c] = Idle /\ \A d \in Callers \ {c} : call'[d] = call[d]
      BY DEF Return, Await, TypeOK
    <3>3. /\ \A j \in Keys : Doc(j)' = Doc(j)
          /\ \A j \in Keys : Holders(j)' = Holders(j) \ {c}
          /\ \A j \in Keys \ {k} : c \notin Holders(j)
      BY <3>2 DEF Doc, Holders, Idle
    <3>4. CachedValuesWereStored'
      BY DEF CachedValuesWereStored
    <3>5. HeldValuesWereStored'
      BY <3>2 DEF HeldValuesWereStored, StoredFor, Idle
    <3>6. HoldersCurrent'
      BY <3>2, <3>3 DEF HoldersCurrent, Holders
    <3>7. StaleOnlyIfDisturbed'
      <4>1. ASSUME NEW j \in Keys \ {k}
            PROVE  \A d \in Holders(j) : d \in Holders(j)' /\ call'[d] = call[d]
        BY <3>2, <3>3 DEF Holders
      <4> QED BY <3>3, <4>1 DEF StaleOnlyIfDisturbed
    <3> QED BY <3>4, <3>5, <3>6, <3>7
  <2> QED BY <2>1, <2>2
<1>5. ASSUME NEW ck \in CacheKeys, Expire(ck)
      PROVE  DataInv'
  <2>1. HeldValuesWereStored' /\ \A k \in Keys : Holders(k)' = Holders(k)
    BY <1>5 DEF Expire, DataInv, HeldValuesWereStored, StoredFor, Holders
  <2> QED BY <1>2, <1>5, <2>1 DEF Expire
<1> QED BY <1>1, <1>3, <1>4, <1>5

--------------------------------------------------------------------------------
\* Nothing is cached or held before the first call.
LEMMA InitInv == Init => TypeOK /\ DataInv
<1> SUFFICES ASSUME Init
             PROVE  TypeOK /\ DataInv
  OBVIOUS
<1>1. TypeOK
  BY DEF Init, TypeOK, CallStates
<1>2. \A k \in Keys : Plain(k) \in CacheKeys
  BY DEF Plain, CacheKeys
<1>3. DataInv
  BY <1>2 DEF Init, DataInv, CachedValuesWereStored, HeldValuesWereStored,
              StaleOnlyIfDisturbed, HoldersCurrent, Holders, Idle
<1> QED BY <1>1, <1>3

\* Every step keeps the types and the invariant.
LEMMA NextInv == TypeOK /\ DataInv /\ [Next]_vars => TypeOK' /\ DataInv'
<1> SUFFICES ASSUME TypeOK, DataInv, [Next]_vars
             PROVE  DataInv'
  BY TypeStep
<1>1. CASE UNCHANGED vars
  BY <1>1 DEF vars, DataInv, CachedValuesWereStored, HeldValuesWereStored,
              StaleOnlyIfDisturbed, HoldersCurrent, Holders, StoredFor, Doc
<1>2. CASE Next
  BY <1>2, PlainStep, MultiStep, RemovalStep DEF Next, Proceed
<1> QED BY <1>1, <1>2

\* The invariant of the plain and the tagged entries holds in every reachable
\* state (ConfigService.ts:26-147).
THEOREM Invariance == Spec => [](TypeOK /\ DataInv)
<1> QED BY InitInv, NextInv, PTL DEF Spec

\* The variables and every pending call keep their types, for any keys and
\* any number of concurrent calls.
THEOREM TypeCorrect == Spec => []TypeOK
<1> QED BY Invariance, PTL

\* No path through Redis and MongoDB, however calls overlap and fail, caches a
\* value under another key or before it was stored (ConfigService.ts:26-147).
THEOREM NoForeignValues == Spec => []CachedValuesWereStored
<1>1. DataInv => CachedValuesWereStored
  BY DEF DataInv
<1> QED BY <1>1, Invariance, PTL

\* A plain entry that disagrees with its document is always the work of an
\* overtaken or failed SETEX, or of setCache; setByKey by itself leaves none
\* (ConfigService.ts:26-36 and 137-143).
THEOREM StalenessNeedsOverlap == Spec => []StaleOnlyIfDisturbed
<1>1. DataInv => StaleOnlyIfDisturbed
  BY DEF DataInv
<1> QED BY <1>1, Invariance, PTL

--------------------------------------------------------------------------------
(***************************************************************************)
(* ResultsIndexed needs that no list names a key twice: keysNotFound keeps *)
(* one index per key.                                                      *)
(***************************************************************************)
DistinctKeys ==
    \A keys \in KeyLists : \A i, j \in DOMAIN keys : keys[i] = keys[j] => i = j

\* What MGET left in results while the documents are awaited: an index holds
\* nothing or a value of its own key.
HitsIndexed ==
    \A c \in Callers : call[c].await = "find" =>
      \A i \in DOMAIN call[c].keys :
        call[c].results[i] # NoValue => call[c].results[i][1] = call[c].keys[i]

MultiInv == HitsIndexed /\ ResultsIndexed

\* Only Mget and Find make a call stand at 'find' or 'pipeline'.
LEMMA OtherCalls ==
  ASSUME TypeOK, MultiInv, NEW c \in Callers, NEW s, Await(c, s),
         s.await \notin {"find", "pipeline"}
  PROVE  MultiInv'
  BY DEF MultiInv, HitsIndexed, ResultsIndexed, TypeOK, Await

\* MGET puts a cached value at the index of its key.
LEMMA MgetIndexed ==
  ASSUME TypeOK, CachedValuesWereStored, MultiInv,
         NEW c \in Callers, NEW keys \in KeyLists, Mget(c, keys)
  PROVE  MultiInv'
<1> DEFINE results == [i \in DOMAIN keys |->
                         IF Truthy(cache[Tagged(keys[i])])
                         THEN cache[Tagged(keys[i])] ELSE NoValue]
           s == [await |-> "find", keys |-> keys, results |-> results]
<1>1. call'[c] = s /\ \A d \in Callers \ {c} : call'[d] = call[d]
  BY DEF Mget, Await, TypeOK
<1>2. \A i \in DOMAIN keys : Tagged(keys[i]) \in CacheKeys /\ Tagged(keys[i])[2] = keys[i]
  BY ConfigAssumption DEF Tagged, CacheKeys
<1>3. \A i \in DOMAIN keys : results[i] # NoValue => results[i][1] = keys[i]
  BY <1>2 DEF CachedValuesWereStored, Truthy
<1>4. s.await = "find" /\ s.keys = keys /\ s.results = results
  OBVIOUS
<1> HIDE DEF s, results
<1> QED
  BY <1>1, <1>3, <1>4 DEF MultiInv, HitsIndexed, ResultsIndexed

\* The documents go to the indices of their keys.
LEMMA FindIndexed ==
  ASSUME TypeOK, MultiInv, DistinctKeys, NEW c \in Callers, Find(c)
  PROVE  MultiInv'
<1> USE ConfigAssumption
<1> DEFINE keys == call[c].keys
           old == call[c].results
           found == {k \in Missing(keys, old) : store[k] # 0}
           docs == [k \in Keys |-> IF k \in found THEN Doc(k) ELSE NoValue]
           Hit(i) == \E k \in found : KeysNotFound(keys, old, k) = i
           At(i) == CHOOSE k \in found : KeysNotFound(keys, old, k) = i
           results == [i \in DOMAIN keys |-> IF Hit(i) THEN Doc(At(i)) ELSE old[i]]
           s == [await |-> "pipeline", keys |-> keys, results |-> results,
                 docs |-> docs, left |-> found]
<1>1. /\ call[c].await = "find" /\ keys \in KeyLists /\ keys \in Seq(Keys)
      /\ DOMAIN old = DOMAIN keys
  BY CallKinds DEF Find, TypeOK, FindCalls, Aligned
<1>2. CASE Return(c)
  BY <1>2, OtherCalls DEF Return, Idle
<1>3. CASE ~Return(c)
  <2>1. call'[c] = s /\ \A d \in Callers \ {c} : call'[d] = call[d]
    BY <1>3 DEF Find, Await, TypeOK
  <2>2. \A i \in DOMAIN keys : KeysNotFound(keys, old, keys[i]) = i
    <3> SUFFICES ASSUME NEW i \in DOMAIN keys
                 PROVE  KeysNotFound(keys, old, keys[i]) = i
      OBVIOUS
    <3>1. \A j \in DOMAIN keys : keys[j] = keys[i] => j = i
      BY <1>1 DEF DistinctKeys
    <3>2. i <= i
      BY <1>1
    <3> QED BY <3>1, <3>2 DEF KeysNotFound
  <2>3. \A k \in found : \E i \in DOMAIN keys : k = keys[i]
    BY <1>1 DEF Missing
  <2>4. ASSUME NEW i \in DOMAIN keys
        PROVE  IF results[i] = NoValue THEN docs[keys[i]] = NoValue
                                       ELSE results[i][1] = keys[i]
    <3>1. keys[i] \in Keys
      BY <1>1
    <3>2. CASE Hit(i)
      <4>1. At(i) \in found /\ KeysNotFound(keys, old, At(i)) = i
        BY <3>2
      <4>2. At(i) = keys[i]
        BY <2>2, <2>3, <4>1
      <4>3. Doc(keys[i]) # NoValue /\ Doc(keys[i])[1] = keys[i]
        BY <3>1, <4>1, <4>2 DEF Doc, TypeOK, Values
      <4>4. results[i] = Doc(keys[i])
        BY <3>2, <4>2
      <4> QED BY <4>3, <4>4
    <3>3. CASE ~Hit(i)
      <4>1. results[i] = old[i]
        BY <3>3
      <4>2. keys[i] \notin found
        BY <2>2, <3>3
      <4>3. old[i] # NoValue => old[i][1] = keys[i]
        BY <1>1 DEF MultiInv, HitsIndexed
      <4> QED BY <3>1, <4>1, <4>2, <4>3
    <3> QED BY <3>2, <3>3
  <2>5. s.await = "pipeline" /\ s.keys = keys /\ s.results = results /\ s.docs = docs
    OBVIOUS
  <2> HIDE DEF s, results, docs
  <2> QED
    BY <2>1, <2>4, <2>5 DEF MultiInv, HitsIndexed, ResultsIndexed
<1> QED BY <1>2, <1>3

\* Every step keeps the results indexed.
LEMMA NextIndexed ==
  ASSUME TypeOK, CachedValuesWereStored, MultiInv, DistinctKeys, [Next]_vars
  PROVE  MultiInv'
<1>1. ASSUME UNCHANGED call
      PROVE  MultiInv'
  BY <1>1 DEF MultiInv, HitsIndexed, ResultsIndexed
<1>2. ASSUME NEW c \in Callers, NEW k \in Keys, GetByKey(c, k) \/ SetByKey(c, k)
      PROVE  MultiInv'
  BY <1>2, OtherCalls DEF GetByKey, SetByKey
<1>3. ASSUME NEW c \in Callers, NEW prefix \in KeyPrefixes, ExpireConfigs(c, prefix)
      PROVE  MultiInv'
  BY <1>3, OtherCalls DEF ExpireConfigs
<1>4. ASSUME NEW c \in Callers, FindOne(c) \/ Setex(c) \/ PipelineDone(c) \/ Fail(c)
      PROVE  MultiInv'
  BY <1>4, OtherCalls DEF FindOne, Setex, PipelineDone, Fail, Return, Idle
<1>5. ASSUME NEW c \in Callers, NEW k \in Keys, PipelineCommand(c, k)
      PROVE  MultiInv'
  <2> DEFINE s == [call[c] EXCEPT !.left = @ \ {k}]
  <2>1. call[c] \in PipelineCalls /\ call[c].await = "pipeline"
    BY <1>5, CallKinds DEF PipelineCommand, TypeOK
  <2>2. /\ s.await = "pipeline" /\ s.keys = call[c].keys
        /\ s.results = call[c].results /\ s.docs = call[c].docs
    BY <2>1 DEF PipelineCalls
  <2>3. call'[c] = s /\ \A d \in Callers \ {c} : call'[d] = call[d]
    BY <1>5 DEF PipelineCommand, Await, TypeOK
  <2> HIDE DEF s
  <2> QED BY <2>1, <2>2, <2>3 DEF MultiInv, HitsIndexed, ResultsIndexed
<1>6. ASSUME NEW c \in Callers, NEW ck \in CacheKeys, Del(c, ck)
      PROVE  MultiInv'
  <2>1. call[c] \in DelCalls
    BY <1>6, CallKinds DEF Del, TypeOK
  <2>2. PICK s : Await(c, s) /\ s.await \in {"none", "del"}
    BY <1>6, <2>1 DEF Del, Return, Idle, DelCalls
  <2> QED BY <2>2, OtherCalls
<1> QED
  BY <1>1, <1>2, <1>3, <1>4, <1>5, <1>6, MgetIndexed, FindIndexed
  DEF Next, Proceed, SetCache, Expire, vars

\* getByMultiKeys returns a correctly indexed array (ConfigService.ts:49-50)
\* for every list that names no key twice.
THEOREM MultiKeysIndexed == DistinctKeys => (Spec => []ResultsIndexed)
<1> SUFFICES ASSUME DistinctKeys
             PROVE  Spec => []ResultsIndexed
  OBVIOUS
<1>1. Init => MultiInv
  BY DEF Init, MultiInv, HitsIndexed, ResultsIndexed, Idle
<1>2. TypeOK /\ DataInv /\ MultiInv /\ [Next]_vars => MultiInv'
  BY NextIndexed DEF DataInv
<1>3. MultiInv => ResultsIndexed
  BY DEF MultiInv
<1> QED BY <1>1, <1>2, <1>3, Invariance, PTL DEF Spec
================================================================================
