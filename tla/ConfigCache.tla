------------------------------ MODULE ConfigCache ------------------------------
(***************************************************************************)
(* ConfigService (src/src/services/ConfigService.ts): configuration values *)
(* live in MongoDB and are cached aside in Redis.  Any number of calls, in *)
(* this process or in another one, run at the same time; a step is one     *)
(* command that Redis or MongoDB executes for a call, together with what   *)
(* the call does synchronously until its next await.  Every command may    *)
(* fail, which rejects the call, and a process that dies fails its calls.  *)
(*                                                                         *)
(* The n-th value that is stored for a key k is <<k, n>>; what it says     *)
(* matters only in that it may be blank, which the code takes for a miss.  *)
(***************************************************************************)
EXTENDS Integers, Sequences

CONSTANTS
    Keys,       \* configuration keys
    Callers,    \* concurrent calls of ConfigService
    KeyLists,   \* the lists of keys that getByMultiKeys is called with
    KeyPrefixes, \* sets of cache keys that a prefix of expireConfigs matches
    CacheOnly,  \* keys that setCache is called with
    Blank,      \* the values that are empty or null
    MaxWrites,  \* bound: values stored per key
    NoValue     \* null

Values == Keys \X Nat
Plain(k) == <<"plain", k>>
Tagged(k) == <<"tagged", k>>  \* the key with its {hashTag}
CacheKeys == {"plain", "tagged"} \X Keys

ASSUME ConfigAssumption ==
    /\ NoValue \notin Values
    /\ KeyLists \subseteq Seq(Keys)
    /\ KeyPrefixes \subseteq SUBSET CacheKeys
    /\ CacheOnly \subseteq Keys
    /\ MaxWrites \in Nat

VARIABLES
    store,     \* the configs collection: per key, how many values were stored;
               \* the document holds the last one, and 0 is no document
    cache,     \* Redis
    call,      \* per caller, the await that its call stands at
    disturbed  \* history: keys with a fill that did not follow its read or
               \* write of the store undisturbed

vars == <<store, cache, call, disturbed>>

Idle == [await |-> "none"]
Doc(k) == IF store[k] = 0 THEN NoValue ELSE <<k, store[k]>>
Truthy(v) == v # NoValue /\ v \notin Blank

\* Calls that hold a value they are about to put under the plain key k.
Holders(k) == {c \in Callers : call[c].await = "setex" /\ call[c].key = k}

Await(c, state) == call' = [call EXCEPT ![c] = state]
Return(c) == Await(c, Idle)

Init ==
    /\ store = [k \in Keys |-> 0]
    /\ cache = [ck \in CacheKeys |-> NoValue]
    /\ call = [c \in Callers |-> Idle]
    /\ disturbed = {}

--------------------------------------------------------------------------------
(***************************************************************************)
(* getByKey: Redis GET, on a miss MongoDB findOne, then SETEX.  A hit      *)
(* returns at once and changes nothing, as do getCache and keys.           *)
(***************************************************************************)
GetByKey(c, k) ==
    /\ call[c] = Idle
    /\ ~Truthy(cache[Plain(k)])
    /\ Await(c, [await |-> "findOne", key |-> k])
    /\ UNCHANGED <<store, cache, disturbed>>


\* A plausible bug: the document is not tested for null.
NeverMissing(k) == FALSE

\* if (value): there is no document for k.
NotFound(k) == Doc(k) = NoValue

FindOne(c) ==
    /\ call[c].await = "findOne"
    /\ LET k == call[c].key
       IN  IF NotFound(k)
           THEN Return(c)
           ELSE Await(c, [await |-> "setex", key |-> k, value |-> Doc(k)])
    /\ UNCHANGED <<store, cache, disturbed>>

\* The SETEX of getByKey or of setByKey.
Setex(c) ==
    /\ call[c].await = "setex"
    /\ cache' = [cache EXCEPT ![Plain(call[c].key)] = call[c].value]
    /\ Return(c)
    /\ UNCHANGED <<store, disturbed>>

(***************************************************************************)
(* setByKey: findOneAndUpdate with upsert and new, then SETEX.             *)
(***************************************************************************)

\* A plausible bug: findOneAndUpdate without {new: true}.
UpsertedOld(k) == IF store[k] = 0 THEN <<k, 1>> ELSE <<k, store[k]>>

\* What findOneAndUpdate with {new: true} returns.
Upserted(k) == <<k, store[k] + 1>>

SetByKey(c, k) ==
    /\ call[c] = Idle
    /\ store[k] < MaxWrites
    /\ store' = [store EXCEPT ![k] = @ + 1]
    /\ Await(c, [await |-> "setex", key |-> k, value |-> Upserted(k)])
    /\ disturbed' = IF Holders(k) = {} THEN disturbed ELSE disturbed \cup {k}
    /\ UNCHANGED cache

(***************************************************************************)
(* setCache writes Redis only, a value that no document ever had.          *)
(***************************************************************************)
SetCache(c, k) ==
    /\ call[c] = Idle
    /\ cache' = [cache EXCEPT ![Plain(k)] = <<k, 0>>]
    /\ disturbed' = disturbed \cup {k}
    /\ UNCHANGED <<store, call>>

--------------------------------------------------------------------------------
(***************************************************************************)
(* getByMultiKeys: MGET of the tagged keys, find for the keys that miss,   *)
(* one pipeline of SETEX commands for what was found.                      *)
(***************************************************************************)
Missing(keys, results) == {keys[i] : i \in {j \in DOMAIN keys : results[j] = NoValue}}

Mget(c, keys) ==
    /\ call[c] = Idle
    /\ LET results == [i \in DOMAIN keys |->
                         IF Truthy(cache[Tagged(keys[i])])
                         THEN cache[Tagged(keys[i])] ELSE NoValue]
       IN  /\ Missing(keys, results) # {}
           /\ Await(c, [await |-> "find", keys |-> keys, results |-> results])
    /\ UNCHANGED <<store, cache, disturbed>>

\* A plausible bug: the index of a document counts the missing keys only,
\* since keys is reassigned to Object.keys(keysNotFound).
IndexAmongMissing(keys, results, k) ==
    LET missing == SelectSeq(keys, LAMBDA x : x \in Missing(keys, results))
    IN  CHOOSE i \in DOMAIN missing : missing[i] = k

\* keysNotFound[k]: assigned for every index, so the last one stays.
KeysNotFound(keys, results, k) ==
    CHOOSE i \in DOMAIN keys :
      keys[i] = k /\ \A j \in DOMAIN keys : keys[j] = k => j <= i

\* The documents found for the missing keys go into results.  A blank one
\* leaves an undefined command in the pipeline, which ioredis refuses with
\* an exception before it sends anything.
Find(c) ==
    /\ call[c].await = "find"
    /\ LET keys == call[c].keys
           old  == call[c].results
           found == {k \in Missing(keys, old) : store[k] # 0}
           results == [i \in DOMAIN keys |->
                         IF \E k \in found : KeysNotFound(keys, old, k) = i
                         THEN Doc(CHOOSE k \in found : KeysNotFound(keys, old, k) = i)
                         ELSE old[i]]
       IN  IF \E k \in found : Doc(k) \in Blank
           THEN Return(c)
           ELSE Await(c, [await |-> "pipeline", keys |-> keys, results |-> results,
                          docs |-> [k \in Keys |-> IF k \in found THEN Doc(k) ELSE NoValue],
                          left |-> found])
    /\ UNCHANGED <<store, cache, disturbed>>

\* A plausible bug: the command names a key by the position of the document
\* in the answer of find.
FillKeyByPosition(c, k) ==
    CHOOSE key \in Keys : call[c].docs[key] = NoValue \/ key = k

\* The key of a document's SETEX command.
FillKey(c, k) == k

PipelineCommand(c, k) ==
    /\ call[c].await = "pipeline"
    /\ k \in call[c].left
    /\ cache' = [cache EXCEPT ![Tagged(FillKey(c, k))] = call[c].docs[k]]
    /\ Await(c, [call[c] EXCEPT !.left = @ \ {k}])
    /\ UNCHANGED <<store, disturbed>>

PipelineDone(c) ==
    /\ call[c].await = "pipeline"
    /\ call[c].left = {}
    /\ Return(c)
    /\ UNCHANGED <<store, cache, disturbed>>

--------------------------------------------------------------------------------
(***************************************************************************)
(* expireConfigs: KEYS prefix*, then one DEL after the other.              *)
(***************************************************************************)
ExpireConfigs(c, prefix) ==
    /\ call[c] = Idle
    /\ LET keys == {ck \in prefix : cache[ck] # NoValue}
       IN  keys # {} /\ Await(c, [await |-> "del", left |-> keys])
    /\ UNCHANGED <<store, cache, disturbed>>

Del(c, ck) ==
    /\ call[c].await = "del"
    /\ ck \in call[c].left
    /\ cache' = [cache EXCEPT ![ck] = NoValue]
    /\ IF call[c].left = {ck} THEN Return(c)
       ELSE Await(c, [call[c] EXCEPT !.left = @ \ {ck}])
    /\ UNCHANGED <<store, disturbed>>

\* The command a call waits for fails, or its process dies.
Fail(c) ==
    /\ call[c] # Idle
    /\ Return(c)
    /\ disturbed' = IF call[c].await = "setex" THEN disturbed \cup {call[c].key}
                                               ELSE disturbed
    /\ UNCHANGED <<store, cache>>

\* A plausible bug: SET without a time to live for the tagged keys.
ExpiringPlainOnly == {"plain"} \X Keys

\* Every entry is set with SETEX.
Expiring == CacheKeys

\* The time to live of an entry elapses.
Expire(ck) ==
    /\ ck \in Expiring
    /\ cache[ck] # NoValue
    /\ cache' = [cache EXCEPT ![ck] = NoValue]
    /\ UNCHANGED <<store, call, disturbed>>

Proceed(c) ==
    \/ FindOne(c) \/ Setex(c)
    \/ Find(c) \/ PipelineDone(c) \/ \E k \in Keys : PipelineCommand(c, k)
    \/ \E ck \in CacheKeys : Del(c, ck)

Next ==
    \/ \E c \in Callers :
         \/ \E k \in Keys : GetByKey(c, k) \/ SetByKey(c, k)
         \/ \E k \in CacheOnly : SetCache(c, k)
         \/ \E keys \in KeyLists : Mget(c, keys)
         \/ \E prefix \in KeyPrefixes : ExpireConfigs(c, prefix)
         \/ Proceed(c)
         \/ Fail(c)
    \/ \E ck \in CacheKeys : Expire(ck)

Spec == Init /\ [][Next]_vars

(***************************************************************************)
(* Redis expires what it was told to, and every command a call waits for   *)
(* is answered or fails.                                                   *)
(***************************************************************************)
Fairness ==
    /\ \A ck \in CacheKeys : WF_vars(Expire(ck))
    /\ \A c \in Callers : WF_vars(Proceed(c) \/ Fail(c))

FairSpec == Spec /\ Fairness

--------------------------------------------------------------------------------
FindOneCalls == [await : {"findOne"}, key : Keys]
SetexCalls == [await : {"setex"}, key : Keys, value : Values]
Aligned(s) == DOMAIN s.results = DOMAIN s.keys
FindCalls ==
    {s \in [await : {"find"}, keys : KeyLists, results : Seq(Values \cup {NoValue})] :
       Aligned(s)}
PipelineCalls ==
    {s \in [await : {"pipeline"}, keys : KeyLists, results : Seq(Values \cup {NoValue}),
            docs : [Keys -> Values \cup {NoValue}], left : SUBSET Keys] :
       Aligned(s)}
DelCalls == [await : {"del"}, left : SUBSET CacheKeys]

CallStates ==
    {Idle} \cup FindOneCalls \cup SetexCalls \cup FindCalls \cup PipelineCalls
    \cup DelCalls

TypeOK ==
    /\ store \in [Keys -> Nat]
    /\ cache \in [CacheKeys -> Values \cup {NoValue}]
    /\ call \in [Callers -> CallStates]
    /\ disturbed \subseteq Keys

\* Whatever is cached under a key, plain or tagged, is a value that was stored
\* for that key (or one that setCache put there): the paths through the two
\* stores never mix keys up and never show a value before it is stored.
CachedValuesWereStored ==
    \A ck \in CacheKeys : cache[ck] # NoValue =>
      LET k == cache[ck][1] n == cache[ck][2]
      IN  k = ck[2] /\ n <= store[k] /\ (n = 0 => k \in disturbed)

\* A plain entry differs from the document only while the call that stored
\* the document has still to write Redis, or if a call was overtaken: a write
\* came between another call's read or write of MongoDB and its SETEX, or a
\* SETEX failed, or setCache was used.  Without overlap and failure, setByKey
\* leaves no stale entry.
StaleOnlyIfDisturbed ==
    \A k \in Keys :
      \/ k \in disturbed
      \/ cache[Plain(k)] \in {NoValue, Doc(k)}
      \/ \E c \in Holders(k) : call[c].value = Doc(k)

\* "To return the correctly indexed array of values" (ConfigService.ts:49-50):
\* when getByMultiKeys has its documents, every result is a value of the key
\* at the same index, and a result is null only if there is no document.
ResultsIndexed ==
    \A c \in Callers : call[c].await = "pipeline" =>
      \A i \in DOMAIN call[c].keys :
        LET r == call[c].results[i]
        IN  IF r = NoValue THEN call[c].docs[call[c].keys[i]] = NoValue
                           ELSE r[1] = call[c].keys[i]

Coherent == \A ck \in CacheKeys : cache[ck] \in {NoValue, Doc(ck[2])}

\* However the calls overlap and fail, once the writes stop (setByKey is
\* bounded, setCache may come to an end) the cache ends up agreeing with the
\* documents for good: the time to live heals every stale entry.
EventuallyCoherent ==
    <>[][\A c \in Callers, k \in CacheOnly : ~SetCache(c, k)]_vars => <>[]Coherent
================================================================================
