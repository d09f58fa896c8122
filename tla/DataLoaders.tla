------------------------------ MODULE DataLoaders ------------------------------
(***************************************************************************)
(* createDataLoader (src/src/libs/graphql/index.ts): the one DataLoader    *)
(* that a resolver shares between all requests.  Loads of one tick form a  *)
(* batch, the batch is one call of the service, and every key's promise    *)
(* stays in a TTLCache until its time to live elapses or newer keys push   *)
(* it out.                                                                 *)
(*                                                                         *)
(* A promise is <<b, i>>: the i-th key of batch b.  The n-th version of    *)
(* the item with key k is <<k, n>>; version 0 says that there is no item.  *)
(***************************************************************************)
EXTENDS Naturals, Sequences, SequencesExt

CONSTANTS
    Keys,        \* the ids that are loaded
    Loads,       \* resolvers that load at the same time, of any requests
    MaxItems,    \* env.dataloaderCache.max
    Batches,     \* bound: batches that something refers to
    MaxVersion,  \* bound: versions of an item
    Undefined    \* what a load without an item resolves to

Items == Keys \X (1 .. MaxVersion)

ASSUME LoaderAssumption ==
    /\ IsFiniteSet(Keys)
    /\ MaxItems \in Nat \ {0} /\ MaxVersion \in Nat
    /\ Undefined \notin Items

VARIABLES
    item,      \* per key, the version of its item in the service's database
    batch,     \* per batch: free, open (more keys may join), called, settled
    cacheMap,  \* the TTLCache, its oldest entry first
    load       \* per resolver, the promise that it awaits

loaderVars == <<item, batch, cacheMap, load>>

Free == [state |-> "free", keys |-> <<>>]
NoLoad == [key |-> Undefined]
State(p) == batch[p[1]].state
Value(p) == batch[p[1]].values[p[2]]

LoaderInit ==
    /\ item = [k \in Keys |-> 0]
    /\ batch = [b \in Batches |-> Free]
    /\ cacheMap = <<>>
    /\ load = [l \in Loads |-> NoLoad]

\* The garbage collector: a settled batch that no promise is kept of is free.
Kept(entries, loads) ==
    {entries[i].promise[1] : i \in DOMAIN entries}
    \cup {loads[l].promise[1] : l \in {m \in Loads : loads[m] # NoLoad}}
Collect(batches, entries, loads) ==
    /\ cacheMap' = entries
    /\ load' = loads
    /\ batch' = [b \in Batches |->
                   IF batches[b].state = "settled" /\ b \notin Kept(entries, loads)
                   THEN Free ELSE batches[b]]

--------------------------------------------------------------------------------
Cached(k) == {i \in DOMAIN cacheMap : cacheMap[i].key = k}

\* load(k) with a promise in the cache, pending or settled.
LoadHit(l, k) ==
    /\ load[l] = NoLoad
    /\ \E i \in Cached(k) : load' = [load EXCEPT ![l] = cacheMap[i]]
    /\ UNCHANGED <<item, batch, cacheMap>>

\* getCurrentBatch: the batch that was not dispatched yet.
Joinable(b) == batch[b].state = "open"

CurrentBatch ==
    LET free == {b \in Batches : batch[b] = Free}
    IN  IF \E b \in Batches : Joinable(b) THEN {b \in Batches : Joinable(b)}
        ELSE IF free = {} THEN {} ELSE {CHOOSE b \in free : TRUE}

\* A plausible bug: the cache is made without a maximum.
NeverPurges(entries) == entries

\* TTLCache drops the entry that would expire first when it is full.
Purge(entries) == IF Len(entries) > MaxItems THEN Tail(entries) ELSE entries

\* load(k) on a miss: the key joins the current batch, or opens one, and its
\* promise goes to the cache.
LoadMiss(l, k) ==
    /\ load[l] = NoLoad
    /\ Cached(k) = {}
    /\ \E b \in CurrentBatch :
         LET joined == [batch[b] EXCEPT !.keys = Append(@, k)]
             entry == [key |-> k, promise |-> <<b, Len(joined.keys)>>, since |-> item[k]]
         IN  Collect([batch EXCEPT ![b] = IF joined.state = "free"
                                          THEN [joined EXCEPT !.state = "open"] ELSE joined],
                     Purge(Append(cacheMap, entry)), [load EXCEPT ![l] = entry])
    /\ UNCHANGED item

\* The tick ends: the batch function is called.
Dispatch(b) ==
    /\ batch[b].state = "open"
    /\ batch' = [batch EXCEPT ![b].state = "called"]
    /\ UNCHANGED <<item, cacheMap, load>>

\* What the service may answer: the items it was asked for, or all it has
\* (DemoService.findByIds ignores its argument), in any order.
FoundItems(keys) ==
    LET present == {<<k, item[k]>> : k \in {key \in Keys : item[key] > 0}}
        asked == {i \in present : i[1] \in {keys[j] : j \in DOMAIN keys}}
    IN  SetToSeqs(present) \cup SetToSeqs(asked)

\* A plausible bug: the answer is taken to be in the order of the keys.
ByPosition(keys, items) ==
    [j \in DOMAIN keys |-> IF j \in DOMAIN items THEN items[j] ELSE Undefined]

\* keys.map(key => items.filter(item => item[options.key] === key)[0])
BatchResult(keys, items) ==
    [j \in DOMAIN keys |->
       LET own == {i \in DOMAIN items : items[i][1] = keys[j]}
       IN  IF own = {} THEN Undefined ELSE items[Min(own)]]

Settle(b, items, failed) ==
    /\ batch[b].state = "called"
    /\ batch' = [batch EXCEPT ![b] =
                   [state |-> "settled", failed |-> failed,
                    values |-> BatchResult(batch[b].keys, items)]]
    /\ UNCHANGED <<item, cacheMap, load>>

ServiceAnswers(b) ==
    /\ batch[b].state = "called"
    /\ \E items \in FoundItems(batch[b].keys) : Settle(b, items, FALSE)

\* catch (error) { items = []; }
ServiceFails(b) == Settle(b, <<>>, TRUE)

\* The code that awaited load l goes on.
Loaded(l) ==
    /\ load[l] # NoLoad
    /\ State(load[l].promise) = "settled"
    /\ Collect(batch, cacheMap, [load EXCEPT ![l] = NoLoad])
    /\ UNCHANGED item

\* A plausible bug: the cache is made without a time to live.
NeverExpires == FALSE

\* All entries live equally long, so the oldest one expires first.
Expires == cacheMap # <<>>

ExpireEntry ==
    /\ Expires
    /\ Collect(batch, Tail(cacheMap), load)
    /\ UNCHANGED item

\* Someone creates or changes the item.
Update(k) ==
    /\ item[k] < MaxVersion
    /\ item' = [item EXCEPT ![k] = @ + 1]
    /\ UNCHANGED <<batch, cacheMap, load>>

Serve(b) == Dispatch(b) \/ ServiceAnswers(b) \/ ServiceFails(b)

LoaderNext ==
    \/ \E l \in Loads : Loaded(l) \/ \E k \in Keys : LoadHit(l, k) \/ LoadMiss(l, k)
    \/ \E b \in Batches : Serve(b)
    \/ ExpireEntry
    \/ \E k \in Keys : Update(k)

LoaderSpec == LoaderInit /\ [][LoaderNext]_loaderVars

(***************************************************************************)
(* Node runs what is ready, the promise of the service settles, and the    *)
(* cache's timers fire.                                                    *)
(***************************************************************************)
LoaderFairness ==
    /\ WF_loaderVars(ExpireEntry)
    /\ \A b \in Batches : WF_loaderVars(Serve(b))
    /\ \A l \in Loads : WF_loaderVars(Loaded(l))

LoaderFairSpec == LoaderSpec /\ LoaderFairness

--------------------------------------------------------------------------------
Entries == [key : Keys, promise : Batches \X (Nat \ {0}), since : 0 .. MaxVersion]
PendingBatch == [state : {"open", "called"}, keys : Seq(Keys)]
SettledBatch == [state : {"settled"}, failed : BOOLEAN, values : Seq(Items \cup {Undefined})]
Waiting == {load[l] : l \in {m \in Loads : load[m] # NoLoad}}
Referenced == Waiting \cup {cacheMap[i] : i \in DOMAIN cacheMap}

LoaderTypeOK ==
    /\ item \in [Keys -> 0 .. MaxVersion]
    /\ batch \in [Batches -> {Free} \cup PendingBatch \cup SettledBatch]
    /\ cacheMap \in Seq(Entries) /\ Len(cacheMap) <= MaxItems
    /\ load \in [Loads -> Entries \cup {NoLoad}]
    \* A promise that is kept belongs to a batch that holds its key.
    /\ \A e \in Referenced :
         \/ /\ State(e.promise) = "settled"
            /\ e.promise[2] \in DOMAIN batch[e.promise[1]].values
         \/ /\ State(e.promise) \in {"open", "called"}
            /\ e.promise[2] \in DOMAIN batch[e.promise[1]].keys
            /\ batch[e.promise[1]].keys[e.promise[2]] = e.key
    \* A key has one promise in the cache.
    /\ \A i, j \in DOMAIN cacheMap : cacheMap[i].key = cacheMap[j].key => i = j

Version(v) == IF v = Undefined THEN 0 ELSE v[2]

\* However loads of several requests share batches and cached promises, a load
\* resolves to the item of its own key, and unless the service failed to a
\* version no older than the item was when the promise went into the cache: an
\* answer is never staler than the time to live.
LoadsOwnFreshItem ==
    \A e \in Referenced : State(e.promise) = "settled" =>
      LET v == Value(e.promise)
      IN  /\ v # Undefined => v[1] = e.key
          /\ ~batch[e.promise[1]].failed => Version(v) >= e.since

\* An old answer, or the miss that a failed call leaves behind, does not stay:
\* when items stop changing and the service stops failing, every promise in the
\* cache comes to hold the current item for good, even if it is asked for all
\* the time.
CacheHeals ==
    <>[][\A k \in Keys, b \in Batches : ~Update(k) /\ ~ServiceFails(b)]_loaderVars =>
      <>[](\A i \in DOMAIN cacheMap :
             LET e == cacheMap[i]
             IN  State(e.promise) = "settled" =>
                   Version(Value(e.promise)) = item[e.key])
================================================================================
