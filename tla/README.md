# Formal models of node-starter

This directory holds TLA+ models of the server in `src/`, TLC configurations that check them on small
instances, and TLAPS proofs of what matters most for every instance. Every definition is translated from
the code; `PROJECT.json` ("map") names the lines each one stands for, or says that it is external: Redis,
MongoDB, Bull, kafkajs, Node and the frameworks are modelled by what the code relies on. Paths and line
numbers below refer to `src/src/` unless they say otherwise.

## The system

| Component | State | Operations | What is hard | What makes it correct |
|---|---|---|---|---|
| Lifecycle: `index.ts`, `libs/Kernel.ts`, `ServiceProvider` | where the loops stand, `shuttingDown`, listeners, force-exit timer | register all, boot all, signal, close all | signals at any time, calls that reject or hang | order, one shutdown, the timer covers exactly the close loop |
| `CacheProvider` | the shared ioredis client | register, close | everybody uses it while providers close | no work finds it closed |
| `KafkaProvider` | producer | register, boot, close | failing disconnects | the producer outlives the consumers |
| `KafkaConsumerRunner`, `KafkaListener` | consumers, group positions | boot, eachMessage, shutdown | crash between `handle` and commit, rebalances, whitelist | nothing is skipped; repeats only after a disturbance |
| `JobsProvider` | `runningJobs` | boot with `JOB_DEFINITIONS`, close | queues constructed but not run, a close that fails | what was started takes no more jobs after the shutdown |
| `Queueable`, `QueueWorker` | jobs in Redis: state, lock, attempts | dispatch, process, close | stalls, crashes, lost answers, deployments | jobs are not lost, given up early or settled twice |
| `moduleLoader` | registered handlers | expand patterns, import | `src` beside `dist`, modules that fail | handlers of the running build are loaded |
| `HttpProvider`, REST middlewares and controllers | requests, connections | authenticate, authorize, call, answer, `/health` | tokens that expire, services that fail midway | a refusal changed nothing; guarded routes work for administrators only |
| `ConfigService`, `ConfigRepository` | documents in MongoDB, cached in Redis under plain and tagged keys | get, get many, set, expire | overlapping read-fill and write-fill, partial failures | staleness only after an overlap, and only until the time to live |
| `SequenceRepository`, `withTransaction`, update hook | sequence documents, sessions | increment, alone or in transactions | conflicts, retries, lost commits | each number is issued once |
| Data loaders: `libs/graphql`, `DLoader` | batches, TTL cache | load, batch, answer | answers in any order, purged pending entries | each load gets its own item |
| GraphQL: `GraphqlProvider`, `middlewares/graphql` | session in Redis, fields of a request | authenticate, guard, resolve, answer | sibling fields fail in any order | one answer, which tells the failure |
| `MongodbProvider`, `TypeORMProvider`, `SocketProvider`, all commented out in `Kernel.ts` | `mongoose.connection`, `isClosed`, data source, the adapter's Redis client | register, boot, reconnection; closed by `HttpProvider` or by nobody | an outage during boot, run or shutdown | what is left open is known; the close loop ends |
| `libs/env` | none; read once at import | required, optional, boolean and list variables | unset is not empty, padded words | the settings are those the providers test |
| Logging, scalars, helpers, S3, axios, Telegram, Lambda | none of their own | conversions and single remote calls | | |

How they interact: `index.ts` calls the providers in the order of `Kernel.ts` and closes them in the reverse
order; the HTTP controllers use the Redis client, the injected queues and the producer of the other
providers, jobs and message handlers do too, and all of that may be in flight while the providers close.
`Container` is the shared memory (`cache`, `kafkaProducer`, `shutdownInProgress`). Queues create their own
Redis clients from the options of the shared one, which neither Bull's `close()` nor any provider disconnects. Config calls of any number of processes share
MongoDB and Redis; Bull workers and Kafka consumers of several processes share their brokers.

## Modules

| Module | Models | Correspondence |
|---|---|---|
| `Bootstrap` | `index.ts` | `phase` and `cursor` say which loop awaits which provider; `RegisterResolves`, `BootResolves`, `BootstrapRejects`, `Signal` (handled, ignored or without a listener), `CloseSettles`, `ForceExit`, `EventLoopEmpty` |
| `Environment` | `libs/env`, `ServerType` | pure operators over an environment, a function from the variables that are set to texts, which are sequences of words: what must be set, lists, booleans, server types, the tests of `KafkaProvider` |
| `Server` | the five enabled providers: Bootstrap, Cache, Kafka, Jobs, Http | composes `Bootstrap` (`B == INSTANCE Bootstrap WITH NumProviders <- 5`); every lifecycle action is one of `B`'s together with the provider's effect on its handles. Connections, jobs and messages run beside it. It starts from what `Environment` makes of the `Environments` that are given |
| `MongoConnection` | `mongoose.connection` with the listeners of `MongodbProvider` | a record of the connection and what each event makes of it; mongoose itself is external |
| `FullKernel` | the process with all nine providers of `Kernel.ts`, the comments removed | composes `Bootstrap` (`NumProviders <- 9`) and `MongoConnection`; outages, failed attempts, `wait(2000)`, the close by `HttpProvider.close` |
| `KafkaConsumers` | `KafkaConsumerRunner`, listener metadata, whitelist, group choice | pods with one member per enabled definition; a stream is a partition as one group reads it; where a group begins, delivery, `eachMessage` with its swallowed errors, commits, `shutdown`, crash, restart, rebalance |
| `HandlerLoading` | `libs/utils/moduleLoader.ts`, `QueueMetadata` | pure operators: which files a pattern finds in a deployment and which handlers are registered |
| `JobQueues` | `Queueable`, `JobsProvider` over one Redis | uses `HandlerLoading`; dispatch and its answer, attempts, backoff, lock, stall check, close, crash, restart |
| `ConfigCache` | `ConfigService`, `ConfigRepository` | one action per command of MongoDB or Redis with what the call does until its next await; `call[c]` is the await that call `c` stands at |
| `SequenceNumbers` | `SequenceRepository.increment`, `withTransaction`, `mongoPreUpdateMiddleware`, the `Sequence` model | one action per command; write conflicts and the driver's retries are external |
| `SequenceDispenser` | what callers of the sequences may rely on | abstract: a call waits, is served in one step or fails; `SequenceNumbers` implements it (`D == INSTANCE SequenceDispenser WITH ...`) |
| `DataLoaders` | `createDataLoader`, `DLoader`, `DemoService.findByIds` | promises, batches and the TTL cache with its maximum |
| `GraphqlRequests` | `authenticate`, `authChecker`, `HasRoles`, `ValidateArgs`, `ErrorHandlerMiddleware` | a request executes its fields side by side; the HTTP response can be sent once |
| `RestRequests` | `AuthenticationMiddleware`, `jwt.verify`, `authorizationChecker`, the three controllers, `ErrorHandlerMiddleware`, `/health` | one action per asynchronous step of a request |
| `OptionalProviders_proofs` | theorems about what `Kernel.ts` keeps commented out: `GraphqlRequests`, `DataLoaders`, `FullKernel` | one invariant per component; because it extends all three, `DataLoaders` and `FullKernel` carry `Loader` and `Kernel` in the names of their specifications |
| the other `*_proofs` | theorems about `Bootstrap`, `Server`, `ConfigCache`, `KafkaConsumers`, `JobQueues`, `RestRequests`, `SequenceNumbers` | each extends the module it is about |
| `MC*` | the instances that TLC checks | |

Operators introduced as "a plausible bug" are mutated forms of the definition that follows them. No module
uses them; `PROJECT.json` ("mutants") pairs each property with one that breaks it.

Abstractions worth knowing:

- `Bootstrap`: an awaited call settles or never does; why is the providers' business, in `Server`.
- `Environment`: numbers, ports, paths and credentials are required to be set and not read further; the options
  that no module tells apart are left out.
- `Server`: a controller that reads configurations stands for all that use the shared Redis client. A
  failing `listen()` is an uncaught exception that `index.ts:35` only logs.
- `ConfigCache`: the n-th value stored for `k` is `<<k, n>>`; its text matters only in that it may be blank,
  which the code takes for a miss. The getters for dates, numbers, JSON and arrays convert what `getByKey`
  returns and touch nothing.
- `KafkaConsumers`: `Text(topic)` stands for the default group `${clientId}-${topic}`; the parsing of a value is
  left out (a value that is no JSON is delivered raw).
- `FullKernel`: the Kafka producer and the queues are in `Server`; here the `close()` of their providers resolves.
  One request stands for all that keep the HTTP server from closing, open web sockets included.
- `JobQueues`: job data, delays and priorities are left out; Bull's scripts in Redis are atomic.
- `SequenceNumbers`: nothing in the repository calls `withTransaction` or `increment` yet, so the callers are
  the ones the interfaces allow. An existing session that is not in a transaction behaves as a new one. A
  transaction whose client dies is taken to be aborted at once.
- `DataLoaders`: `multiple: true` and `createReqContext`, which nothing calls, are left out.
- `GraphqlRequests`: it applies once `GraphqlProvider` is enabled in `Kernel.ts`. A resolver's promise settles.
- `RestRequests`: a token's owner, roles and signature are in its name; a missing `JWT_PUBLIC_KEY` is the
  initial state in which no token is valid. The level, the job and the message are represented by the fact
  that the call reached them.

## Runs

| Run | Instance | What it shows |
|---|---|---|
| `lifecycle` | 5 providers, 3 signals | order of register, boot and close; one shutdown; the timer is armed exactly while the loop closes |
| `second_signal` (violation) | the same | a signal that repeats during a shutdown is not ignored |
| `server` | 9 server types, 4 Kafka settings, 4 job lists; 2 queues (one injected in a controller), 2 consumers, 1 connection, 2 signals | no work finds its handle closed; a completed shutdown has stopped what was started and ended its work, and leaves only Redis clients of queues; if work ends, the close loop ends without the timer, and a process that constructed no queue then ends, unless a `close()` of kafkajs failed |
| `optional_providers` | 9 providers, 2 signals, 2 outages of MongoDB | without an HTTP server the process does not come up; only known handles are left after a shutdown; the close loop ends without the timer unless an attempt to connect failed |
| `config_cache` | 2 keys, 2 calls, 2 writes per key, the second value of `k2` blank | no foreign or unborn values; stale only if disturbed; results at the right index; once `setCache` stops, cache and documents agree for good |
| `kafka` | 2 pods, 2 listeners of 2 topics, 1 partition each, 2 messages, 1 disturbance, 3 whitelists, with and without a common group | nothing is skipped; repeats need a disturbance; every message that is due reaches the group of its listener |
| `job_queues` | 2 workers, 1 job, 3 attempts, 3 disturbances, 2 deployments | see the properties of `JobQueues`; every job settles |
| `job_handlers` (violation) | the image of the Dockerfile | no handler is loaded where `src` lies beside `dist` |
| `data_loaders` | 2 resolvers, 2 keys, a cache with room for 1 | own and fresh items; a cached miss heals |
| `graphql` | 2 requests with up to 3 fields, 1 user | the answer tells the failure; `@HasRoles` holds for every request and `@Authorized` for all but introspections; every request is answered |
| `rest` | 2 requests over 11 kinds of input, 2 cache keys, 2 tokens | 4xx and 503 changed nothing; guarded routes for administrators; `expire` leaves no older entry |
| `sequences` | 3 callers, 2 sequences, 2 attempts, 1 disturbance | `Dispensed`: calls are served as `SequenceDispenser` says, so numbers are issued exactly once; only the time limit, a race for a new key, an exception or a failure rejects; calls settle |

Why the bounds are enough:

- The lifecycle runs with the real five providers and three signals; proofs remove the bound.
- In `server` two queues and two consumers make one that is skipped, one that is injected, and a close that
  overlaps with another; a second signal shows the ignored one, a third adds nothing.
- Environments: every reason for which a provider does nothing occurs (unset, empty, padded or unknown words).
- Config calls interact through one key at a time, and through a list of two in `getByMultiKeys`; an overlap
  that leaves a stale entry needs two calls and two values. The second key's blank value brings the pipeline
  exception.
- Two pods make one that takes a partition over and one that loses it, two listeners one that does not read what
  its group assigns to it. `MaxMessages` bounds a partition and `MaxProduced` all of them; two messages make one
  that is committed and one that is not. One disturbance shows each kind; that several in a row do no more is
  what the proofs say.
- A second outage hits a reconnection that the first has started.
- Jobs interact only through the limit of one at a time per worker, so one job on two workers shows every
  stall; three attempts stand for the code's twenty (`Queueable.ts:20`): first, middle, last. Three
  disturbances exceed `MaxStalls = 1`.
- Three callers make a queue behind a conflict; opposite lock orders, a nested transaction, and a repeated
  key are in the operations. Two attempts stand for those within the driver's limit of 120 s.
- At most `MaxItems + |Loads|` = 3 batches are referenced at once, so the bound on batches never blocks.
- Two requests of every kind meet each other. For REST the cache keys are two so that an `expire` can fail
  between them.

### Fairness

- `Bootstrap`: only `ForceExit`, a timer in a living process (`index.ts:52`). Nothing says that `close()` settles.
- `Server` (`WorkEndsSpec`): Node runs what is ready, requests, jobs and messages end, clients disconnect in
  the end; the force-exit timer is *not* fair, so the liveness properties show what the loop does on its own.
- `ConfigCache`: Redis expires its entries, and a command is answered or fails. `EventuallyCoherent` speaks of
  behaviours in which `setCache` stops; `setByKey` is bounded.
- `FullKernel`: the server comes back, attempts to connect end, timers elapse, requests are answered; again not
  the force-exit timer.
- `KafkaConsumers`: only that *something* of what pods, kafkajs and the orchestrator do goes on (`Progress`);
  messages and disturbances are finite, so no part of it can go on for ever without the others.
- `JobQueues`: Redis and timers act, handlers end, the orchestrator restarts pods; crashes are bounded. Both
  speak of behaviours where shutdowns stop.
- `SequenceNumbers`, `DataLoaders`, `GraphqlRequests`: commands are answered, timers fire, what is ready runs.
- `RestRequests` has no liveness property.

## Proofs

| Theorem | Statement |
|---|---|
| `Bootstrap_proofs!TypeCorrect`, `LifecycleOrdered`, `TimerCorrect`, `ClosesOnce` | the safety properties of `lifecycle` for any number of providers and any signals |
| `Server_proofs!ImplementsBootstrap` | the process implements `Bootstrap` with its five providers |
| `Server_proofs!LifecycleInherited` | so the theorems about `Bootstrap` hold of the process |
| `Server_proofs!TypeCorrect`, `WorkSafe`, `WorkStopped` | the safety properties of `server` for any environments, job classes, consumers, connections and signals |
| `ConfigCache_proofs!TypeCorrect`, `NoForeignValues`, `StalenessNeedsOverlap`, `MultiKeysIndexed` | those of `config_cache` for any keys, callers, key lists and prefixes |
| `KafkaConsumers_proofs!TypeCorrect`, `HandledBeforeCommitted`, `RepeatsNeedDisturbance` | those of `kafka` for any pods, listeners, partitions, environments and numbers of messages and disturbances |
| `JobQueues_proofs!TypeCorrect`, `OneAtATime`, `FailsWhenSpent`, `OutcomesStay` | those of `job_queues` for any workers, queues, jobs, deployments, attempts and disturbances |
| `OptionalProviders_proofs!TypeCorrect`, `AnswersTellFailures`, `GuardsHoldUnlessIntrospection` | those of `graphql` for any requests, resolvers and operations; the last says nothing of `@Authorized` in a request whose text starts with `query Introspection` |
| `RestRequests_proofs!TypeCorrect`, `RefusalsSafe`, `AdminsOnly`, `ExpireComplete` | those of `rest` for any requests, inputs, tokens and cache keys |
| `SequenceNumbers_proofs!TypeCorrect`, `NumbersGoOnce`, `RejectionsHaveReasons` | the safety of `sequences` for any callers, sequences, operations, attempts and disturbances |
| `SequenceNumbers_proofs!ImplementsDispenser` | `SequenceNumbers` implements `SequenceDispenser` |
| `OptionalProviders_proofs!LoadersTyped`, `LoadsCorrect` | the safety properties of `data_loaders` for any keys, loads, cache sizes and batches |
| `OptionalProviders_proofs!FullImplementsBootstrap`, `FullLifecycleInherited` | the process with all nine providers implements `Bootstrap`, so the theorems about `Bootstrap` hold of it |
| `OptionalProviders_proofs!FullTypeCorrect`, `OnlyKnownLeft` | the safety properties of `optional_providers` for any signals and number of outages |

Each follows the same argument: an inductive invariant holds initially, every action preserves it, it implies
the property. What has to be added to the properties to make them inductive:

- `Bootstrap`: `CursorMarksProgress` ties the sets of registered, booted and settled providers to the position
  of the loop, and `ShutdownState` ties the flag, the phase and the timer together. Without them a step could
  start from a cursor that has skipped a provider. `ClosesOnce` is an action property of the same invariant.
- `Server`: each lifecycle action is an action of `Bootstrap` by its first conjunct, and all others leave the
  lifecycle alone; that is the refinement. `HandlesFollow` then says where each handle is for every position
  of the loops, in one part per provider: `CacheFollows`, `HttpFollows`, `KafkaFollows`, `JobsFollow`, and
  `RequestsFollow` for the connections. A handle that work may use is open because the loop has not reached its
  provider, and the loop reaches it only after the work of the providers behind it is over. A queue is processed
  exactly while `JobsProvider` holds it, in `runningJobs` or as the one it is closing. That no job is
  remembered twice needs lemmas about appending to and popping from `runningJobs`.
- `ConfigCache`: `DataInv` says of the values that calls *hold* what the property says of cached ones: they
  were stored for their key, and the holder of a value that is about to go under a plain key holds the
  current one unless the key is `disturbed`. `disturbed` is a history variable, which no guard reads.
  `MultiKeysIndexed` also needs `DistinctKeys`: no list names a key twice.
- `KafkaConsumers`: per stream, `PositionsOrdered` (start, commit and position in this order), `AllFinished` (what
  lies before the position has been handled to the end) and `RepeatsPaid`: of the calls of `handle()` for a
  message, one is due to the order of the stream, if the position is past it or its owner has it in hand, and
  each other was paid for by a disturbance. `WorkCounted` says that whoever handles a message has been counted,
  and two at once twice; `ClosingStops` that a pod that closes has no consumer that reads.
- `JobQueues`: `UnderLock` (who handles a job holds its lock, unless the lock was overrun), `StallsPaid` (each
  stall, also one that is about to be found, takes a disturbance of its own), `AttemptsSpent`.
- `GraphqlRequests`: `StagesOrdered` (fields run only in an executing or ended request),
  `CredentialsConfirmed` (credentials come from a session that was there since the request arrived, the
  history variable `valid`), `RunningAuthorized` (a running field has passed its guards).
- `RestRequests`: what a request has done at each of its stages, and which entries an `expire` has yet to delete.
- `SequenceNumbers`: `HeldFollow` (the numbers that a transaction holds are those that follow the value of the
  document, which nobody else changes until it ends), `NumbersGone` (what resolved calls drew and what was lost
  partition the numbers up to the value), `OldKeysThere` (only a key that was new at the call can be inserted
  twice). A commit then hands over exactly the numbers by which it raises the value.
- `SequenceDispenser`: a call is waiting while it has its update or its callback before it, however often that runs;
  `Increment`, `WriteConflict` and a retry are stutters, the update alone and the commit are `Serve`, a rejection is
  `Fail`, with the loss if the answer is what failed. That a commit raises each value by as many numbers as
  the callback increments the key is a bijection between the places of the key in the operation and the numbers
  drawn (`CountDrawn`), since these are distinct and follow the value without a gap.
- `DataLoaders`: `PromiseKept` says of a promise that is referenced, settled or not, that its key stands at its place in its
  batch and that its item is no older than the promise. While the batch is under way `LoadsOwnFreshItem` says
  nothing of it; what `findByIds` answers, in any order and with any items missing, then falls into place by
  `ResultFacts` and `AnswerFacts`. `OnePromisePerKey`: a key has at most one promise in the cache.
- `FullKernel`: `MongoSound` says of the connection record when it has a client that nobody will close, and every
  event, listener and wait of `MongoConnection` preserves it by a lemma of its own; `HttpAndMongoFollow` and
  `ProvidersFollow` say where the handles are for each position of the loops. The leaks are then those that
  `overlapped`, `abandoned` and the absent `close()` methods explain.

The assumptions are the named `ASSUME`s of the modules, which TLC evaluates in the runs: at least one
provider; null is no value, lists are over the keys; errors, answers and users do not coincide; what stands for
"none" is no member, worker, queue or number; the loaders' keys are finitely many, and the bounds are numbers.

Only model-checked: all liveness, as it rests on fairness, which the prover does not handle (`EveryGroupServed`,
`EveryJobSettles`, `CallsSettle`, `EventuallyCoherent`, `CacheHeals`, `CloseLoopEnds`, `ShutdownEndsProcess`,
`EveryRequestAnswered`), and the two findings. Every safety property of a passing run has a theorem.

## What the code does otherwise than it says

Shown by a run:

- `second_signal`: `index.ts:44` says that a signal during a shutdown is ignored; each is registered with
  `process.once`, so the same signal a second time kills the process in the middle of the close loop.
- `job_handlers`: `src/README.md:185` says that patterns load every matching file in TS and compiled builds;
  `moduleLoader.ts:13` looks in `dist` only if `src` has no match, and the image has both.

Met while modelling, without a run of their own:

- `src/README.md:216` says that each queue "gets its own resilient Redis connection and shuts down cleanly through
  the provider". `Queueable.ts:31` passes `createClient` to Bull, whose `close()` disconnects only the clients that it
  has created itself, and nobody quits those of `createRedisClient` (96-115), which reconnect for ever. They stay open
  after an orderly shutdown; as the force-exit timer is cleared (`index.ts:66`) and nobody emits `process_closed`, a
  process that has constructed a queue, hence every worker with job classes, does not end by itself. `Server` models
  this: a queue is `"stopped"` and still among `OpenHandles`. `ShutdownStopsWork` says that nothing else is left,
  and `ShutdownEndsProcess` promises an exit only to processes that have constructed no queue.
- `JobsProvider.ts:67` constructs a queue before it tests `JOB_DEFINITIONS`, so a worker connects to Redis for queues
  that it skips; so does a process that is no worker for a queue that a controller injects.
- A request whose query text starts with `query Introspection` passes every `@Authorized` resolver, whatever it asks for
  and without a token (`authenticationMiddleware.ts:13`, `GraphqlProvider.ts:74`); `@HasRoles` still refuses it.
- `JobsProvider.ts:41` reads the registry once; a class that a controller imports later is not run.
- `ConfigService.ts:49-56`: in `getByMultiKeys` a key that is listed twice is filled at its last index only.
- `ConfigService.ts:67`: a document with a blank value puts `undefined` into the pipeline, which throws.
- `ConfigService.ts:124`: `expireConfigs` without a prefix deletes every key of the shared Redis, queues and
  sessions included.
- `src/README.md:186` says that the whitelist takes class names; `KafkaConsumerRunner.ts:35` compares the class
  only if the listener gives no name. `src/README.md:190` resolves `kafkaProducer` anywhere; `KafkaProvider.ts:25`
  creates it in consumer processes only, so elsewhere `/kafka-demo/produce` answers 500.
- `ErrorHandlerMiddleware.ts:22` (REST) reads `httpCode`, which body-parser's errors lack: malformed JSON is
  answered with 500. A guarded route without a token is answered with 403.
- `moduleLoader.ts:15` replaces the first `/src/` of the absolute path, wherever it is.
- `index.ts:51`: a `SHUTDOWN_GRACE_PERIOD_IN_MS` that is no number sets a timer of 1 ms.
- `decorators/Lowercase.ts:7` and `Sanitizer.ts:24` keep one value for all instances of a class.
- `S3Service.ts:43` reads `data.Location` after a rejection; `helper.ts:30` truncates seconds to 32 bits.
- Groups (`KafkaConsumerRunner.ts:45`): `KAFKA_CONSUMER_GROUP_ID` puts listeners of different topics into one
  group, where a partition may be assigned to a member that does not read its topic; `EveryGroupServed` leaves
  such listeners out.
- Lists: `.env.example` has `KAFKA_ENABLED_CONSUMERS=csm`, which disables the example consumer. `toArray` does not
  trim, so that `JOB_DEFINITIONS=a, b` skips `b`, while `SERVER_TYPE` loses its spaces. `isProduction` compares with
  `prod`, `getPath` with `production`.
- `RedisPubSub` (`GraphqlProvider.ts`) uses the shared cache client as its subscriber.

Of the providers that `Kernel.ts` disables; `OnlyKnownLeaks`, `CloseLoopEnds` and `KernelTypeOK` of `FullKernel` state what
holds all the same:

- `GraphqlProvider` and `SocketProvider` inject `httpServer`: in a process that is no producer they cannot be
  constructed, and `bootstrap` exits with 1.
- `HttpProvider` listens before the providers behind it have booted.
- `MongodbProvider.ts:31-59`: a failed attempt to connect emits `error`, whose handler disconnects, which emits
  `close`; `isClosed` is then set for good and the pending reconnection gives up. A shutdown that comes while the
  next attempt is under way waits for an `open` that may never come, until the force-exit timer fires.
- A `wait(2000)` that ends between `close()` and `close` connects again and leaves a client behind; a reconnection
  replaces a client that it does not close.
- `HttpProvider.close` closes the Mongo connection before the jobs that use it have ended.
- `TypeORMProvider` destroys its data source on an event that only the failing `bootstrap` emits
  (`index.ts:76-80`), `SocketProvider`'s duplicate of the Redis client is never closed, and open web sockets hold
  up `httpServer.close`.

## Plan

Done, in this order, most important first: `Bootstrap` with its proofs, `Server`, `ConfigCache` with its
proofs, `KafkaConsumers`, `JobQueues` with `HandlerLoading`, `GraphqlRequests` with its proofs, `DataLoaders`,
`SequenceNumbers`, `RestRequests`; then `Environment`, groups that several topics share, `MongoConnection` and
`FullKernel`; then `Server_proofs`, `RestRequests_proofs`, `JobQueues_proofs`, `KafkaConsumers_proofs`,
`SequenceNumbers_proofs`; then the proofs about `DataLoaders` and `FullKernel`, and `SequenceDispenser`.

Next, the proofs: abstract specifications that `KafkaConsumers` (a log that a group reads in order, at least once) and
`JobQueues` (a job with one outcome) implement, as `SequenceNumbers` does `SequenceDispenser`.

Next, the model: `ConfigCache` with the controllers of `RestRequests` as its callers, and `SequenceNumbers` over a
connection that `MongoConnection` describes.

## Not modelled

- Logging (`WinstonLogger`, `libs/logger`): formatting and output; no other part depends on it.
- Scalars, type converters, decorators for input, `helper.ts`: pure conversions by libraries, without state.
- S3, axios, Telegram, Lambda: single calls of a remote API; nothing is retried or remembered.
- `BaseRepository`, `BaseOrmRepository` and the models beyond `Config` and `Sequence`: each method is one call of
  mongoose or TypeORM.
- Of the environment: numbers, ports, paths, credentials. Of GraphQL: subscriptions, uploads, the schema. Of
  REST: `EnforcerMiddleware`, which no controller uses, and swagger. Of sockets: the handlers, which log and echo.
