--------------------------------- MODULE Server --------------------------------
(***************************************************************************)
(* A whole process: the lifecycle of Bootstrap with the five providers of  *)
(* Kernel.ts, the handles they open and close (the shared Redis client,    *)
(* the Kafka producer and consumers, the Bull queues, the HTTP server),    *)
(* and the work that runs on them: HTTP requests, Bull jobs and Kafka      *)
(* messages.                                                               *)
(*                                                                         *)
(* Every lifecycle step is a step of Bootstrap together with the effect on *)
(* the provider concerned, so this module refines Bootstrap!Spec.  A step  *)
(* is what runs between two awaits; Bull, kafkajs, ioredis and Node's HTTP *)
(* server are modelled by what their calls promise to this code.           *)
(***************************************************************************)
EXTENDS Naturals, Sequences, SequencesExt, Environment

CONSTANTS
    Signals,
    Environments,     \* the environments that the process may start in
    JobClasses,       \* the classes of getQueueWorkers(), in order of registration
    KafkaDefinitions, \* the definitions of getEnabledConsumers(), in order
    Injected,         \* the queues some REST controller has injected
    Conns             \* connections a client may open to the HTTP server

Queues == ToSet(JobClasses)
Consumers == ToSet(KafkaDefinitions)
NoJob == "no job"

ASSUME InjectedAssumption == Injected \subseteq Queues /\ NoJob \notin Queues

VARIABLES
    phase, cursor, registered, booted, settled, failed, listeners,
    shuttingDown, forceExitTimer, exit,    \* see Bootstrap
    \* what libs/env made of the environment
    types,          \* those of SERVER_TYPE that Kernel's providers ask for
    kafkaUsable,    \* KafkaProvider.register goes on
    jobDefinitions, \* the words of JOB_DEFINITIONS
    \* handles
    cache,          \* the ioredis client that Container holds as 'cache'
    producer,       \* 'kafkaProducer'
    consumer,       \* the consumers of KafkaConsumerRunner
    queue,          \* per job class, its Bull instance
    runningJobs,    \* JobsProvider.runningJobs
    closingJob,     \* the job that JobsProvider.close popped and awaits
    http,           \* httpServer
    \* work in progress
    conn,           \* per connection, what it carries
    busy,           \* queues with a job in processHandler
    handling        \* consumers with a message in handler.handle

bootstrapVars == <<phase, cursor, registered, booted, settled, failed,
                   listeners, shuttingDown, forceExitTimer, exit>>
config == <<types, kafkaUsable, jobDefinitions>>
kafkaVars == <<producer, consumer>>
jobsVars == <<queue, runningJobs, closingJob>>
handles == <<cache, kafkaVars, jobsVars, http>>
work == <<conn, busy, handling>>
vars == <<bootstrapVars, config, handles, work>>

\* A plausible bug: the cache listed last, hence closed first.
KernelCacheLast == <<"bootstrap", "kafka", "jobs", "http", "cache">>

\* Kernel.providers
Kernel == <<"bootstrap", "cache", "kafka", "jobs", "http">>

B == INSTANCE Bootstrap WITH NumProviders <- 5

\* A handle whose close() failed.
Stuck(state) == state = "stuck"

\* What a connection carries: nothing, or a request to one of the demo
\* controllers (or to a controller that reads configs through the cache).
DispatchTo(q) == <<"dispatch", q>>
Requests == {<<"config">>, <<"produce">>} \cup {DispatchTo(q) : q \in Injected}
Unused == <<"unused">>
Idle == <<"idle">>

Init ==
    /\ B!Init
    /\ \E raw \in Environments :
         /\ Starts(raw)
         /\ types = Allowed(raw)
         /\ kafkaUsable = KafkaUsable(raw)
         /\ jobDefinitions = JobDefinitions(raw)
    /\ cache = "none" /\ producer = "none" /\ http = "none"
    /\ consumer = [c \in Consumers |-> "none"]
    /\ queue = [q \in Queues |-> "none"]
    /\ runningJobs = <<>> /\ closingJob = NoJob
    /\ conn = [k \in Conns |-> Unused]
    /\ busy = {} /\ handling = {}

--------------------------------------------------------------------------------
(***************************************************************************)
(* register(): CacheProvider creates the Redis client, which connects at   *)
(* once, the Kafka provider its producer, the HTTP provider its server.    *)
(***************************************************************************)
RegisterCache(p) == cache' = IF p = "cache" THEN "open" ELSE cache

RegisterKafka(p) ==
    producer' = IF p = "kafka" /\ kafkaUsable THEN "created" ELSE producer

RegisterHttp(p) ==
    http' = IF p = "http" /\ "producer" \in types THEN "created" ELSE http

RegisterProvider ==
    /\ B!RegisterResolves
    /\ RegisterCache(Kernel[cursor])
    /\ RegisterKafka(Kernel[cursor])
    /\ RegisterHttp(Kernel[cursor])
    /\ UNCHANGED <<config, consumer, jobsVars, work>>

(***************************************************************************)
(* boot() of the Kafka provider: the producer connects, then the consumers *)
(* start one after the other, each processing messages from then on.       *)
(***************************************************************************)
BootingProvider(p) == phase = "booting" /\ Kernel[cursor] = p

ProducerConnects ==
    /\ BootingProvider("kafka")
    /\ producer = "created"
    /\ producer' = "connected"
    /\ UNCHANGED <<bootstrapVars, config, cache, consumer, jobsVars, http, work>>

NextDefinition(i) ==
    /\ consumer[KafkaDefinitions[i]] = "none"
    /\ \A j \in 1 .. i - 1 : consumer[KafkaDefinitions[j]] # "none"

RegisterConsumer ==
    /\ BootingProvider("kafka")
    /\ producer = "connected"
    /\ \E i \in DOMAIN KafkaDefinitions :
         /\ NextDefinition(i)
         /\ consumer' = [consumer EXCEPT ![KafkaDefinitions[i]] = "running"]
    /\ UNCHANGED <<bootstrapVars, config, cache, producer, jobsVars, http, work>>

KafkaBooted ==
    \/ producer = "none"
    \/ producer = "connected" /\ \A c \in Consumers : consumer[c] = "running"

\* The constructor of a queue has Bull connect to Redis, with the clients that
\* createClient makes; they reconnect for ever.
Constructed(qs) ==
    [q \in Queues |-> IF q \in qs /\ queue[q] = "none" THEN "connected" ELSE queue[q]]

(***************************************************************************)
(* boot() of the jobs provider, class by class.  Container.get(JobClass)   *)
(* constructs the queue; only one that JOB_DEFINITIONS does not exclude is *)
(* processed (registerProcess) and remembered.                             *)
(***************************************************************************)
RunsOnThisWorker(q) == jobDefinitions = {} \/ Word(q) \in jobDefinitions

Started(q) ==
    [queue EXCEPT ![q] = IF RunsOnThisWorker(q) THEN "processing" ELSE "connected"]

\* A plausible bug: only the job that was started last is remembered.
RememberedAlone(q) == IF RunsOnThisWorker(q) THEN <<q>> ELSE runningJobs

Remembered(q) == IF RunsOnThisWorker(q) THEN Append(runningJobs, q) ELSE runningJobs

NextJobClass(i) ==
    /\ queue[JobClasses[i]] = "none"
    /\ \A j \in 1 .. i - 1 : queue[JobClasses[j]] # "none"

StartJob ==
    /\ BootingProvider("jobs")
    /\ "worker" \in types
    /\ \E i \in DOMAIN JobClasses :
         /\ NextJobClass(i)
         /\ queue' = Started(JobClasses[i])
         /\ runningJobs' = Remembered(JobClasses[i])
    /\ UNCHANGED <<bootstrapVars, config, cache, kafkaVars, closingJob, http, work>>

JobsBooted == "worker" \in types => \A q \in Queues : queue[q] # "none"

\* listen() binds the port or not; a failure surfaces as an uncaught
\* exception, whose handler (index.ts:35) only logs it.
BootHttp ==
    IF "producer" \in types THEN http' \in {"listening", "down"}
                            ELSE UNCHANGED http

BootProvider ==
    LET p == Kernel[cursor] IN
    /\ B!BootResolves
    /\ p = "kafka" => KafkaBooted
    /\ p = "jobs" => JobsBooted
    /\ IF p = "http" THEN BootHttp ELSE UNCHANGED http
    /\ UNCHANGED <<config, cache, kafkaVars, jobsVars, work>>

\* A register() or boot() rejects; nothing that is open is closed.
BootstrapRejects == B!BootstrapRejects /\ UNCHANGED <<config, handles, work>>

--------------------------------------------------------------------------------
(***************************************************************************)
(* close().  CloseCalled(p) is what p's close() does before its first      *)
(* await: the HTTP server stops listening, the jobs provider pops its last *)
(* job and closes it, the consumers stop fetching and disconnect in        *)
(* parallel, the Redis client disconnects.                                 *)
(***************************************************************************)

\* A plausible bug: the job is looked at instead of popped.
PopJobPeeks ==
    IF runningJobs = <<>>
    THEN closingJob' = NoJob /\ UNCHANGED runningJobs
    ELSE closingJob' = Last(runningJobs) /\ UNCHANGED runningJobs

PopJob ==
    IF runningJobs = <<>>
    THEN closingJob' = NoJob /\ UNCHANGED runningJobs
    ELSE /\ closingJob' = Last(runningJobs)
         /\ runningJobs' = Front(runningJobs)

CloseCalled(p) ==
    /\ http' = IF p = "http" /\ http = "listening" THEN "closing" ELSE http
    /\ IF p = "jobs" THEN PopJob ELSE UNCHANGED <<runningJobs, closingJob>>
    /\ consumer' = [c \in Consumers |->
                      IF p = "kafka" /\ consumer[c] = "running" THEN "stopping"
                      ELSE consumer[c]]
    /\ cache' = IF p = "cache" THEN "closed" ELSE cache
    /\ UNCHANGED <<producer, queue>>

\* A plausible bug: the callback of httpServer.close is not awaited.
ConnectionsEndedUnawaited == TRUE

\* httpServer.close calls back when every connection has ended; the Mongo
\* connection, which no enabled provider opens, then closes at once.
ConnectionsEnded == \A k \in Conns : conn[k] = Unused

HttpServerCloses ==
    /\ B!Alive
    /\ http = "closing"
    /\ ConnectionsEnded
    /\ http' = "closed"
    /\ UNCHANGED <<bootstrapVars, config, cache, kafkaVars, jobsVars, work>>

\* A plausible bug: a queue whose close failed is put back to be tried again.
JobClosesRetrying(resolved) ==
    /\ B!Alive
    /\ closingJob # NoJob
    /\ resolved => closingJob \notin busy
    /\ IF resolved
       THEN PopJob /\ queue' = [queue EXCEPT ![closingJob] = "stopped"]
       ELSE /\ closingJob' = Last(<<closingJob>> \o runningJobs)
            /\ runningJobs' = Front(<<closingJob>> \o runningJobs)
            /\ UNCHANGED queue
    /\ UNCHANGED <<bootstrapVars, config, cache, kafkaVars, http, work>>

\* Bull's close() of the popped queue waits for its active job, or rejects;
\* the rejection is logged and the next job is popped.  Bull disconnects only
\* clients that it has created itself: those of createClient stay connected.
JobCloses(resolved) ==
    /\ B!Alive
    /\ closingJob # NoJob
    /\ resolved => closingJob \notin busy
    /\ queue' = [queue EXCEPT ![closingJob] = IF resolved THEN "stopped" ELSE "stuck"]
    /\ PopJob
    /\ UNCHANGED <<bootstrapVars, config, cache, kafkaVars, http, work>>

\* kafkajs' disconnect() of one consumer waits for its message, or rejects;
\* the rejection is logged.
ConsumerDisconnects(c, resolved) ==
    /\ B!Alive
    /\ consumer[c] = "stopping"
    /\ resolved => c \notin handling
    /\ consumer' = [consumer EXCEPT ![c] = IF resolved THEN "stopped" ELSE "stuck"]
    /\ UNCHANGED <<bootstrapVars, config, cache, producer, jobsVars, http, work>>

\* A plausible bug: the disconnects are started but not awaited.
RunnerShutUnawaited == TRUE

\* The Promise.all of KafkaConsumerRunner.shutdown has resolved.
RunnerShut == \A c \in Consumers : consumer[c] # "stopping"

ProducerDisconnects(resolved) ==
    /\ phase = "closing" /\ Kernel[cursor] = "kafka"
    /\ producer = "connected"
    /\ RunnerShut
    /\ producer' = IF resolved THEN "closed" ELSE "stuck"
    /\ UNCHANGED <<bootstrapVars, config, cache, consumer, jobsVars, http, work>>

\* The promise of p's close() has settled this way.
CloseSettled(p, resolved) ==
    CASE p = "http"  -> resolved /\ http # "closing"
      [] p = "jobs"  -> resolved /\ closingJob = NoJob
      [] p = "kafka" -> IF resolved THEN producer \in {"none", "closed"}
                                    ELSE producer = "stuck"
      [] OTHER       -> resolved

CloseProvider ==
    /\ \E resolved \in BOOLEAN :
         /\ phase = "closing"
         /\ CloseSettled(Kernel[cursor], resolved)
         /\ B!CloseSettles(resolved)
    /\ CloseCalled(IF cursor > 1 THEN Kernel[cursor - 1] ELSE "nothing")
    /\ UNCHANGED <<config, work>>

Signal(s) ==
    /\ B!Signal(s)
    /\ IF B!HandleCloseStarts(s) THEN CloseCalled(Kernel[cursor'])
                                 ELSE UNCHANGED handles
    /\ UNCHANGED <<config, work>>

ForceExit == B!ForceExit /\ UNCHANGED <<config, handles, work>>

(***************************************************************************)
(* What keeps the event loop alive: the handles that are open, among them  *)
(* the Redis clients of every queue that was constructed, as nobody quits  *)
(* what createRedisClient made.  A handle whose close failed may or may    *)
(* not do so.                                                              *)
(***************************************************************************)
OpenHandles ==
    {q \in Queues : queue[q] # "none"}
    \cup {c \in Consumers : consumer[c] \in {"running", "stopping"}}
    \cup (IF cache = "open" THEN {"cache"} ELSE {})
    \cup (IF producer = "connected" THEN {"producer"} ELSE {})
    \cup (IF http \in {"listening", "closing"} THEN {"http"} ELSE {})

StuckHandles ==
    {c \in Consumers : Stuck(consumer[c])}
    \cup (IF Stuck(producer) THEN {"producer"} ELSE {})

EventLoopEmpty ==
    /\ phase = "closed"
    /\ OpenHandles = {}
    /\ B!EventLoopEmpty
    /\ UNCHANGED <<config, handles, work>>

--------------------------------------------------------------------------------
(***************************************************************************)
(* The work.  Connections are accepted while the server listens; one that  *)
(* is kept alive can carry further requests after that.                    *)
(***************************************************************************)
Connect(k) ==
    /\ B!Alive /\ http = "listening"
    /\ conn[k] = Unused
    /\ conn' = [conn EXCEPT ![k] = Idle]
    /\ UNCHANGED <<bootstrapVars, config, handles, busy, handling>>

\* The first dispatch constructs the injected queue.  A 'produce' without a
\* registered 'kafkaProducer' fails at once.
Request(k, r) ==
    /\ B!Alive
    /\ conn[k] = Idle
    /\ r = <<"produce">> => producer # "none"
    /\ conn' = [conn EXCEPT ![k] = r]
    /\ queue' = Constructed({q \in Queues : r = DispatchTo(q)})
    /\ UNCHANGED <<bootstrapVars, config, cache, kafkaVars, runningJobs,
                   closingJob, http, busy, handling>>

Respond(k) ==
    /\ B!Alive
    /\ conn[k] \in Requests
    /\ conn' = [conn EXCEPT ![k] = Idle]
    /\ UNCHANGED <<bootstrapVars, config, handles, busy, handling>>

Disconnect(k) ==
    /\ B!Alive
    /\ conn[k] = Idle
    /\ conn' = [conn EXCEPT ![k] = Unused]
    /\ UNCHANGED <<bootstrapVars, config, handles, busy, handling>>

\* A queue that is processed takes one job at a time, and none from the call of
\* its close() on, whether or not that fails.
JobStarts(q) ==
    /\ B!Alive
    /\ queue[q] = "processing" /\ q # closingJob
    /\ q \notin busy
    /\ busy' = busy \cup {q}
    /\ UNCHANGED <<bootstrapVars, config, handles, conn, handling>>

JobEnds(q) ==
    /\ B!Alive
    /\ q \in busy
    /\ busy' = busy \ {q}
    /\ UNCHANGED <<bootstrapVars, config, handles, conn, handling>>

MessageArrives(c) ==
    /\ B!Alive
    /\ consumer[c] = "running" /\ c \notin handling
    /\ handling' = handling \cup {c}
    /\ UNCHANGED <<bootstrapVars, config, handles, conn, busy>>

\* eachMessage resolves whether the handler returned or threw.
MessageHandled(c) ==
    /\ B!Alive
    /\ c \in handling
    /\ handling' = handling \ {c}
    /\ UNCHANGED <<bootstrapVars, config, handles, conn, busy>>

Lifecycle ==
    \/ RegisterProvider \/ ProducerConnects \/ RegisterConsumer \/ StartJob
    \/ BootProvider \/ BootstrapRejects
    \/ \E s \in Signals : Signal(s)
    \/ HttpServerCloses
    \/ \E resolved \in BOOLEAN : JobCloses(resolved) \/ ProducerDisconnects(resolved)
    \/ \E c \in Consumers, resolved \in BOOLEAN : ConsumerDisconnects(c, resolved)
    \/ CloseProvider \/ ForceExit \/ EventLoopEmpty

Work ==
    \/ \E k \in Conns : \/ Connect(k) \/ Respond(k) \/ Disconnect(k)
                        \/ \E r \in Requests : Request(k, r)
    \/ \E q \in Queues : JobStarts(q) \/ JobEnds(q)
    \/ \E c \in Consumers : MessageArrives(c) \/ MessageHandled(c)

Next == Lifecycle \/ Work

Spec == Init /\ [][Next]_vars

(***************************************************************************)
(* No force-exit timer to help, but the work in progress ends, clients     *)
(* leave, and the libraries answer.  Node ends a process whose event loop  *)
(* is empty; a handle whose close failed may keep it alive for ever.       *)
(***************************************************************************)
WorkEndsSpec ==
    /\ Spec
    /\ \A k \in Conns : WF_vars(Respond(k)) /\ SF_vars(Disconnect(k))
    /\ \A q \in Queues : WF_vars(JobEnds(q))
    /\ \A c \in Consumers : /\ WF_vars(MessageHandled(c))
                            /\ WF_vars(\E ok \in BOOLEAN : ConsumerDisconnects(c, ok))
    /\ WF_vars(HttpServerCloses)
    /\ WF_vars(\E ok \in BOOLEAN : JobCloses(ok))
    /\ WF_vars(\E ok \in BOOLEAN : ProducerDisconnects(ok))
    /\ WF_vars(CloseProvider)
    /\ WF_vars(StuckHandles = {} /\ EventLoopEmpty)

--------------------------------------------------------------------------------
TypeOK ==
    /\ B!TypeOK
    /\ types \subseteq {"producer", "worker", "consumer"}
    /\ kafkaUsable \in BOOLEAN /\ (kafkaUsable => "consumer" \in types)
    /\ Word("") \notin jobDefinitions
    /\ cache \in {"none", "open", "closed"}
    /\ producer \in {"none", "created", "connected", "closed", "stuck"}
    /\ consumer \in [Consumers -> {"none", "running", "stopping", "stopped", "stuck"}]
    /\ queue \in [Queues -> {"none", "connected", "processing", "stopped", "stuck"}]
    /\ runningJobs \in Seq(Queues) /\ IsInjective(runningJobs)
    /\ closingJob \in (Queues \ ToSet(runningJobs)) \cup {NoJob}
    /\ http \in {"none", "created", "listening", "down", "closing", "closed"}
    /\ conn \in [Conns -> Requests \cup {Unused, Idle}]
    /\ busy \subseteq Queues /\ handling \subseteq Consumers

\* Nothing is closed under work that may use it, as long as no close() of the
\* libraries fails: a request in flight finds its queue, the Kafka producer
\* and the cache, a job and a message find the cache and the producer.  This
\* is what the order of Kernel.providers and the awaits of each close() are
\* for.
WorkFindsItsHandles ==
    LET jobs == {q \in busy : ~Stuck(queue[q])}
        messages == {c \in handling : ~Stuck(consumer[c])}
        requests == {k \in Conns : conn[k] \in Requests}
    IN  B!Alive =>
          /\ jobs \cup messages \cup requests # {} => cache = "open"
          /\ \A k \in requests : \A q \in Queues :
               conn[k] = DispatchTo(q) => queue[q] \in {"connected", "processing"}
          /\ (\E k \in requests : conn[k] = <<"produce">>) \/ jobs \cup messages # {}
               => producer \in {"none", "created", "connected"}

\* When the shutdown is over and the timer is cleared, nothing goes on behind its
\* back: every queue that was started takes no more jobs, no job, message or
\* connection is in progress unless the close() of its queue or consumer has
\* failed, and all that is left open are the Redis clients of queues.
ShutdownStopsWork ==
    phase = "closed" =>
      /\ \A q \in Queues : queue[q] # "processing"
      /\ \A q \in busy : Stuck(queue[q])
      /\ \A c \in handling : Stuck(consumer[c])
      /\ \A k \in Conns : conn[k] = Unused
      /\ OpenHandles \subseteq Queues

\* When the work in progress ends, the close loop needs no force-exit timer: a
\* close() that fails holds up neither its provider's loop nor the providers
\* before it.  The process then ends, although nothing calls process.exit(0),
\* if it has constructed no queue and no close() of kafkajs failed.  One that
\* has constructed a queue does not: src/README.md:216 has each queue shut down
\* cleanly, but its Redis clients stay connected.
ShutdownEndsProcess ==
    phase = "closing" ~> \/ phase = "exited"
                         \/ /\ phase = "closed"
                            /\ (OpenHandles \cap Queues) \cup StuckHandles # {}
================================================================================
