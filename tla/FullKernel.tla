------------------------------- MODULE FullKernel ------------------------------
(***************************************************************************)
(* The process with the providers that Kernel.ts keeps commented out:      *)
(* TypeORM, GraphQL, MongoDB and sockets, in the places where it lists     *)
(* them.  None of them has a close(): HttpProvider.close closes the Mongo  *)
(* connection, and the handles of the others are left to themselves.       *)
(*                                                                         *)
(* The lifecycle is that of Bootstrap.  The Kafka producer and the queues  *)
(* are in Server; here the close() of their providers just resolves.       *)
(***************************************************************************)
EXTENDS MongoConnection, Sequences

CONSTANTS
    Signals,
    MaxOutages   \* bound: how often the Mongo server goes away

ASSUME MaxOutagesAssumption == MaxOutages \in Nat

VARIABLES
    phase, cursor, registered, booted, settled, failed, listeners,
    shuttingDown, forceExitTimer, exit,    \* see Bootstrap
    producerServer, \* ServerType.allowProducerServer()
    reachable,      \* the Mongo server answers
    outages,        \* how often it went away
    mongo,          \* mongoose.connection
    dataSource,     \* of TypeORM
    cache,          \* the shared Redis client
    subClient,      \* the duplicate of it that the socket adapter subscribes with
    httpServer,     \* and, once it is closed, the close() of the Mongo connection
    request         \* a connection keeps the HTTP server from closing

bootstrapVars == <<phase, cursor, registered, booted, settled, failed,
                   listeners, shuttingDown, forceExitTimer, exit>>
mongoVars == <<reachable, outages, mongo>>
handles == <<dataSource, cache, subClient, httpServer>>
kernelVars == <<bootstrapVars, producerServer, mongoVars, handles, request>>

\* Kernel.providers with its comments removed.
Kernel == <<"bootstrap", "cache", "kafka", "jobs", "typeorm", "http",
            "graphql", "mongodb", "socket">>

B == INSTANCE Bootstrap WITH NumProviders <- 9

KernelInit ==
    /\ B!Init
    /\ producerServer \in BOOLEAN
    /\ reachable \in BOOLEAN /\ outages = 0
    /\ mongo = NotConnected
    /\ dataSource = "none" /\ cache = "none" /\ subClient = "none"
    /\ httpServer = "none"
    /\ request = FALSE

--------------------------------------------------------------------------------
(***************************************************************************)
(* register() and boot()                                                   *)
(***************************************************************************)

\* A plausible bug: providers that can do without the HTTP server.
WithoutHttpServer(p) == TRUE

\* Container.get(provider) injects 'httpServer', which only a producer sets.
Constructible(p) == p \in {"graphql", "socket"} => httpServer # "none"

RegisterProvider ==
    LET p == Kernel[cursor] IN
    /\ B!RegisterResolves
    /\ Constructible(p)
    /\ cache' = IF p = "cache" THEN "open" ELSE cache
    /\ dataSource' = IF p = "typeorm" THEN "created" ELSE dataSource
    /\ httpServer' = IF p = "http" /\ producerServer THEN "created" ELSE httpServer
    /\ UNCHANGED <<producerServer, mongoVars, subClient, request>>

\* MongodbProvider.boot installs the listeners and tries to connect.
MongoBoots ==
    /\ phase = "booting" /\ Kernel[cursor] = "mongodb"
    /\ mongo = NotConnected
    /\ mongo' = TryConnect(mongo)
    /\ UNCHANGED <<bootstrapVars, producerServer, reachable, outages, handles, request>>

\* The HTTP server listens before the providers behind it have booted.
BootProvider ==
    LET p == Kernel[cursor] IN
    /\ B!BootResolves
    /\ p = "mongodb" => mongo.client = "open"
    /\ dataSource' = IF p = "typeorm" THEN "open" ELSE dataSource
    /\ httpServer' = IF p = "http" /\ producerServer THEN "listening" ELSE httpServer
    /\ subClient' = IF p = "socket" THEN "open" ELSE subClient
    /\ UNCHANGED <<producerServer, mongoVars, cache, request>>

\* A provider cannot be constructed, a database cannot be reached, ...
BootstrapRejects ==
    B!BootstrapRejects /\ UNCHANGED <<producerServer, mongoVars, handles, request>>

--------------------------------------------------------------------------------
(***************************************************************************)
(* The Mongo connection while the process lives.  A reconnection that      *)
(* rejects ends in an uncaught exception, which index.ts only logs.        *)
(***************************************************************************)
Mongo(next) ==
    /\ B!Alive
    /\ mongo' = next
    /\ UNCHANGED <<bootstrapVars, producerServer, handles, request>>

Outage ==
    /\ reachable /\ outages < MaxOutages
    /\ reachable' = FALSE /\ outages' = outages + 1
    /\ Mongo(IF mongo.readyState = "connected" THEN Disconnected(mongo) ELSE mongo)

Returns ==
    /\ ~reachable
    /\ reachable' = TRUE
    /\ Mongo(mongo) /\ UNCHANGED outages

\* A client that was open before notices; for a replica set 'open' is emitted.
DriverReconnects ==
    /\ reachable
    /\ mongo.readyState = "disconnected" /\ (mongo.client = "open" \/ mongo.abandoned)
    /\ LET m == [mongo EXCEPT !.readyState = "connected"]
       IN  Mongo(m) \/ Mongo(Opened(m))
    /\ UNCHANGED <<reachable, outages>>

ConnectResolves ==
    /\ reachable
    /\ mongo.client = "connecting"
    /\ Mongo(Connected(mongo)) /\ UNCHANGED <<reachable, outages>>

ConnectRejects ==
    /\ ~reachable
    /\ mongo.client = "connecting"
    /\ Mongo(ConnectFailed(mongo)) /\ UNCHANGED <<reachable, outages>>

WaitEnds ==
    /\ mongo.waits > 0
    /\ Mongo(WaitOver(mongo)) /\ UNCHANGED <<reachable, outages>>

--------------------------------------------------------------------------------
(***************************************************************************)
(* Shutdown                                                                *)
(***************************************************************************)

\* What p's close() does before it waits.
CloseCalled(p) ==
    /\ httpServer' = IF p = "http" /\ httpServer = "listening" THEN "closing"
                     ELSE httpServer
    /\ cache' = IF p = "cache" THEN "closed" ELSE cache
    /\ UNCHANGED <<dataSource, subClient>>

\* A plausible bug: close() is taken to be over at 'disconnected', which does not
\* come if the connection was disconnected before.
DisconnectedAwaited(m) ==
    IF m.readyState = "disconnected" THEN "closing"
    ELSE IF m.readyState = "connecting" THEN "awaits open" ELSE "awaits close"

\* When the callback of mongoose.connection.close comes: now, after 'open', or
\* when the client has closed.
MongoAwaited(m) ==
    IF ReturnsAtOnce(m) THEN "closed"
    ELSE IF m.readyState = "connecting" THEN "awaits open" ELSE "awaits close"

\* httpServer.close calls back when no request is left.
HttpServerCloses ==
    /\ B!Alive
    /\ httpServer = "closing" /\ ~request
    /\ httpServer' = MongoAwaited(mongo)
    /\ mongo' = Close(mongo)
    /\ UNCHANGED <<bootstrapVars, producerServer, reachable, outages, dataSource,
                   cache, subClient, request>>

\* The client's close() calls back.  A close() that 'open' has carried out
\* waits for this, too.
MongoCloses ==
    /\ B!Alive
    /\ mongo.closing
    /\ mongo' = Closed(mongo)
    /\ httpServer' = CASE httpServer = "awaits close" -> "closed"
                       [] httpServer = "awaits open" /\ ~mongo.closeOnOpen -> "closed"
                       [] OTHER -> httpServer
    /\ UNCHANGED <<bootstrapVars, producerServer, reachable, outages, dataSource,
                   cache, subClient, request>>

CloseProvider ==
    /\ B!CloseSettles(TRUE)
    /\ Kernel[cursor] = "http" => httpServer = "closed"
    /\ CloseCalled(IF cursor > 1 THEN Kernel[cursor - 1] ELSE "nothing")
    /\ UNCHANGED <<producerServer, mongoVars, request>>

Signal(s) ==
    /\ B!Signal(s)
    /\ UNCHANGED <<producerServer, mongoVars, handles, request>>

ForceExit ==
    B!ForceExit /\ UNCHANGED <<producerServer, mongoVars, handles, request>>

\* A request, or a client that holds a web socket open.
RequestArrives ==
    /\ B!Alive
    /\ httpServer = "listening" /\ ~request
    /\ request' = TRUE
    /\ UNCHANGED <<bootstrapVars, producerServer, mongoVars, handles>>

RequestAnswered ==
    /\ B!Alive
    /\ request
    /\ request' = FALSE
    /\ UNCHANGED <<bootstrapVars, producerServer, mongoVars, handles>>

KernelNext ==
    \/ RegisterProvider \/ MongoBoots \/ BootProvider \/ BootstrapRejects
    \/ Outage \/ Returns \/ DriverReconnects
    \/ ConnectResolves \/ ConnectRejects \/ WaitEnds
    \/ HttpServerCloses \/ MongoCloses \/ CloseProvider
    \/ \E s \in Signals : Signal(s)
    \/ ForceExit \/ RequestArrives \/ RequestAnswered

KernelSpec == KernelInit /\ [][KernelNext]_kernelVars

(***************************************************************************)
(* The server comes back, attempts to connect end, timers elapse, requests *)
(* are answered and web sockets closed.  No force-exit timer is needed.    *)
(***************************************************************************)
KernelFairSpec ==
    /\ KernelSpec
    /\ WF_kernelVars(Returns) /\ WF_kernelVars(ConnectResolves) /\ WF_kernelVars(WaitEnds)
    /\ WF_kernelVars(HttpServerCloses) /\ WF_kernelVars(MongoCloses) /\ WF_kernelVars(CloseProvider)
    /\ WF_kernelVars(RequestAnswered)

--------------------------------------------------------------------------------
OpenHandles ==
    (IF dataSource = "open" THEN {"dataSource"} ELSE {})
    \cup (IF subClient = "open" THEN {"subClient"} ELSE {})
    \cup (IF cache = "open" THEN {"cache"} ELSE {})
    \cup (IF httpServer \in {"listening", "closing"} THEN {"httpServer"} ELSE {})
    \cup (IF mongo.client \in {"connecting", "open"} THEN {"mongo"} ELSE {})
    \cup (IF mongo.abandoned THEN {"abandoned client"} ELSE {})

\* A process without an HTTP server does not come up, a process that runs has
\* had its Mongo connection, and once the close loop is past the HTTP provider
\* no request is left.
KernelTypeOK ==
    /\ B!TypeOK
    /\ producerServer \in BOOLEAN /\ reachable \in BOOLEAN /\ request \in BOOLEAN
    /\ outages \in 0 .. MaxOutages
    /\ mongo \in Connection
    /\ dataSource \in {"none", "created", "open"}
    /\ cache \in {"none", "open", "closed"} /\ subClient \in {"none", "open"}
    /\ httpServer \in {"none", "created", "listening", "closing", "awaits open",
                       "awaits close", "closed"}
    /\ phase \in {"running", "closing", "closed"} => producerServer /\ mongo.client # "none"
    /\ httpServer \in {"awaits open", "awaits close", "closed"} => ~request

\* Whatever the Mongo connection was doing when HttpProvider.close closed it, no
\* client is open or on its way after the shutdown, except one that a
\* reconnection abandoned, and one whose wait(2000) ended in the moment between
\* close() and 'close', when isClosed is not set yet.  Otherwise only what
\* nothing closes is left: TypeORM's data source and the adapter's duplicate of
\* the Redis client.
OnlyKnownLeaks ==
    phase = "closed" =>
      /\ OpenHandles \subseteq {"dataSource", "subClient", "mongo", "abandoned client"}
      /\ "mongo" \in OpenHandles => mongo.overlapped
      /\ mongo.abandoned => outages > 0
      /\ mongo.isClosed \/ mongo.closing

\* The close loop waits for the Mongo connection without the help of the
\* force-exit timer, even when it is in the middle of a reconnection, unless
\* an attempt to connect has failed: then the close() that was put off until
\* 'open' may never be carried out.
CloseLoopEnds ==
    phase = "closing" ~> phase # "closing" \/ mongo.failed
================================================================================
