----------------------------- MODULE Server_proofs -----------------------------
(***************************************************************************)
(* What holds of a process for any job classes, Kafka definitions, injected *)
(* queues, connections, signals and environments.                          *)
(*                                                                         *)
(* Every step of Server is a step of Bootstrap or leaves its variables     *)
(* alone, so what Bootstrap_proofs shows of the lifecycle is inherited,    *)
(* with its inductive invariant.  On top of that, each provider's handles  *)
(* and the work on them are tied to the place of the cursor: IndInv has    *)
(* one part per provider.                                                  *)
(***************************************************************************)
EXTENDS Server, SequenceTheorems, TLAPS

BP == INSTANCE Bootstrap_proofs WITH NumProviders <- 5

\* The close() of the i-th provider has been called, and it has settled.
Closing(i) == phase = "closed" \/ (phase = "closing" /\ cursor <= i)
PastClose(i) == phase = "closed" \/ (phase = "closing" /\ cursor < i)

\* The cache client lives from CacheProvider.register to its close.
CacheFollows ==
    /\ Closing(2) => cache = "closed"
    /\ phase \in {"booting", "running"} => cache = "open"
    /\ phase \in {"registering", "closing"} /\ cursor > 2 => cache = "open"

\* The server listens while the process runs and drains during its close();
\* there are connections only then.
HttpFollows ==
    /\ http = "listening" => phase = "running"
    /\ http = "closing" => phase = "closing" /\ cursor = 5
    /\ \A k \in Conns : conn[k] # Unused => http \in {"listening", "closing"}

\* Consumers run under a connected producer, which goes after them.
KafkaFollows ==
    /\ phase = "registering" => producer \in {"none", "created"}
    /\ producer \in {"closed", "stuck"} => Closing(3)
    /\ PastClose(3) => producer # "connected"
    /\ \A c \in Consumers :
         /\ consumer[c] # "none" => producer \in {"connected", "closed", "stuck"}
         /\ consumer[c] = "running" => ~Closing(3)
         /\ consumer[c] = "stopping" => Closing(3) /\ producer = "connected"
         /\ c \in handling => consumer[c] \in {"running", "stopping", "stuck"}

\* The queues that JobsProvider has remembered and not closed yet.
Held == ToSet(runningJobs) \cup ({closingJob} \ {NoJob})

\* The held queues are those that are processed: a queue that this worker runs
\* is held until its close() settles, and the last one settles before the
\* provider's does.  Jobs run on them, or outlive a close() that failed.
JobsFollow ==
    /\ closingJob # NoJob => phase = "closing" /\ cursor = 4
    /\ Closing(4) /\ closingJob = NoJob => runningJobs = <<>>
    /\ \A q \in Queues :
         /\ queue[q] = "processing" <=> q \in Held
         /\ q \in busy => queue[q] \in {"processing", "stuck"}
         /\ queue[q] # "none" => phase # "registering"
         /\ queue[q] \in {"stopped", "stuck"} => Closing(4)

\* A request holds the queue it dispatches to.
RequestsFollow ==
    \A k \in Conns, q \in Queues :
      conn[k] = DispatchTo(q) => queue[q] \in {"connected", "processing"}

HandlesFollow ==
    B!Alive => CacheFollows /\ HttpFollows /\ KafkaFollows /\ JobsFollow /\ RequestsFollow

IndInv == BP!IndInv /\ TypeOK /\ HandlesFollow

--------------------------------------------------------------------------------
\* Taking the last element of a list without repetitions (PopJob).
LEMMA PopFacts ==
  ASSUME NEW S, NEW s \in Seq(S), s # <<>>, IsInjective(s)
  PROVE  /\ Front(s) \in Seq(S) /\ IsInjective(Front(s))
         /\ Last(s) \in S \ ToSet(Front(s))
         /\ ToSet(s) = ToSet(Front(s)) \cup {Last(s)}
<1> DEFINE n == Len(s)
           t == SubSeq(s, 1, n - 1)
<1>1. n \in Nat \ {0} /\ DOMAIN s = 1 .. n /\ \A i \in 1 .. n : s[i] \in S
  BY EmptySeq, LenProperties, ElementOfSeq
<1>2. t \in Seq(S) /\ Len(t) = n - 1 /\ \A i \in 1 .. n - 1 : t[i] = s[i]
  <2>1. 1 \in Int /\ n - 1 \in Int /\ \A i \in 1 .. n - 1 : s[i] \in S
    BY <1>1
  <2>2. /\ t \in Seq(S)
        /\ Len(t) = IF 1 <= n - 1 THEN n - 1 - 1 + 1 ELSE 0
        /\ \A i \in 1 .. n - 1 - 1 + 1 : t[i] = s[1 + i - 1]
    BY <2>1, SubSeqProperties
  <2> QED BY <1>1, <2>2
<1>3. DOMAIN t = 1 .. n - 1
  BY <1>2, LenProperties
<1> HIDE DEF n, t
<1>4. IsInjective(t)
  BY <1>1, <1>2, <1>3 DEF IsInjective
<1>5. s[n] \in S \ {t[i] : i \in 1 .. n - 1}
  BY <1>1, <1>2 DEF IsInjective
<1>6. {s[i] : i \in 1 .. n} = {t[i] : i \in 1 .. n - 1} \cup {s[n]}
  <2>1. \A i \in 1 .. n : i = n \/ (i \in 1 .. n - 1 /\ t[i] = s[i])
    BY <1>1, <1>2
  <2>2. \A i \in 1 .. n - 1 : i \in 1 .. n /\ t[i] = s[i]
    BY <1>1, <1>2
  <2> QED BY <1>1, <2>1, <2>2
<1> QED
  BY <1>1, <1>2, <1>3, <1>4, <1>5, <1>6 DEF Front, Last, ToSet, n, t

\* Appending a new element to a list without repetitions (StartJob).
LEMMA PushFacts ==
  ASSUME NEW S, NEW s \in Seq(S), IsInjective(s), NEW e \in S \ ToSet(s)
  PROVE  /\ Append(s, e) \in Seq(S) /\ IsInjective(Append(s, e))
         /\ ToSet(Append(s, e)) = ToSet(s) \cup {e}
<1> DEFINE n == Len(s)
           t == Append(s, e)
<1>1. n \in Nat /\ DOMAIN s = 1 .. n
  BY LenProperties
<1>2. /\ t \in Seq(S) /\ Len(t) = n + 1
      /\ \A i \in 1 .. n : t[i] = s[i]
      /\ t[n + 1] = e
  BY AppendProperties
<1>3. DOMAIN t = 1 .. n + 1
  BY <1>2, LenProperties
<1>4. \A i \in 1 .. n : s[i] # e
  BY <1>1 DEF ToSet
<1> HIDE DEF n, t
<1>5. IsInjective(t)
  BY <1>1, <1>2, <1>3, <1>4 DEF IsInjective
<1>6. {t[i] : i \in 1 .. n + 1} = {s[i] : i \in 1 .. n} \cup {e}
  <2>1. \A i \in 1 .. n + 1 : i = n + 1 \/ i \in 1 .. n
    BY <1>1
  <2>2. n + 1 \in 1 .. n + 1 /\ \A i \in 1 .. n : i \in 1 .. n + 1
    BY <1>1
  <2> QED BY <1>2, <2>1, <2>2
<1> QED
  BY <1>1, <1>2, <1>3, <1>5, <1>6 DEF ToSet, t

\* Which provider stands where in Kernel.providers.
LEMMA KernelOrder ==
  \A i \in 1 .. 5 : /\ Kernel[i] = "cache" <=> i = 2
                    /\ Kernel[i] = "kafka" <=> i = 3
                    /\ Kernel[i] = "jobs" <=> i = 4
                    /\ Kernel[i] = "http" <=> i = 5
                    /\ Kernel[i] # "nothing"
  BY DEF Kernel

\* What the parts below need of the lifecycle.
LEMMA CursorInList ==
  ASSUME BP!IndInv
  PROVE  /\ phase \in {"registering", "booting", "running", "closing", "closed", "exited"}
         /\ cursor \in 0 .. 5
         /\ phase \in {"registering", "booting", "closing"} => cursor \in 1 .. 5
         /\ phase = "running" => ~shuttingDown
         /\ phase = "closing" => shuttingDown
  BY DEF BP!IndInv, BP!TypeOK, BP!CursorMarksProgress, BP!ShutdownState, BP!Alive

\* Every step is a step of Bootstrap or leaves its variables alone.
LEMMA StepOfBootstrap == [Next]_vars => [BP!Next]_(BP!vars)
<1> SUFFICES ASSUME [Next]_vars
             PROVE  BP!Next \/ UNCHANGED bootstrapVars
  BY DEF BP!vars, bootstrapVars
<1>1. CASE RegisterProvider
  BY <1>1 DEF RegisterProvider, B!RegisterResolves, B!LoopAtLast, B!shutdownVars,
              BP!Next, BP!RegisterResolves, BP!LoopAtLast, BP!shutdownVars
<1>2. CASE BootProvider
  BY <1>2 DEF BootProvider, B!BootResolves, B!LoopAtLast, B!shutdownVars,
              BP!Next, BP!BootResolves, BP!LoopAtLast, BP!shutdownVars
<1>3. CASE BootstrapRejects
  BY <1>3 DEF BootstrapRejects, B!BootstrapRejects, B!ExitWith, B!shutdownVars,
              BP!Next, BP!BootstrapRejects, BP!ExitWith, BP!shutdownVars
<1>4. ASSUME NEW s \in Signals, Signal(s)
      PROVE  BP!Next
  <2>1. BP!Signal(s)
    BY <1>4 DEF Signal, B!Signal, B!HandleCloseStarts, B!MayStartShutdown,
                B!TimerSet, B!FirstToClose, B!HandleCloseIgnores,
                B!DefaultDisposition, B!ExitWith, B!Alive, B!shutdownVars,
                BP!Signal, BP!HandleCloseStarts, BP!MayStartShutdown,
                BP!TimerSet, BP!FirstToClose, BP!HandleCloseIgnores,
                BP!DefaultDisposition, BP!ExitWith, BP!Alive, BP!shutdownVars
  <2> QED BY <2>1 DEF BP!Next
<1>5. CASE CloseProvider
  <2>1. PICK resolved \in BOOLEAN : B!CloseSettles(resolved)
    BY <1>5 DEF CloseProvider
  <2>2. BP!CloseSettles(resolved)
    BY <2>1 DEF B!CloseSettles, B!TimerCleared, BP!CloseSettles, BP!TimerCleared
  <2> QED BY <2>2 DEF BP!Next
<1>6. CASE ForceExit
  BY <1>6 DEF ForceExit, B!ForceExit, B!ExitWith, B!Alive, B!shutdownVars,
              BP!Next, BP!ForceExit, BP!ExitWith, BP!Alive, BP!shutdownVars
<1>7. CASE EventLoopEmpty
  BY <1>7 DEF EventLoopEmpty, B!EventLoopEmpty, B!ExitWith, B!Alive, B!shutdownVars,
              BP!Next, BP!EventLoopEmpty, BP!ExitWith, BP!Alive, BP!shutdownVars
<1>8. CASE \/ ProducerConnects \/ RegisterConsumer \/ StartJob \/ HttpServerCloses
           \/ \E resolved \in BOOLEAN :
                JobCloses(resolved) \/ ProducerDisconnects(resolved)
           \/ \E c \in Consumers, resolved \in BOOLEAN :
                ConsumerDisconnects(c, resolved)
  BY <1>8 DEF ProducerConnects, RegisterConsumer, StartJob, HttpServerCloses,
              JobCloses, ProducerDisconnects, ConsumerDisconnects
<1>9. CASE Work
  BY <1>9 DEF Work, Connect, Request, Respond, Disconnect, JobStarts, JobEnds,
              MessageArrives, MessageHandled
<1>10. CASE UNCHANGED vars
  BY <1>10 DEF vars
<1> QED
  BY <1>1, <1>2, <1>3, <1>4, <1>5, <1>6, <1>7, <1>8, <1>9, <1>10
  DEF Next, Lifecycle

\* The process implements the lifecycle of Bootstrap with its five providers.
THEOREM ImplementsBootstrap == Spec => BP!Spec
<1>1. Init => BP!Init
  BY DEF Init, B!Init, BP!Init
<1> QED BY <1>1, StepOfBootstrap, PTL DEF Spec, BP!Spec

--------------------------------------------------------------------------------
\* JobsProvider.close takes the last job: the rest are still held, and none is
\* left when there is nothing to close.
LEMMA PopJobFacts ==
  ASSUME TypeOK, PopJob
  PROVE  /\ runningJobs' \in Seq(Queues) /\ IsInjective(runningJobs')
         /\ closingJob' \in (Queues \ ToSet(runningJobs')) \cup {NoJob}
         /\ Held' = ToSet(runningJobs)
         /\ closingJob' = NoJob => runningJobs' = <<>>
<1>1. runningJobs \in Seq(Queues) /\ IsInjective(runningJobs) /\ NoJob \notin Queues
  BY InjectedAssumption DEF TypeOK
<1>2. CASE runningJobs = <<>>
  <2>1. closingJob' = NoJob /\ runningJobs' = runningJobs
    BY <1>2 DEF PopJob
  <2> QED BY <1>1, <1>2, <2>1 DEF Held
<1>3. CASE runningJobs # <<>>
  <2>1. closingJob' = Last(runningJobs) /\ runningJobs' = Front(runningJobs)
    BY <1>3 DEF PopJob
  <2> QED BY <1>1, <1>3, <2>1, PopFacts DEF Held
<1> QED BY <1>2, <1>3

\* Starting a job that is not held yet adds it to the held ones, or nothing.
LEMMA RememberedFacts ==
  ASSUME TypeOK, NEW q \in Queues \ ToSet(runningJobs)
  PROVE  /\ Remembered(q) \in Seq(Queues) /\ IsInjective(Remembered(q))
         /\ ToSet(Remembered(q)) =
              ToSet(runningJobs) \cup (IF RunsOnThisWorker(q) THEN {q} ELSE {})
<1>1. runningJobs \in Seq(Queues) /\ IsInjective(runningJobs)
  BY DEF TypeOK
<1>2. CASE RunsOnThisWorker(q)
  BY <1>1, <1>2, PushFacts DEF Remembered
<1>3. CASE ~RunsOnThisWorker(q)
  BY <1>1, <1>3 DEF Remembered
<1> QED BY <1>2, <1>3

\* A class of getQueueWorkers() is started once: its queue is new.
LEMMA StartJobFacts ==
  ASSUME TypeOK, HandlesFollow, StartJob
  PROVE  /\ phase = "booting" /\ Kernel[cursor] = "jobs" /\ closingJob = NoJob
         /\ \E q \in Queues :
              /\ queue[q] = "none"
              /\ q \notin ToSet(runningJobs)
              /\ queue' = Started(q)
              /\ runningJobs' = Remembered(q)
<1>1. phase = "booting" /\ Kernel[cursor] = "jobs" /\ closingJob = NoJob /\ B!Alive
  BY DEF StartJob, BootingProvider, HandlesFollow, JobsFollow, B!Alive
<1>2. PICK i \in DOMAIN JobClasses :
        /\ queue[JobClasses[i]] = "none"
        /\ queue' = Started(JobClasses[i])
        /\ runningJobs' = Remembered(JobClasses[i])
  BY DEF StartJob, NextJobClass
<1>3. JobClasses[i] \in Queues
  BY DEF Queues, ToSet
<1>4. JobClasses[i] \notin ToSet(runningJobs)
  BY <1>1, <1>2, <1>3 DEF HandlesFollow, JobsFollow, Held
<1> QED BY <1>1, <1>2, <1>3, <1>4

\* A close() that settles in the loop of handleClose, and the one it calls.
LEMMA CloseProviderFacts ==
  ASSUME BP!IndInv, CloseProvider
  PROVE  /\ phase = "closing" /\ cursor \in 1 .. 5
         /\ cursor' = cursor - 1
         /\ phase' = IF cursor = 1 THEN "closed" ELSE "closing"
         /\ cursor = 5 => http # "closing"
         /\ cursor = 4 => closingJob = NoJob
         /\ cursor = 3 => producer \in {"none", "closed", "stuck"}
         /\ CloseCalled(IF cursor > 1 THEN Kernel[cursor - 1] ELSE "nothing")
         /\ UNCHANGED <<config, work>>
<1>1. PICK resolved \in BOOLEAN :
        /\ phase = "closing"
        /\ CloseSettled(Kernel[cursor], resolved)
        /\ B!CloseSettles(resolved)
  BY DEF CloseProvider
<1>2. cursor \in 1 .. 5
  BY <1>1, CursorInList
<1>3. /\ cursor = 5 => http # "closing"
      /\ cursor = 4 => closingJob = NoJob
      /\ cursor = 3 => producer \in {"none", "closed", "stuck"}
  BY <1>1, <1>2 DEF CloseSettled, Kernel
<1>4. cursor' = cursor - 1 /\ phase' = IF cursor = 1 THEN "closed" ELSE "closing"
  BY <1>1, <1>2 DEF B!CloseSettles
<1> QED BY <1>1, <1>2, <1>3, <1>4 DEF CloseProvider

\* A signal starts the close loop, is ignored, or ends the process.
LEMMA SignalFacts ==
  ASSUME BP!IndInv, NEW s \in Signals, Signal(s)
  PROVE  \/ /\ phase = "running" /\ phase' = "closing" /\ cursor' = 5
            /\ CloseCalled("http") /\ UNCHANGED <<config, work>>
         \/ /\ phase' = "exited" \/ UNCHANGED <<phase, cursor>>
            /\ UNCHANGED <<config, handles, work>>
<1>1. CASE B!HandleCloseStarts(s)
  <2>1. phase' = "closing" /\ cursor' = 5 /\ s \in listeners /\ B!Alive /\ ~shuttingDown
    BY <1>1 DEF B!HandleCloseStarts, B!FirstToClose, B!MayStartShutdown
  <2>2. phase = "running"
    BY <2>1 DEF BP!IndInv, BP!TypeOK, BP!CursorMarksProgress, BP!ShutdownState,
                BP!Alive, B!Alive
  <2> QED BY <1>1, <2>1, <2>2 DEF Signal, Kernel
<1>2. CASE ~B!HandleCloseStarts(s)
  BY <1>2 DEF Signal, B!Signal, B!HandleCloseIgnores, B!DefaultDisposition, B!ExitWith
<1> QED BY <1>1, <1>2

\* A register() that resolves moves on to the next one or to the first boot().
LEMMA RegisterFacts ==
  ASSUME BP!IndInv, RegisterProvider
  PROVE  /\ phase = "registering" /\ cursor \in 1 .. 5
         /\ \/ cursor < 5 /\ phase' = "registering" /\ cursor' = cursor + 1
            \/ cursor = 5 /\ phase' = "booting" /\ cursor' = 1
  BY CursorInList DEF RegisterProvider, B!RegisterResolves, B!LoopAtLast

\* A boot() that resolves moves on to the next one or ends the bootstrap.
LEMMA BootFacts ==
  ASSUME BP!IndInv, BootProvider
  PROVE  /\ phase = "booting" /\ cursor \in 1 .. 5
         /\ \/ cursor < 5 /\ phase' = "booting" /\ cursor' = cursor + 1
            \/ cursor = 5 /\ phase' = "running" /\ cursor' = cursor
         /\ \/ UNCHANGED http
            \/ phase' = "running" /\ http' \in {"listening", "down"}
         /\ UNCHANGED <<config, cache, kafkaVars, jobsVars, work>>
<1>1. /\ phase = "booting" /\ cursor \in 1 .. 5
      /\ \/ cursor < 5 /\ phase' = "booting" /\ cursor' = cursor + 1
         \/ cursor = 5 /\ phase' = "running" /\ cursor' = cursor
  BY CursorInList DEF BootProvider, B!BootResolves, B!LoopAtLast
<1>2. Kernel[cursor] = "http" <=> cursor = 5
  BY <1>1, KernelOrder
<1> QED BY <1>1, <1>2 DEF BootProvider, BootHttp

\* Nothing happens in a process that has exited.
LEMMA NothingAfterExit ==
  ASSUME [Next]_vars, B!Alive'
  PROVE  B!Alive
<1> USE DEF B!Alive
<1>1. CASE Lifecycle
  BY <1>1 DEF Lifecycle, RegisterProvider, B!RegisterResolves, ProducerConnects,
       RegisterConsumer, StartJob, BootingProvider, BootProvider, B!BootResolves,
       BootstrapRejects, B!BootstrapRejects, Signal, B!Signal, B!HandleCloseStarts,
       B!MayStartShutdown, B!HandleCloseIgnores, B!DefaultDisposition, HttpServerCloses,
       JobCloses, ProducerDisconnects, ConsumerDisconnects, CloseProvider,
       B!CloseSettles, ForceExit, B!ForceExit, EventLoopEmpty, B!EventLoopEmpty
<1>2. CASE Work
  BY <1>2 DEF Work, Connect, Request, Respond, Disconnect, JobStarts, JobEnds,
              MessageArrives, MessageHandled
<1>3. CASE UNCHANGED vars
  BY <1>3 DEF vars, bootstrapVars
<1> QED BY <1>1, <1>2, <1>3 DEF Next

\* The steps that only end the process.
LEMMA ExitFacts ==
  ASSUME BootstrapRejects \/ ForceExit \/ EventLoopEmpty
  PROVE  ~B!Alive' /\ UNCHANGED <<config, handles, work>>
  BY DEF BootstrapRejects, B!BootstrapRejects, ForceExit, B!ForceExit,
         EventLoopEmpty, B!EventLoopEmpty, B!ExitWith, B!Alive

--------------------------------------------------------------------------------
\* The steps of a close() and of the work leave the cursor and the cache alone.
LEMMA WorkFacts ==
  ASSUME \/ Work \/ ProducerConnects \/ RegisterConsumer \/ StartJob \/ HttpServerCloses
         \/ \E resolved \in BOOLEAN : JobCloses(resolved) \/ ProducerDisconnects(resolved)
         \/ \E c \in Consumers, resolved \in BOOLEAN : ConsumerDisconnects(c, resolved)
  PROVE  UNCHANGED <<phase, cursor, config, cache>>
<1> USE DEF bootstrapVars, handles
<1>1. CASE Work
  BY <1>1 DEF Work, Connect, Request, Respond, Disconnect, JobStarts, JobEnds,
              MessageArrives, MessageHandled
<1>2. CASE ~Work
  BY <1>2 DEF ProducerConnects, RegisterConsumer, StartJob, HttpServerCloses,
              JobCloses, ProducerDisconnects, ConsumerDisconnects
<1> QED BY <1>1, <1>2

\* The cache is open from its registration to its close().
LEMMA CacheStep ==
  ASSUME BP!IndInv, B!Alive', CacheFollows, [Next]_vars
  PROVE  CacheFollows'
<1> USE DEF CacheFollows, Closing
<1>1. CASE RegisterProvider
  <2>1. Kernel[cursor] = "cache" <=> cursor = 2
    BY <1>1, RegisterFacts, KernelOrder
  <2>2. cache' = IF cursor = 2 THEN "open" ELSE cache
    BY <1>1, <2>1 DEF RegisterProvider, RegisterCache
  <2> QED BY <1>1, <2>2, RegisterFacts
<1>2. CASE BootProvider
  BY <1>2, BootFacts
<1>3. ASSUME NEW s \in Signals, Signal(s)
      PROVE  CacheFollows'
  BY <1>3, SignalFacts DEF CloseCalled, B!Alive, handles
<1>4. CASE CloseProvider
  <2>1. IF cursor = 3 THEN cache' = "closed" ELSE cache' = cache
    BY <1>4, CloseProviderFacts, KernelOrder DEF CloseCalled
  <2> QED BY <1>4, <2>1, CloseProviderFacts
<1>5. CASE BootstrapRejects \/ ForceExit \/ EventLoopEmpty
  BY <1>5, ExitFacts
<1>6. CASE UNCHANGED vars
  BY <1>6 DEF vars, bootstrapVars, handles
<1> QED BY <1>1, <1>2, <1>3, <1>4, <1>5, <1>6, WorkFacts DEF Next, Lifecycle

\* Connections exist only while the server listens or drains, and it drains
\* only while its close() is awaited.
LEMMA HttpStep ==
  ASSUME BP!IndInv, TypeOK, B!Alive', HttpFollows, [Next]_vars
  PROVE  HttpFollows'
<1> USE DEF HttpFollows
<1>1. CASE RegisterProvider
  BY <1>1, RegisterFacts DEF RegisterProvider, RegisterHttp, work
<1>2. CASE BootProvider
  BY <1>2, BootFacts DEF work
<1>3. ASSUME NEW s \in Signals, Signal(s)
      PROVE  HttpFollows'
  <2>1. CASE CloseCalled("http") /\ phase' = "closing" /\ cursor' = 5 /\ UNCHANGED work
    BY <2>1 DEF CloseCalled, work
  <2>2. CASE UNCHANGED <<phase, cursor, handles, work>>
    BY <2>2 DEF handles, work
  <2> QED BY <1>3, <2>1, <2>2, SignalFacts DEF B!Alive
<1>4. CASE CloseProvider
  <2>1. CloseCalled(IF cursor > 1 THEN Kernel[cursor - 1] ELSE "nothing")
    BY <1>4, CloseProviderFacts
  <2>2. cursor > 1 => Kernel[cursor - 1] # "http"
    BY <1>4, CloseProviderFacts, KernelOrder
  <2>3. UNCHANGED <<http, conn>>
    BY <1>4, <2>1, <2>2, CloseProviderFacts DEF CloseCalled, work
  <2> QED BY <1>4, <2>3, CloseProviderFacts
<1>5. CASE BootstrapRejects \/ ForceExit \/ EventLoopEmpty
  BY <1>5, ExitFacts
<1>6. CASE HttpServerCloses
  BY <1>6 DEF HttpServerCloses, ConnectionsEnded, bootstrapVars, work
<1>7. ASSUME NEW k \in Conns,
             \/ Connect(k) \/ Respond(k) \/ Disconnect(k)
             \/ \E r \in Requests : Request(k, r)
      PROVE  HttpFollows'
  <2>1. UNCHANGED <<phase, cursor, http>>
    BY <1>7 DEF Connect, Respond, Disconnect, Request, bootstrapVars, handles
  <2>2. \A l \in Conns : conn'[l] # Unused => conn[l] # Unused \/ http = "listening"
    <3>1. CASE Connect(k)
      BY <3>1 DEF Connect
    <3>2. CASE Respond(k) \/ \E r \in Requests : Request(k, r)
      <4>1. conn[k] \in Requests \cup {Idle}
        BY <3>2 DEF Respond, Request
      <4>2. Unused \notin Requests \cup {Idle}
        BY DEF Unused, Idle, Requests, DispatchTo
      <4>3. \A l \in Conns : l # k => conn'[l] = conn[l]
        BY <3>2 DEF Respond, Request, TypeOK
      <4> QED BY <4>1, <4>2, <4>3
    <3>3. CASE Disconnect(k)
      BY <3>3 DEF Disconnect, TypeOK
    <3> QED BY <1>7, <3>1, <3>2, <3>3
  <2> QED BY <2>1, <2>2
<1>8. CASE \/ ProducerConnects \/ RegisterConsumer \/ StartJob
           \/ \E resolved \in BOOLEAN : JobCloses(resolved) \/ ProducerDisconnects(resolved)
           \/ \E c \in Consumers, resolved \in BOOLEAN : ConsumerDisconnects(c, resolved)
  BY <1>8 DEF ProducerConnects, RegisterConsumer, StartJob, JobCloses,
              ProducerDisconnects, ConsumerDisconnects, bootstrapVars, work
<1>9. CASE \/ \E q \in Queues : JobStarts(q) \/ JobEnds(q)
           \/ \E c \in Consumers : MessageArrives(c) \/ MessageHandled(c)
  BY <1>9 DEF JobStarts, JobEnds, MessageArrives, MessageHandled, bootstrapVars, handles
<1>10. CASE UNCHANGED vars
  BY <1>10 DEF vars, bootstrapVars, handles, work
<1> QED
  BY <1>1, <1>2, <1>3, <1>4, <1>5, <1>6, <1>7, <1>8, <1>9, <1>10
  DEF Next, Lifecycle, Work

\* Consumers disconnect before the producer, and all of them before the close()
\* of the Kafka provider settles.
LEMMA KafkaStep ==
  ASSUME BP!IndInv, TypeOK, B!Alive', KafkaFollows, [Next]_vars
  PROVE  KafkaFollows'
<1> USE DEF KafkaFollows, Closing, PastClose
<1>1. CASE RegisterProvider
  BY <1>1, RegisterFacts DEF RegisterProvider, RegisterKafka, work
<1>2. CASE BootProvider
  BY <1>2, BootFacts DEF kafkaVars, work
<1>3. ASSUME NEW s \in Signals, Signal(s)
      PROVE  KafkaFollows'
  <2>1. CASE /\ phase = "running" /\ phase' = "closing" /\ cursor' = 5
             /\ CloseCalled("http") /\ UNCHANGED work
    <3>1. producer' = producer /\ \A c \in Consumers : consumer'[c] = consumer[c]
      BY <2>1 DEF CloseCalled
    <3>2. handling' = handling
      BY <2>1 DEF work
    <3> QED BY <2>1, <3>1, <3>2
  <2>2. CASE UNCHANGED <<phase, cursor, handles, work>>
    BY <2>2 DEF handles, kafkaVars, work
  <2> QED BY <1>3, <2>1, <2>2, SignalFacts DEF B!Alive
<1>4. CASE CloseProvider
  <2>1. CloseCalled(IF cursor > 1 THEN Kernel[cursor - 1] ELSE "nothing")
    BY <1>4, CloseProviderFacts
  <2>2. cursor > 1 => (Kernel[cursor - 1] = "kafka" <=> cursor = 4)
    BY <1>4, CloseProviderFacts, KernelOrder
  <2>3. \A c \in Consumers :
          consumer'[c] = IF cursor = 4 /\ consumer[c] = "running" THEN "stopping"
                         ELSE consumer[c]
    BY <1>4, <2>1, <2>2, CloseProviderFacts DEF CloseCalled
  <2>4. producer' = producer /\ handling' = handling
    BY <1>4, <2>1, CloseProviderFacts DEF CloseCalled, work
  <2> QED BY <1>4, <2>3, <2>4, CloseProviderFacts
<1>5. CASE BootstrapRejects \/ ForceExit \/ EventLoopEmpty
  BY <1>5, ExitFacts
<1>6. CASE ProducerConnects
  BY <1>6 DEF ProducerConnects, BootingProvider, bootstrapVars, work
<1>7. CASE RegisterConsumer
  <2>1. phase = "booting" /\ producer = "connected"
    BY <1>7 DEF RegisterConsumer, BootingProvider
  <2>2. PICK i \in DOMAIN KafkaDefinitions :
          consumer' = [consumer EXCEPT ![KafkaDefinitions[i]] = "running"]
    BY <1>7 DEF RegisterConsumer
  <2>3. \A c \in Consumers : consumer'[c] \in {"running", consumer[c]}
    BY <2>2 DEF TypeOK
  <2>4. UNCHANGED <<phase, cursor, producer, handling>>
    BY <1>7 DEF RegisterConsumer, bootstrapVars, work
  <2>5. \A c \in handling : consumer'[c] \in {"running", "stopping", "stuck"}
    BY <2>3 DEF TypeOK
  <2> QED BY <2>1, <2>3, <2>4, <2>5
<1>8. ASSUME NEW d \in Consumers, NEW resolved \in BOOLEAN,
             ConsumerDisconnects(d, resolved)
      PROVE  KafkaFollows'
  <2>1. UNCHANGED <<phase, cursor, producer, handling>>
    BY <1>8 DEF ConsumerDisconnects, bootstrapVars, work
  <2>2. consumer[d] = "stopping" /\ (resolved => d \notin handling)
    BY <1>8 DEF ConsumerDisconnects
  <2>3. \A c \in Consumers :
          consumer'[c] = IF c = d THEN IF resolved THEN "stopped" ELSE "stuck"
                         ELSE consumer[c]
    BY <1>8 DEF ConsumerDisconnects, TypeOK
  <2> QED BY <2>1, <2>2, <2>3
<1>9. ASSUME NEW resolved \in BOOLEAN, ProducerDisconnects(resolved)
      PROVE  KafkaFollows'
  <2>1. cursor = 3
    BY <1>9, CursorInList, KernelOrder DEF ProducerDisconnects
  <2>2. UNCHANGED <<phase, cursor, consumer, handling>>
    BY <1>9 DEF ProducerDisconnects, bootstrapVars, work
  <2>3. phase = "closing" /\ producer = "connected" /\ producer' \in {"closed", "stuck"}
    BY <1>9 DEF ProducerDisconnects
  <2>4. \A c \in Consumers : consumer[c] # "stopping"
    BY <1>9 DEF ProducerDisconnects, RunnerShut
  <2> QED BY <2>1, <2>2, <2>3, <2>4
<1>10. ASSUME NEW c \in Consumers, MessageArrives(c) \/ MessageHandled(c)
       PROVE  KafkaFollows'
  <2>1. UNCHANGED <<phase, cursor, producer, consumer>>
    BY <1>10 DEF MessageArrives, MessageHandled, bootstrapVars, handles, kafkaVars
  <2>2. \A d \in handling' : d \in handling \/ consumer[d] = "running"
    BY <1>10 DEF MessageArrives, MessageHandled
  <2> QED BY <2>1, <2>2
<1>11. CASE \/ StartJob \/ HttpServerCloses
            \/ \E resolved \in BOOLEAN : JobCloses(resolved)
            \/ \E k \in Conns : \/ Connect(k) \/ Respond(k) \/ Disconnect(k)
                                \/ \E r \in Requests : Request(k, r)
            \/ \E q \in Queues : JobStarts(q) \/ JobEnds(q)
            \/ UNCHANGED vars
  <2>1. UNCHANGED <<phase, cursor, kafkaVars, handling>>
    BY <1>11 DEF StartJob, HttpServerCloses, JobCloses, Connect, Respond, Disconnect,
                 Request, JobStarts, JobEnds, vars, bootstrapVars, handles, work
  <2> QED BY <2>1 DEF kafkaVars
<1> QED
  BY <1>1, <1>2, <1>3, <1>4, <1>5, <1>6, <1>7, <1>8, <1>9, <1>10, <1>11
  DEF Next, Lifecycle, Work

\* The provider holds queues of its classes.
LEMMA HeldAreQueues ==
  ASSUME TypeOK
  PROVE  Held \subseteq Queues
<1>1. runningJobs \in Seq(Queues)
  BY DEF TypeOK
<1>2. \A i \in DOMAIN runningJobs : runningJobs[i] \in Queues
  BY <1>1, LenProperties, ElementOfSeq
<1> QED BY <1>2 DEF TypeOK, Held, ToSet

\* A queue is processed exactly while it is held, and stops after its job.
LEMMA JobsStep ==
  ASSUME BP!IndInv, TypeOK, B!Alive', HandlesFollow, [Next]_vars
  PROVE  JobsFollow'
<1> USE DEF Closing
<1>0. B!Alive /\ JobsFollow /\ HttpFollows /\ NoJob \notin Queues /\ Held \subseteq Queues
  BY NothingAfterExit, InjectedAssumption, HeldAreQueues DEF HandlesFollow
<1> DEFINE MovesOn ==
      /\ \/ phase' = phase /\ cursor' = cursor
         \/ phase \in {"registering", "booting"}
              /\ phase' \in {"registering", "booting", "running"}
              /\ (phase' = "registering" => phase = "registering")
      /\ UNCHANGED <<queue, runningJobs, closingJob>>
<1>1. ASSUME MovesOn, \A q \in busy' : q \in busy \/ queue[q] = "processing"
      PROVE  JobsFollow'
  <2>1. Held' = Held
    BY <1>1 DEF Held
  <2> QED BY <1>0, <1>1, <2>1 DEF JobsFollow
<1>2. CASE RegisterProvider
  <2>1. MovesOn /\ busy' = busy
    BY <1>2, RegisterFacts DEF RegisterProvider, jobsVars, work
  <2> QED BY <1>1, <2>1
<1>3. CASE BootProvider
  <2>1. MovesOn /\ busy' = busy
    BY <1>3, BootFacts DEF jobsVars, work
  <2> QED BY <1>1, <2>1
<1>4. CASE \/ ProducerConnects \/ RegisterConsumer \/ HttpServerCloses
           \/ \E resolved \in BOOLEAN : ProducerDisconnects(resolved)
           \/ \E c \in Consumers, resolved \in BOOLEAN : ConsumerDisconnects(c, resolved)
           \/ \E k \in Conns : Connect(k) \/ Respond(k) \/ Disconnect(k)
           \/ \E q \in Queues : JobStarts(q) \/ JobEnds(q)
           \/ \E c \in Consumers : MessageArrives(c) \/ MessageHandled(c)
           \/ UNCHANGED vars
  <2>1. UNCHANGED <<phase, cursor, queue, runningJobs, closingJob>>
    BY <1>4 DEF ProducerConnects, RegisterConsumer, HttpServerCloses,
         ProducerDisconnects, ConsumerDisconnects, Connect, Respond, Disconnect,
         JobStarts, JobEnds, MessageArrives, MessageHandled,
         vars, bootstrapVars, handles, jobsVars
  <2>2. \A q \in busy' : q \in busy \/ queue[q] = "processing"
    BY <1>4 DEF ProducerConnects, RegisterConsumer, HttpServerCloses,
         ProducerDisconnects, ConsumerDisconnects, Connect, Respond, Disconnect,
         JobStarts, JobEnds, MessageArrives, MessageHandled, vars, work
  <2> QED BY <1>1, <2>1, <2>2
<1>5. CASE StartJob
  <2>1. PICK q \in Queues :
          /\ queue[q] = "none"
          /\ q \notin ToSet(runningJobs)
          /\ queue' = Started(q)
          /\ runningJobs' = Remembered(q)
    BY <1>5, StartJobFacts DEF HandlesFollow
  <2>2. /\ phase = "booting" /\ closingJob = NoJob
        /\ UNCHANGED <<phase, cursor, closingJob, busy>>
    BY <1>5, StartJobFacts DEF StartJob, HandlesFollow, bootstrapVars, work
  <2>3. \A p \in Queues : queue'[p] = IF p = q THEN IF RunsOnThisWorker(q) THEN "processing"
                                                                       ELSE "connected"
                                              ELSE queue[p]
    BY <2>1 DEF Started, TypeOK
  <2>4. Held' = Held \cup (IF RunsOnThisWorker(q) THEN {q} ELSE {})
    BY <2>1, <2>2, RememberedFacts DEF Held
  <2>5. Held' \subseteq Queues /\ q \notin Held /\ q \notin busy
    BY <1>0, <2>1, <2>4 DEF JobsFollow
  <2> QED BY <1>0, <2>1, <2>2, <2>3, <2>4, <2>5 DEF JobsFollow
<1>6. ASSUME NEW resolved \in BOOLEAN, JobCloses(resolved)
      PROVE  JobsFollow'
  <2>1. /\ closingJob # NoJob
        /\ PopJob
        /\ UNCHANGED <<phase, cursor, busy>>
        /\ resolved => closingJob \notin busy
    BY <1>6 DEF JobCloses, bootstrapVars, work
  <2>2. closingJob \in Queues \ ToSet(runningJobs)
    BY <2>1 DEF TypeOK
  <2>3. \A p \in Queues : queue'[p] = IF p = closingJob
                                       THEN IF resolved THEN "stopped" ELSE "stuck"
                                       ELSE queue[p]
    BY <1>6 DEF JobCloses, TypeOK
  <2>4. Held' = Held \ {closingJob} /\ (closingJob' = NoJob => runningJobs' = <<>>)
    BY <2>1, <2>2, PopJobFacts DEF Held
  <2>5. phase = "closing" /\ cursor = 4
    BY <1>0, <2>1 DEF JobsFollow
  <2>6. /\ closingJob' # NoJob => phase' = "closing" /\ cursor' = 4
        /\ Closing(4)' /\ closingJob' = NoJob => runningJobs' = <<>>
    BY <2>1, <2>4, <2>5
  <2>7. ASSUME NEW q \in Queues
        PROVE  /\ queue'[q] = "processing" <=> q \in Held'
               /\ q \in busy' => queue'[q] \in {"processing", "stuck"}
               /\ queue'[q] # "none" => phase' # "registering"
               /\ queue'[q] \in {"stopped", "stuck"} => Closing(4)'
    BY <1>0, <2>1, <2>3, <2>4, <2>5 DEF JobsFollow
  <2> QED BY <2>6, <2>7 DEF JobsFollow
<1>7. ASSUME UNCHANGED <<queue, busy>>, Held' = Held,
             phase' \in {"closing", "closed"}, phase \in {"running", "closing"},
             closingJob' # NoJob => phase' = "closing" /\ cursor' = 4,
             Closing(4)' /\ closingJob' = NoJob => runningJobs' = <<>>,
             Closing(4) => Closing(4)'
      PROVE  JobsFollow'
  BY <1>0, <1>7 DEF JobsFollow
<1>8. ASSUME NEW s \in Signals, Signal(s)
      PROVE  JobsFollow'
  <2>1. CASE /\ phase = "running" /\ phase' = "closing" /\ cursor' = 5
             /\ CloseCalled("http") /\ UNCHANGED <<config, work>>
    <3>1. UNCHANGED <<queue, runningJobs, closingJob, busy>>
      BY <2>1 DEF CloseCalled, work
    <3>2. closingJob = NoJob
      BY <1>0, <2>1 DEF JobsFollow
    <3> QED BY <1>7, <2>1, <3>1, <3>2 DEF Held
  <2>2. CASE UNCHANGED <<phase, cursor, config, handles, work>>
    <3>1. MovesOn /\ busy' = busy
      BY <2>2 DEF handles, jobsVars, work
    <3> QED BY <1>1, <3>1
  <2> QED BY <1>8, <2>1, <2>2, SignalFacts DEF B!Alive
<1>9. CASE CloseProvider
  <2>1. /\ phase = "closing" /\ cursor \in 1 .. 5 /\ cursor' = cursor - 1
        /\ phase' = IF cursor = 1 THEN "closed" ELSE "closing"
        /\ UNCHANGED <<config, work>>
    BY <1>9, CloseProviderFacts
  <2>2. closingJob = NoJob
    BY <1>0, <1>9, <2>1, CloseProviderFacts DEF JobsFollow
  <2>3. CloseCalled(IF cursor > 1 THEN Kernel[cursor - 1] ELSE "nothing")
    BY <1>9, CloseProviderFacts
  <2>4. queue' = queue /\ busy' = busy
    BY <2>1, <2>3 DEF CloseCalled, work
  <2>5. CASE cursor = 5
    <3>1. PopJob
      BY <2>3, <2>5 DEF CloseCalled, Kernel
    <3>2. Held' = Held /\ (closingJob' = NoJob => runningJobs' = <<>>)
      BY <2>2, <3>1, PopJobFacts DEF Held
    <3> QED BY <1>7, <2>1, <2>4, <2>5, <3>2
  <2>6. CASE cursor < 5
    <3>1. UNCHANGED <<runningJobs, closingJob>>
      BY <2>1, <2>3, <2>6, KernelOrder DEF CloseCalled
    <3>2. runningJobs = <<>>
      BY <1>0, <2>1, <2>2, <2>6 DEF JobsFollow
    <3>3. Held' = Held
      BY <3>1 DEF Held
    <3> QED BY <1>7, <2>1, <2>2, <2>4, <2>6, <3>1, <3>2, <3>3
  <2> QED BY <2>1, <2>5, <2>6
<1>10. ASSUME NEW k \in Conns, NEW r \in Requests, Request(k, r)
       PROVE  JobsFollow'
  <2>1. UNCHANGED <<phase, cursor, runningJobs, closingJob, busy>>
    BY <1>10 DEF Request, bootstrapVars
  <2>2. phase # "registering"
    BY <1>0, <1>10 DEF Request, HttpFollows, Idle, Unused
  <2>3. \A q \in Queues :
          \/ queue'[q] = queue[q]
          \/ queue[q] = "none" /\ queue'[q] = "connected"
    BY <1>10 DEF Request, Constructed
  <2>4. Held' = Held
    BY <2>1 DEF Held
  <2> QED BY <1>0, <2>1, <2>2, <2>3, <2>4 DEF JobsFollow
<1>11. CASE BootstrapRejects \/ ForceExit \/ EventLoopEmpty
  BY <1>11, ExitFacts
<1> QED
  BY <1>2, <1>3, <1>4, <1>5, <1>6, <1>8, <1>9, <1>10, <1>11
  DEF Next, Lifecycle, Work

\* The jobs provider closes queues only when no connection is left to use them.
LEMMA RequestsStep ==
  ASSUME BP!IndInv, TypeOK, B!Alive', HandlesFollow, [Next]_vars
  PROVE  RequestsFollow'
<1>0. B!Alive /\ RequestsFollow /\ HttpFollows /\ JobsFollow
  BY NothingAfterExit DEF HandlesFollow
<1>1. ASSUME \A k \in Conns, q \in Queues : conn'[k] = DispatchTo(q) => conn[k] = DispatchTo(q),
             \A q \in Queues : queue'[q] = queue[q] \/ queue'[q] \in {"connected", "processing"}
      PROVE  RequestsFollow'
  BY <1>0, <1>1 DEF RequestsFollow
<1>2. ASSUME UNCHANGED <<conn, queue>>
      PROVE  RequestsFollow'
  BY <1>0, <1>2 DEF RequestsFollow
<1>3. ASSUME NEW k \in Conns, Connect(k) \/ Respond(k) \/ Disconnect(k)
      PROVE  RequestsFollow'
  <2>1. \A q \in Queues : DispatchTo(q) # Idle /\ DispatchTo(q) # Unused
    BY DEF DispatchTo, Idle, Unused
  <2>2. \A l \in Conns : conn'[l] = conn[l] \/ conn'[l] \in {Idle, Unused}
    BY <1>3 DEF Connect, Respond, Disconnect, TypeOK
  <2>3. queue' = queue
    BY <1>3 DEF Connect, Respond, Disconnect, handles, jobsVars
  <2> QED BY <1>1, <2>1, <2>2, <2>3
<1>4. ASSUME NEW k \in Conns, NEW r \in Requests, Request(k, r)
      PROVE  RequestsFollow'
  <2>1. phase = "running" \/ (phase = "closing" /\ cursor = 5)
    BY <1>0, <1>4 DEF Request, HttpFollows, Idle, Unused
  <2>2. \A q \in Queues : queue[q] \in {"none", "connected", "processing"}
    <3>1. ~Closing(4)
      BY <2>1 DEF Closing
    <3>2. \A q \in Queues : queue[q] \in {"none", "connected", "processing", "stopped", "stuck"}
      BY DEF TypeOK
    <3> QED BY <1>0, <3>1, <3>2 DEF JobsFollow
  <2>3. \A q \in Queues : IF queue[q] = "none" /\ r = DispatchTo(q)
                           THEN queue'[q] = "connected" ELSE queue'[q] = queue[q]
    BY <1>4 DEF Request, Constructed
  <2>4. \A l \in Conns : conn'[l] = IF l = k THEN r ELSE conn[l]
    BY <1>4 DEF Request, TypeOK
  <2> QED BY <1>0, <2>2, <2>3, <2>4 DEF RequestsFollow
<1>5. CASE StartJob
  <2>1. UNCHANGED conn
    BY <1>5 DEF StartJob, work
  <2>2. \A q \in Queues : queue'[q] = queue[q] \/ queue'[q] \in {"connected", "processing"}
    BY <1>5, StartJobFacts DEF Started, TypeOK
  <2> QED BY <1>1, <2>1, <2>2
<1>6. ASSUME NEW resolved \in BOOLEAN, JobCloses(resolved)
      PROVE  RequestsFollow'
  <2>1. closingJob # NoJob /\ UNCHANGED conn
    BY <1>6 DEF JobCloses, work
  <2>2. phase = "closing" /\ cursor = 4
    BY <1>0, <2>1 DEF JobsFollow
  <2>3. \A k \in Conns : conn[k] = Unused
    BY <1>0, <2>2 DEF HttpFollows
  <2>4. \A q \in Queues : Unused # DispatchTo(q)
    BY DEF Unused, DispatchTo
  <2> QED BY <2>1, <2>3, <2>4 DEF RequestsFollow
<1>7. ASSUME NEW s \in Signals, Signal(s)
      PROVE  RequestsFollow'
  BY <1>2, <1>7, SignalFacts DEF CloseCalled, handles, jobsVars, work
<1>8. CASE CloseProvider
  BY <1>2, <1>8, CloseProviderFacts DEF CloseCalled, work
<1>9. CASE RegisterProvider
  BY <1>2, <1>9 DEF RegisterProvider, jobsVars, work
<1>10. CASE BootProvider
  BY <1>2, <1>10, BootFacts DEF jobsVars, work
<1>11. CASE BootstrapRejects \/ ForceExit \/ EventLoopEmpty
  BY <1>11, ExitFacts
<1>12. CASE \/ ProducerConnects \/ RegisterConsumer \/ HttpServerCloses
            \/ \E resolved \in BOOLEAN : ProducerDisconnects(resolved)
            \/ \E c \in Consumers, resolved \in BOOLEAN : ConsumerDisconnects(c, resolved)
            \/ \E q \in Queues : JobStarts(q) \/ JobEnds(q)
            \/ \E c \in Consumers : MessageArrives(c) \/ MessageHandled(c)
            \/ UNCHANGED vars
  <2>1. UNCHANGED <<conn, queue>>
    BY <1>12 DEF ProducerConnects, RegisterConsumer, HttpServerCloses,
         ProducerDisconnects, ConsumerDisconnects, JobStarts, JobEnds,
         MessageArrives, MessageHandled, vars, handles, jobsVars, work
  <2> QED BY <1>2, <2>1
<1> QED
  BY <1>3, <1>4, <1>5, <1>6, <1>7, <1>8, <1>9, <1>10, <1>11, <1>12
  DEF Next, Lifecycle, Work

\* What each step does to the lists and functions keeps their types.
LEMMA TypesStep ==
  ASSUME BP!IndInv, BP!IndInv', TypeOK, HandlesFollow, [Next]_vars
  PROVE  TypeOK'
<1>1. B!TypeOK'
  BY DEF BP!IndInv, BP!TypeOK, B!TypeOK, BP!Providers, B!Providers
<1> DEFINE ConfigTypes ==
             /\ types \subseteq {"producer", "worker", "consumer"}
             /\ kafkaUsable \in BOOLEAN /\ (kafkaUsable => "consumer" \in types)
             /\ Word("") \notin jobDefinitions
           SingleTypes ==
             /\ cache \in {"none", "open", "closed"}
             /\ producer \in {"none", "created", "connected", "closed", "stuck"}
             /\ http \in {"none", "created", "listening", "down", "closing", "closed"}
           ConsumerTypes ==
             consumer \in [Consumers -> {"none", "running", "stopping", "stopped", "stuck"}]
           JobTypes ==
             /\ queue \in [Queues -> {"none", "connected", "processing", "stopped", "stuck"}]
             /\ runningJobs \in Seq(Queues) /\ IsInjective(runningJobs)
             /\ closingJob \in (Queues \ ToSet(runningJobs)) \cup {NoJob}
           WorkTypes ==
             /\ conn \in [Conns -> Requests \cup {Unused, Idle}]
             /\ busy \subseteq Queues /\ handling \subseteq Consumers
<1>2. ConfigTypes /\ SingleTypes /\ ConsumerTypes /\ JobTypes /\ WorkTypes
  BY DEF TypeOK
<1>3. ConfigTypes'
  <2>1. UNCHANGED config
    BY DEF Next, Lifecycle, Work, RegisterProvider, ProducerConnects,
       RegisterConsumer, StartJob, BootProvider, BootstrapRejects, Signal,
       HttpServerCloses, JobCloses, ProducerDisconnects, ConsumerDisconnects,
       CloseProvider, ForceExit, EventLoopEmpty, Connect, Request, Respond,
       Disconnect, JobStarts, JobEnds, MessageArrives, MessageHandled, vars
  <2> QED BY <1>2, <2>1 DEF config
<1>4. SingleTypes'
  <2>1. CASE CloseProvider \/ \E s \in Signals : Signal(s)
    BY <1>2, <2>1 DEF CloseProvider, Signal, CloseCalled, handles, kafkaVars
  <2>2. CASE Work
    BY <1>2, <2>2 DEF Work, Connect, Request, Respond, Disconnect, JobStarts,
                      JobEnds, MessageArrives, MessageHandled, handles, kafkaVars
  <2>3. CASE BootstrapRejects \/ ForceExit \/ EventLoopEmpty \/ UNCHANGED vars
    BY <1>2, <2>3, ExitFacts DEF vars, handles, kafkaVars
  <2>4. CASE RegisterProvider \/ BootProvider
    BY <1>2, <2>4 DEF RegisterProvider, RegisterCache, RegisterKafka, RegisterHttp,
                      BootProvider, BootHttp, kafkaVars
  <2>5. CASE \/ ProducerConnects \/ RegisterConsumer \/ StartJob \/ HttpServerCloses
             \/ \E resolved \in BOOLEAN : JobCloses(resolved) \/ ProducerDisconnects(resolved)
             \/ \E c \in Consumers, resolved \in BOOLEAN : ConsumerDisconnects(c, resolved)
    BY <1>2, <2>5 DEF ProducerConnects, RegisterConsumer, StartJob, HttpServerCloses,
                      JobCloses, ProducerDisconnects, ConsumerDisconnects, kafkaVars
  <2> QED BY <2>1, <2>2, <2>3, <2>4, <2>5 DEF Next, Lifecycle
<1>5. ConsumerTypes'
  <2>1. CASE CloseProvider \/ \E s \in Signals : Signal(s)
    BY <1>2, <2>1 DEF CloseProvider, Signal, CloseCalled, handles, kafkaVars
  <2>2. CASE Work
    BY <1>2, <2>2 DEF Work, Connect, Request, Respond, Disconnect, JobStarts,
                      JobEnds, MessageArrives, MessageHandled, handles, kafkaVars
  <2>3. CASE BootstrapRejects \/ ForceExit \/ EventLoopEmpty \/ UNCHANGED vars
    BY <1>2, <2>3, ExitFacts DEF vars, handles, kafkaVars
  <2>4. CASE \/ RegisterConsumer
             \/ \E c \in Consumers, resolved \in BOOLEAN : ConsumerDisconnects(c, resolved)
    BY <1>2, <2>4 DEF RegisterConsumer, ConsumerDisconnects
  <2>5. CASE \/ RegisterProvider \/ BootProvider
             \/ ProducerConnects \/ StartJob \/ HttpServerCloses
             \/ \E resolved \in BOOLEAN : JobCloses(resolved) \/ ProducerDisconnects(resolved)
    BY <1>2, <2>5 DEF RegisterProvider, BootProvider, ProducerConnects, StartJob,
                      HttpServerCloses, JobCloses, ProducerDisconnects, kafkaVars
  <2> QED BY <2>1, <2>2, <2>3, <2>4, <2>5 DEF Next, Lifecycle
<1>6. JobTypes'
  <2>1. CASE StartJob
    <3>1. PICK q \in Queues :
            /\ q \notin ToSet(runningJobs)
            /\ queue' = Started(q)
            /\ runningJobs' = Remembered(q)
      BY <2>1, StartJobFacts
    <3>2. closingJob' = NoJob /\ NoJob \notin Queues
      BY <2>1, StartJobFacts, InjectedAssumption DEF StartJob
    <3> QED BY <1>2, <3>1, <3>2, RememberedFacts DEF Started
  <2>2. ASSUME NEW resolved \in BOOLEAN, JobCloses(resolved)
        PROVE  JobTypes'
    <3>1. queue' \in [Queues -> {"none", "connected", "processing", "stopped", "stuck"}]
      BY <1>2, <2>2 DEF JobCloses
    <3> QED BY <2>2, <3>1, PopJobFacts DEF JobCloses
  <2>3. CASE CloseProvider \/ \E s \in Signals : Signal(s)
    <3>1. UNCHANGED queue /\ (PopJob \/ UNCHANGED <<runningJobs, closingJob>>)
      BY <2>3 DEF CloseProvider, Signal, CloseCalled, handles, jobsVars
    <3> QED BY <1>2, <3>1, PopJobFacts
  <2>4. ASSUME NEW k \in Conns, NEW r \in Requests, Request(k, r)
        PROVE  JobTypes'
    <3>1. queue' \in [Queues -> {"none", "connected", "processing", "stopped", "stuck"}]
      BY <1>2, <2>4 DEF Request, Constructed
    <3> QED BY <1>2, <2>4, <3>1 DEF Request
  <2>5. CASE \/ RegisterProvider \/ BootProvider \/ BootstrapRejects \/ ForceExit
             \/ EventLoopEmpty \/ ProducerConnects \/ RegisterConsumer \/ HttpServerCloses
             \/ \E resolved \in BOOLEAN : ProducerDisconnects(resolved)
             \/ \E c \in Consumers, resolved \in BOOLEAN : ConsumerDisconnects(c, resolved)
             \/ \E k \in Conns : Connect(k) \/ Respond(k) \/ Disconnect(k)
             \/ \E q \in Queues : JobStarts(q) \/ JobEnds(q)
             \/ \E c \in Consumers : MessageArrives(c) \/ MessageHandled(c)
             \/ UNCHANGED vars
    <3>1. UNCHANGED jobsVars
      BY <2>5 DEF RegisterProvider, BootProvider, BootstrapRejects, ForceExit,
           EventLoopEmpty, ProducerConnects, RegisterConsumer, HttpServerCloses,
           ProducerDisconnects, ConsumerDisconnects, Connect, Respond, Disconnect,
           JobStarts, JobEnds, MessageArrives, MessageHandled, vars, handles
    <3> QED BY <1>2, <3>1 DEF jobsVars
  <2> QED BY <2>1, <2>2, <2>3, <2>4, <2>5 DEF Next, Lifecycle, Work
<1>7. WorkTypes'
  <2>1. CASE Work
    BY <1>2, <2>1 DEF Work, Connect, Request, Respond, Disconnect,
       JobStarts, JobEnds, MessageArrives, MessageHandled
  <2>2. CASE Lifecycle \/ UNCHANGED vars
    <3>1. UNCHANGED work
      BY <2>2 DEF Lifecycle, RegisterProvider, ProducerConnects,
         RegisterConsumer, StartJob, BootProvider, BootstrapRejects, Signal,
         HttpServerCloses, JobCloses, ProducerDisconnects, ConsumerDisconnects,
         CloseProvider, ForceExit, EventLoopEmpty, vars
    <3> QED BY <1>2, <3>1 DEF work
  <2> QED BY <2>1, <2>2 DEF Next
<1> QED BY <1>1, <1>3, <1>4, <1>5, <1>6, <1>7 DEF TypeOK

--------------------------------------------------------------------------------
\* IndInv holds when the module env has been evaluated.
LEMMA InitIndInv == Init => IndInv
<1> SUFFICES ASSUME Init
             PROVE  IndInv
  OBVIOUS
<1>1. BP!Init
  BY DEF Init, B!Init, BP!Init
<1>2. BP!IndInv
  BY <1>1, BP!InitIndInv
<1>3. B!TypeOK
  BY <1>2 DEF BP!IndInv, BP!TypeOK, B!TypeOK, BP!Providers, B!Providers
<1>4. PICK raw \in Environments :
        /\ types = Allowed(raw)
        /\ kafkaUsable = KafkaUsable(raw)
        /\ jobDefinitions = JobDefinitions(raw)
  BY DEF Init
<1>5. /\ types \subseteq {"producer", "worker", "consumer"}
      /\ kafkaUsable \in BOOLEAN /\ (kafkaUsable => "consumer" \in types)
      /\ Word("") \notin jobDefinitions
  BY <1>4 DEF Allowed, KafkaUsable, JobDefinitions, Listed
<1>6. runningJobs = <<>> /\ runningJobs \in Seq(Queues) /\ IsInjective(runningJobs)
  BY EmptySeq DEF Init, IsInjective
<1>7. ToSet(runningJobs) = {}
  BY <1>6 DEF ToSet
<1>8. TypeOK
  BY <1>3, <1>5, <1>6 DEF Init, TypeOK
<1>9. phase = "registering" /\ cursor = 1
  BY <1>1 DEF BP!Init
<1>10. CacheFollows /\ HttpFollows /\ KafkaFollows /\ RequestsFollow
  BY <1>9 DEF Init, CacheFollows, HttpFollows, KafkaFollows, RequestsFollow,
              Closing, PastClose, Unused, DispatchTo
<1>11. JobsFollow
  BY <1>7, <1>9 DEF Init, JobsFollow, Held, Closing
<1> QED BY <1>2, <1>8, <1>10, <1>11 DEF IndInv, HandlesFollow

\* Every step preserves IndInv.
LEMMA NextIndInv == IndInv /\ [Next]_vars => IndInv'
<1> SUFFICES ASSUME IndInv, [Next]_vars
             PROVE  IndInv'
  OBVIOUS
<1>1. BP!IndInv'
  BY StepOfBootstrap, BP!NextIndInv DEF IndInv
<1>2. TypeOK'
  BY <1>1, TypesStep DEF IndInv
<1>3. HandlesFollow'
  <2>1. ASSUME B!Alive'
        PROVE  /\ CacheFollows' /\ HttpFollows' /\ KafkaFollows'
               /\ JobsFollow' /\ RequestsFollow'
    <3>1. CacheFollows /\ HttpFollows /\ KafkaFollows
      BY <2>1, NothingAfterExit DEF IndInv, HandlesFollow
    <3> QED
      BY <2>1, <3>1, CacheStep, HttpStep, KafkaStep, JobsStep, RequestsStep DEF IndInv
  <2> QED BY <2>1 DEF HandlesFollow
<1> QED BY <1>1, <1>2, <1>3 DEF IndInv

\* IndInv holds in every reachable state.
THEOREM Invariance == Spec => []IndInv
<1> QED BY InitIndInv, NextIndInv, PTL DEF Spec

\* The variables keep the types the code gives them; in particular a job is
\* remembered once, and the popped one is no longer in the list.
THEOREM TypeCorrect == Spec => []TypeOK
<1>1. IndInv => TypeOK
  BY DEF IndInv
<1> QED BY <1>1, Invariance, PTL

\* No provider is closed under the requests, jobs and messages that use it,
\* however many there are (Kernel.ts:21-27 and the close() of each provider).
THEOREM WorkSafe == Spec => []WorkFindsItsHandles
<1>1. ASSUME IndInv, B!Alive
      PROVE  WorkFindsItsHandles
  <2> DEFINE jobs == {q \in busy : ~Stuck(queue[q])}
             messages == {c \in handling : ~Stuck(consumer[c])}
             requests == {k \in Conns : conn[k] \in Requests}
  <2>1. CacheFollows /\ HttpFollows /\ KafkaFollows /\ JobsFollow /\ RequestsFollow
    BY <1>1 DEF IndInv, HandlesFollow
  <2>2. /\ phase \in {"registering", "booting", "running", "closing", "closed"}
        /\ cursor \in 0 .. 5
        /\ producer \in {"none", "created", "connected", "closed", "stuck"}
    BY <1>1, CursorInList DEF IndInv, B!Alive, TypeOK
  <2>3. ASSUME NEW q \in jobs
        PROVE  cache = "open" /\ producer \in {"none", "created", "connected"}
    <3>1. q \in Queues /\ q \in Held /\ phase # "registering"
      BY <1>1, <2>1, <2>3 DEF IndInv, TypeOK, JobsFollow, Stuck
    <3>2. phase \in {"booting", "running"} \/ (phase = "closing" /\ cursor >= 4)
      <4>1. ToSet(<<>>) = {}
        BY DEF ToSet
      <4>2. ~(Closing(4) /\ closingJob = NoJob)
        BY <2>1, <3>1, <4>1 DEF JobsFollow, Held
      <4> QED BY <2>1, <2>2, <3>1, <4>2 DEF JobsFollow, Closing
    <3> QED
      BY <2>1, <2>2, <3>2 DEF CacheFollows, KafkaFollows, Closing
  <2>4. ASSUME NEW c \in messages
        PROVE  cache = "open" /\ producer \in {"none", "created", "connected"}
    <3>1. c \in Consumers /\ consumer[c] \in {"running", "stopping"}
      BY <1>1, <2>1, <2>4 DEF IndInv, TypeOK, KafkaFollows, Stuck
    <3>2. producer = "connected" /\ phase # "registering" /\ ~PastClose(3)
      BY <2>1, <3>1 DEF KafkaFollows, Closing, PastClose
    <3> QED BY <2>1, <2>2, <3>2 DEF CacheFollows, PastClose
  <2>5. ASSUME NEW k \in requests
        PROVE  cache = "open" /\ producer \in {"none", "created", "connected"}
    <3>1. conn[k] # Unused
      BY <2>5 DEF Requests, DispatchTo, Unused
    <3>2. phase = "running" \/ (phase = "closing" /\ cursor = 5)
      BY <2>1, <3>1 DEF HttpFollows
    <3> QED
      BY <2>1, <2>2, <3>2 DEF CacheFollows, KafkaFollows, Closing
  <2>6. \A k \in requests : \A q \in Queues :
          conn[k] = DispatchTo(q) => queue[q] \in {"connected", "processing"}
    BY <2>1 DEF RequestsFollow
  <2> HIDE DEF jobs, messages, requests
  <2>7. /\ jobs \cup messages \cup requests # {} => cache = "open"
        /\ (\E k \in requests : conn[k] = <<"produce">>) \/ jobs \cup messages # {}
             => producer \in {"none", "created", "connected"}
    BY <2>3, <2>4, <2>5
  <2> QED BY <2>6, <2>7 DEF WorkFindsItsHandles, jobs, messages, requests
<1>2. IndInv => WorkFindsItsHandles
  BY <1>1 DEF WorkFindsItsHandles
<1> QED BY <1>2, Invariance, PTL

\* A shutdown that completes has stopped every queue that was started and every
\* consumer, and ended the work; only the Redis clients of queues are left
\* (index.ts:57-66, JobsProvider.ts:49-77, Queueable.ts:39-41).
THEOREM WorkStopped == Spec => []ShutdownStopsWork
<1>1. ASSUME IndInv, phase = "closed"
      PROVE  /\ \A q \in Queues : queue[q] # "processing"
             /\ \A q \in busy : Stuck(queue[q])
             /\ \A c \in handling : Stuck(consumer[c])
             /\ \A k \in Conns : conn[k] = Unused
             /\ OpenHandles \subseteq Queues
  <2>1. CacheFollows /\ HttpFollows /\ KafkaFollows /\ JobsFollow
    BY <1>1 DEF IndInv, HandlesFollow, B!Alive
  <2>2. Held = {}
    <3>1. closingJob = NoJob /\ runningJobs = <<>>
      BY <1>1, <2>1 DEF JobsFollow, Closing
    <3> QED BY <3>1 DEF Held, ToSet
  <2>3. \A q \in Queues : queue[q] # "processing"
    BY <2>1, <2>2 DEF JobsFollow
  <2>4. \A q \in busy : Stuck(queue[q])
    BY <1>1, <2>1, <2>3 DEF JobsFollow, Stuck, IndInv, TypeOK
  <2>5. cache # "open" /\ producer # "connected" /\ http \notin {"listening", "closing"}
    BY <1>1, <2>1 DEF CacheFollows, HttpFollows, KafkaFollows, Closing, PastClose
  <2>6. \A c \in Consumers : consumer[c] \notin {"running", "stopping"}
    BY <1>1, <2>1, <2>5 DEF KafkaFollows, Closing
  <2>7. \A c \in handling : Stuck(consumer[c])
    BY <1>1, <2>1, <2>6 DEF KafkaFollows, Stuck, IndInv, TypeOK
  <2>8. \A k \in Conns : conn[k] = Unused
    BY <2>1, <2>5 DEF HttpFollows
  <2>9. OpenHandles \subseteq Queues
    BY <2>5, <2>6 DEF OpenHandles
  <2> QED BY <2>3, <2>4, <2>7, <2>8, <2>9
<1>2. IndInv => ShutdownStopsWork
  BY <1>1 DEF ShutdownStopsWork
<1> QED BY <1>2, Invariance, PTL

\* What Bootstrap_proofs shows of the lifecycle holds of the process: the order
\* of the providers, the force-exit timer, and that a shutdown runs once
\* (index.ts:26-66).
THEOREM LifecycleInherited ==
  Spec => []BP!OrderedLifecycle /\ []BP!TimerGuardsClosing /\ BP!ShutdownRunsOnce
<1>1. BP!Spec => []BP!OrderedLifecycle
  BY BP!LifecycleOrdered
<1>2. BP!Spec => []BP!TimerGuardsClosing
  BY BP!TimerCorrect
<1>3. BP!Spec => BP!ShutdownRunsOnce
  BY BP!ClosesOnce
<1> QED BY <1>1, <1>2, <1>3, ImplementsBootstrap, PTL
================================================================================
