------------------------------- MODULE JobQueues -------------------------------
(***************************************************************************)
(* Bull queues across processes.  Producers add jobs with                  *)
(* Queueable.dispatch, worker processes (pods) hand them to                *)
(* processHandler, one at a time per queue and process, with up to         *)
(* Attempts attempts and a backoff between them.                           *)
(*                                                                         *)
(* Bull is external: a worker locks the job it handles and renews the      *)
(* lock; the end of a handler counts only under the lock; an active job    *)
(* whose lock has expired is stalled and goes back to the queue, but not   *)
(* more than MaxStalls times.                                              *)
(***************************************************************************)
EXTENDS Naturals, HandlerLoading

CONSTANTS
    Workers,          \* processes whose SERVER_TYPE includes worker
    Queues,           \* @QueueWorker classes, one queue each
    Jobs,
    QueueOf,          \* per job, its queue
    Deployments,      \* what the processes may run in
    JobHandlers,      \* JOB_HANDLERS: patterns
    DefinitionLists,  \* JOB_DEFINITIONS: sets of queues
    Attempts,         \* defaultJobOptions.attempts
    MaxStalls,        \* Bull's maxStalledCount
    MaxDisturbances,  \* bound: crashes and blocked event loops
    NoWorker

ASSUME JobAssumption ==
    /\ QueueOf \in [Jobs -> Queues]
    /\ DefinitionLists \subseteq SUBSET Queues
    /\ Attempts \in Nat \ {0} /\ MaxStalls \in Nat /\ MaxDisturbances \in Nat
    /\ NoWorker \notin Workers

VARIABLES
    deployment,
    jobDefinitions,  \* per worker; the empty set enables all
    answer,          \* per job, what its dispatcher knows: "none", "pending",
                     \* "queued" or "failed"
    state,           \* Bull's state of a job, "none" before it is added
    lock,            \* the worker that holds the job's lock
    attemptsMade,
    stalledCounter,
    worker,          \* "up", "closing" or "down"
    handling,        \* per worker, the jobs in processHandler
    overrun,         \* history: jobs whose lock expired under a live handler
    disturbances     \* history: crashes and blocked event loops

config == <<deployment, jobDefinitions>>
queueVars == <<state, lock, attemptsMade, stalledCounter>>
history == <<overrun, disturbances>>
vars == <<config, answer, queueVars, worker, handling, history>>

Init ==
    /\ deployment \in Deployments
    /\ jobDefinitions \in [Workers -> DefinitionLists]
    /\ answer = [j \in Jobs |-> "none"]
    /\ state = [j \in Jobs |-> "none"]
    /\ lock = [j \in Jobs |-> NoWorker]
    /\ attemptsMade = [j \in Jobs |-> 0]
    /\ stalledCounter = [j \in Jobs |-> 0]
    /\ worker = [w \in Workers |-> "up"]
    /\ handling = [w \in Workers |-> {}]
    /\ overrun = {}
    /\ disturbances = 0

--------------------------------------------------------------------------------
(***************************************************************************)
(* Queueable.dispatch, awaited by a controller                             *)
(***************************************************************************)
Dispatch(j) ==
    /\ answer[j] = "none"
    /\ answer' = [answer EXCEPT ![j] = "pending"]
    /\ UNCHANGED <<config, queueVars, worker, handling, history>>

\* Redis executes the add, perhaps after its connection was lost.
Add(j) ==
    /\ answer[j] \in {"pending", "failed"}
    /\ state[j] = "none"
    /\ state' = [state EXCEPT ![j] = "waiting"]
    /\ UNCHANGED <<config, answer, lock, attemptsMade, stalledCounter, worker,
                   handling, history>>

\* A plausible bug: dispatch does not wait for add().
AddNotAwaited(j) == TRUE

\* The promise of add() has resolved.
AddResolved(j) == state[j] # "none"

DispatchReturns(j) ==
    /\ answer[j] = "pending"
    /\ AddResolved(j)
    /\ answer' = [answer EXCEPT ![j] = "queued"]
    /\ UNCHANGED <<config, queueVars, worker, handling, history>>

\* The command fails, or its answer is lost.
DispatchRejects(j) ==
    /\ answer[j] = "pending"
    /\ answer' = [answer EXCEPT ![j] = "failed"]
    /\ UNCHANGED <<config, queueVars, worker, handling, history>>

--------------------------------------------------------------------------------
(***************************************************************************)
(* JobsProvider.register loads the modules and boot starts the enabled     *)
(* queues; both are over when a worker is up.                              *)
(***************************************************************************)
Enabled(w, q) == jobDefinitions[w] = {} \/ q \in jobDefinitions[w]
StartedQueues(w) == {q \in Registered(JobHandlers, deployment) : Enabled(w, q)}
Processes(w, j) == QueueOf[j] \in StartedQueues(w)
Available(w, j) == worker[w] = "up" /\ Processes(w, j)

\* process(getConcurrency(), ...): one job at a time.
Free(w, q) == \A j \in handling[w] : QueueOf[j] # q

ProcessHandler(w, j) ==
    /\ Available(w, j)
    /\ Free(w, QueueOf[j])
    /\ state[j] = "waiting"
    /\ state' = [state EXCEPT ![j] = "active"]
    /\ lock' = [lock EXCEPT ![j] = w]
    /\ handling' = [handling EXCEPT ![w] = @ \cup {j}]
    /\ UNCHANGED <<config, answer, attemptsMade, stalledCounter, worker, history>>

HandlerEnds(w, j) ==
    /\ j \in handling[w]
    /\ handling' = [handling EXCEPT ![w] = @ \ {j}]
    /\ UNCHANGED <<config, answer, stalledCounter, worker, history>>

\* A plausible bug: a result is recorded without the lock.
LockIgnored(w, j) == TRUE

HoldsLock(w, j) == lock[j] = w

HandlerResolves(w, j) ==
    /\ HandlerEnds(w, j)
    /\ IF HoldsLock(w, j)
       THEN /\ state' = [state EXCEPT ![j] = "completed"]
            /\ lock' = [lock EXCEPT ![j] = NoWorker]
       ELSE UNCHANGED <<state, lock>>
    /\ UNCHANGED attemptsMade

\* A plausible bug: the default job options are not passed to Bull, whose own
\* default is a single attempt.
SingleAttempt(j) == FALSE

\* defaultJobOptions: attempts and backoff.
AttemptsLeft(j) == attemptsMade[j] + 1 < Attempts

HandlerRejects(w, j) ==
    /\ HandlerEnds(w, j)
    /\ IF HoldsLock(w, j)
       THEN /\ state' = [state EXCEPT ![j] = IF AttemptsLeft(j) THEN "delayed" ELSE "failed"]
            /\ attemptsMade' = [attemptsMade EXCEPT ![j] = @ + 1]
            /\ lock' = [lock EXCEPT ![j] = NoWorker]
       ELSE UNCHANGED <<state, attemptsMade, lock>>

\* A worker of the queue notices that the backoff is over.
BackoffElapses(w, j) ==
    /\ Available(w, j)
    /\ state[j] = "delayed"
    /\ state' = [state EXCEPT ![j] = "waiting"]
    /\ UNCHANGED <<config, answer, lock, attemptsMade, stalledCounter, worker,
                   handling, history>>

--------------------------------------------------------------------------------
(***************************************************************************)
(* Locks and stalled jobs                                                  *)
(***************************************************************************)

\* A plausible bug: settings with a lockRenewTime beyond the lockDuration.
NeverRenewed(j) == FALSE

\* The settings leave it to Bull to renew the lock while a handler runs.
Renewed(j) == j \in handling[lock[j]]

\* The worker that held the lock is gone.
LockExpires(j) ==
    /\ lock[j] # NoWorker
    /\ ~Renewed(j)
    /\ lock' = [lock EXCEPT ![j] = NoWorker]
    /\ UNCHANGED <<config, answer, state, attemptsMade, stalledCounter, worker,
                   handling, history>>

\* The handler blocks the event loop for longer than the lock lasts.
LockOverrun(j) ==
    /\ lock[j] # NoWorker
    /\ j \in handling[lock[j]]
    /\ disturbances < MaxDisturbances
    /\ disturbances' = disturbances + 1
    /\ overrun' = overrun \cup {j}
    /\ lock' = [lock EXCEPT ![j] = NoWorker]
    /\ UNCHANGED <<config, answer, state, attemptsMade, stalledCounter, worker,
                   handling>>

\* The stalled check of a worker of the queue.
MoveStalledJob(w, j) ==
    /\ Available(w, j)
    /\ state[j] = "active"
    /\ lock[j] = NoWorker
    /\ IF stalledCounter[j] = MaxStalls
       THEN /\ state' = [state EXCEPT ![j] = "failed"]
            /\ UNCHANGED stalledCounter
       ELSE /\ state' = [state EXCEPT ![j] = "waiting"]
            /\ stalledCounter' = [stalledCounter EXCEPT ![j] = @ + 1]
    /\ UNCHANGED <<config, answer, lock, attemptsMade, worker, handling, history>>

--------------------------------------------------------------------------------
(***************************************************************************)
(* Shutdown and crash                                                      *)
(***************************************************************************)
Close(w) ==
    /\ worker[w] = "up"
    /\ worker' = [worker EXCEPT ![w] = "closing"]
    /\ UNCHANGED <<config, answer, queueVars, handling, history>>

\* A plausible bug: job.close() is not awaited.
CloseNotAwaited(w) == TRUE

\* Bull's close() waits for the jobs in progress.
JobsFinished(w) == handling[w] = {}

Closes(w) ==
    /\ worker[w] = "closing"
    /\ JobsFinished(w)
    /\ worker' = [worker EXCEPT ![w] = "down"]
    /\ handling' = [handling EXCEPT ![w] = {}]
    /\ UNCHANGED <<config, answer, queueVars, history>>

\* The process dies, or is forced to exit in the middle of a job.
Crash(w) ==
    /\ worker[w] # "down"
    /\ disturbances < MaxDisturbances
    /\ disturbances' = disturbances + 1
    /\ worker' = [worker EXCEPT ![w] = "down"]
    /\ handling' = [handling EXCEPT ![w] = {}]
    /\ UNCHANGED <<config, answer, queueVars, overrun>>

Restart(w) ==
    /\ worker[w] = "down"
    /\ worker' = [worker EXCEPT ![w] = "up"]
    /\ UNCHANGED <<config, answer, queueVars, handling, history>>

Next ==
    \/ \E j \in Jobs :
         \/ Dispatch(j) \/ Add(j) \/ DispatchReturns(j) \/ DispatchRejects(j)
         \/ LockExpires(j) \/ LockOverrun(j)
         \/ \E w \in Workers :
              \/ ProcessHandler(w, j) \/ HandlerResolves(w, j) \/ HandlerRejects(w, j)
              \/ BackoffElapses(w, j) \/ MoveStalledJob(w, j)
    \/ \E w \in Workers : Close(w) \/ Closes(w) \/ Crash(w) \/ Restart(w)

Spec == Init /\ [][Next]_vars

(***************************************************************************)
(* Handlers settle, Bull's timers run, processes that close come to an end *)
(* and are started again.  Nothing is assumed about how often processes    *)
(* are replaced: EveryJobSettles speaks of behaviours in which that stops. *)
(***************************************************************************)
Fairness ==
    /\ \A j \in Jobs :
         /\ WF_vars(LockExpires(j))
         /\ WF_vars(\E w \in Workers : MoveStalledJob(w, j))
         /\ WF_vars(\E w \in Workers : BackoffElapses(w, j))
         /\ WF_vars(\E w \in Workers : ProcessHandler(w, j))
         /\ \A w \in Workers : WF_vars(HandlerResolves(w, j) \/ HandlerRejects(w, j))
    /\ \A w \in Workers : WF_vars(Closes(w)) /\ WF_vars(Restart(w))

FairSpec == Spec /\ Fairness

--------------------------------------------------------------------------------
Settled(j) == state[j] \in {"completed", "failed"}

\* A job is locked only while it is active, and only what was added moves.
TypeOK ==
    /\ deployment \in Deployments
    /\ jobDefinitions \in [Workers -> DefinitionLists]
    /\ answer \in [Jobs -> {"none", "pending", "queued", "failed"}]
    /\ state \in [Jobs -> {"none", "waiting", "active", "delayed", "completed", "failed"}]
    /\ lock \in [Jobs -> Workers \cup {NoWorker}]
    /\ \A j \in Jobs : lock[j] # NoWorker => state[j] = "active"
    /\ attemptsMade \in [Jobs -> 0 .. Attempts]
    /\ stalledCounter \in [Jobs -> 0 .. MaxStalls]
    /\ worker \in [Workers -> {"up", "closing", "down"}]
    /\ handling \in [Workers -> SUBSET Jobs]
    /\ \A w \in Workers : worker[w] = "down" => handling[w] = {}
    /\ overrun \subseteq Jobs
    /\ disturbances \in 0 .. MaxDisturbances

\* Two processes work on a job at the same time only if its handler blocked
\* the event loop for longer than the lock lasts; crashes, shutdowns and
\* retries alone never lead to that.
OneHandlerAtATime ==
    \A j \in Jobs : \A v, w \in Workers :
      v # w /\ j \in handling[v] /\ j \in handling[w] => j \in overrun

\* A job is given up only when all its attempts failed, or when it stalled
\* once more than Bull allows, which takes as many disturbances: an orderly
\* shutdown, which waits for the handler, never costs a job anything.
FailedOnlyWhenSpent ==
    \A j \in Jobs :
      /\ stalledCounter[j] <= disturbances
      /\ state[j] = "failed" => attemptsMade[j] = Attempts \/ disturbances > MaxStalls

\* The outcome of a job is final: a handler that ends after its job was given
\* to another worker changes nothing.
OutcomesFinal == [][\A j \in Jobs : Settled(j) => state'[j] = state[j]]_vars

\* What the documentation asks of a worker that processes a queue: a pattern
\* names the handler, some file of it can be imported, and JOB_DEFINITIONS
\* does not exclude it.
Configured(w, q) ==
    /\ \E p \in JobHandlers : q \in p.handlers
    /\ \E tree \in deployment.trees : Imports(<<tree, q>>, deployment)
    /\ Enabled(w, q)

\* If the processes are not replaced for ever, every job that is in Redis, and
\* every job that JobsDemoController.dispatch has called "queued", completes or
\* is given up, provided some worker is configured for its queue.
EveryJobSettles ==
    <>[][\A w \in Workers : ~Close(w)]_vars =>
      \A j \in Jobs :
        (/\ state[j] # "none" \/ answer[j] = "queued"
         /\ \E w \in Workers : Configured(w, QueueOf[j])) ~> Settled(j)

\* README.md:185: "The provider expands the patterns and loads every matching
\* file in both TS (dev) and compiled JS builds", and README.md:214 has the
\* same patterns for JOB_HANDLERS: a job never waits in sight of a worker that
\* is configured for its queue but has not loaded the handler.
HandlersLoaded ==
    \A j \in Jobs : \A w \in Workers :
      state[j] = "waiting" /\ worker[w] = "up" /\ Configured(w, QueueOf[j])
        => Processes(w, j)
================================================================================
