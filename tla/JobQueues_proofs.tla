--------------------------- MODULE JobQueues_proofs ----------------------------
(***************************************************************************)
(* What holds of any number of worker processes, queues and jobs, whatever *)
(* is loaded where.  IndInv says of each job who may work on it: only the  *)
(* holder of its lock, unless the lock was overrun.  A stalled job is in   *)
(* debt to a disturbance: the one that took its handler or its lock away,  *)
(* which is not counted yet.                                               *)
(***************************************************************************)
EXTENDS JobQueues, TLAPS

\* Active without a handler under the lock: a stall that is not counted yet.
Stalling(j) ==
    state[j] = "active" /\ (lock[j] = NoWorker \/ j \notin handling[lock[j]])

\* Whoever handles a job holds its lock, unless the lock was overrun.
UnderLock(j) ==
    \A w \in Workers : j \in handling[w] /\ j \notin overrun => lock[j] = w

\* Each stall takes a disturbance of its own.
StallsPaid(j) ==
    /\ stalledCounter[j] <= disturbances
    /\ Stalling(j) => stalledCounter[j] < disturbances

\* A job that is not settled has an attempt left.
AttemptsSpent(j) ==
    /\ ~Settled(j) => attemptsMade[j] < Attempts
    /\ state[j] = "failed" => attemptsMade[j] = Attempts \/ disturbances > MaxStalls

JobInv(j) == UnderLock(j) /\ StallsPaid(j) /\ AttemptsSpent(j)

IndInv == TypeOK /\ \A j \in Jobs : JobInv(j)

--------------------------------------------------------------------------------
\* IndInv holds before the first job.
LEMMA InitIndInv == Init => IndInv
<1> SUFFICES ASSUME Init
             PROVE  IndInv
  OBVIOUS
<1> USE JobAssumption DEF Init
<1>1. TypeOK
  BY DEF TypeOK
<1>2. ASSUME NEW j \in Jobs
      PROVE  JobInv(j)
  BY DEF JobInv, UnderLock, StallsPaid, Stalling, AttemptsSpent, Settled
<1> QED BY <1>1, <1>2 DEF IndInv

\* What a step about job j may do to it, with the other jobs left alone.
OnlyJob(j) ==
    /\ \A i \in Jobs \ {j} :
         /\ state'[i] = state[i] /\ lock'[i] = lock[i]
         /\ attemptsMade'[i] = attemptsMade[i]
         /\ stalledCounter'[i] = stalledCounter[i]
         /\ \A w \in Workers : i \in handling'[w] <=> i \in handling[w]
    /\ overrun' \in {overrun, overrun \cup {j}}
    /\ disturbances' >= disturbances

\* The steps about a job.
JobStep(j) ==
    \/ Dispatch(j) \/ Add(j) \/ DispatchReturns(j) \/ DispatchRejects(j)
    \/ LockExpires(j) \/ LockOverrun(j)
    \/ \E w \in Workers :
         \/ ProcessHandler(w, j) \/ HandlerResolves(w, j) \/ HandlerRejects(w, j)
         \/ BackoffElapses(w, j) \/ MoveStalledJob(w, j)

\* A step about one job is none about another one.
LEMMA JobsApart ==
  ASSUME TypeOK, NEW j \in Jobs, JobStep(j)
  PROVE  OnlyJob(j)
<1> USE DEF queueVars, history
<1>0. disturbances \in Nat
  BY JobAssumption DEF TypeOK
<1>1. CASE Dispatch(j) \/ Add(j) \/ DispatchReturns(j) \/ DispatchRejects(j)
  BY <1>0, <1>1 DEF TypeOK, OnlyJob, Dispatch, Add, DispatchReturns, DispatchRejects
<1>2. CASE LockExpires(j) \/ LockOverrun(j)
  BY <1>0, <1>2 DEF TypeOK, OnlyJob, LockExpires, LockOverrun
<1>3. ASSUME NEW w \in Workers, ProcessHandler(w, j)
      PROVE  OnlyJob(j)
  BY <1>0, <1>3 DEF TypeOK, OnlyJob, ProcessHandler
<1>4. ASSUME NEW w \in Workers, HandlerResolves(w, j) \/ HandlerRejects(w, j)
      PROVE  OnlyJob(j)
  BY <1>0, <1>4 DEF TypeOK, OnlyJob, HandlerResolves, HandlerRejects, HandlerEnds
<1>5. ASSUME NEW w \in Workers, BackoffElapses(w, j) \/ MoveStalledJob(w, j)
      PROVE  OnlyJob(j)
  BY <1>0, <1>5 DEF TypeOK, OnlyJob, BackoffElapses, MoveStalledJob
<1> QED BY <1>1, <1>2, <1>3, <1>4, <1>5 DEF JobStep

\* The other jobs keep what is known of them.
LEMMA OtherJobs ==
  ASSUME TypeOK, TypeOK', NEW j \in Jobs, OnlyJob(j), NEW i \in Jobs \ {j}, JobInv(i)
  PROVE  JobInv(i)'
<1>1. /\ stalledCounter[i] \in Nat /\ disturbances \in Nat /\ disturbances' \in Nat
      /\ MaxStalls \in Nat /\ disturbances' >= disturbances
  BY JobAssumption DEF TypeOK, OnlyJob
<1>2. UnderLock(i)'
  BY DEF OnlyJob, JobInv, UnderLock
<1>3. StallsPaid(i)'
  <2>1. lock[i] \in Workers \cup {NoWorker}
    BY DEF TypeOK
  <2>2. Stalling(i)' => Stalling(i)
    BY <2>1 DEF OnlyJob, Stalling
  <2> QED BY <1>1, <2>2 DEF OnlyJob, JobInv, StallsPaid
<1>4. AttemptsSpent(i)'
  BY <1>1 DEF OnlyJob, JobInv, AttemptsSpent, Settled
<1> QED BY <1>2, <1>3, <1>4 DEF JobInv

\* The steps of a process: all of them leave the queues alone, and take no job
\* from a process that goes on, except a crash, which is a disturbance.
WorkerStep(w) == Close(w) \/ Closes(w) \/ Crash(w) \/ Restart(w)

--------------------------------------------------------------------------------
\* Every step keeps the types: attempts and stalls stay within their bounds.
LEMMA TypesStep ==
  ASSUME IndInv, [Next]_vars
  PROVE  TypeOK'
<1> USE JobAssumption DEF config, queueVars, history
<1>0. TypeOK
  BY DEF IndInv
<1>1. ASSUME NEW j \in Jobs,
             Dispatch(j) \/ Add(j) \/ DispatchReturns(j) \/ DispatchRejects(j)
      PROVE  TypeOK'
  BY <1>0, <1>1 DEF TypeOK, Dispatch, Add, DispatchReturns, DispatchRejects
<1>2. ASSUME NEW j \in Jobs, LockExpires(j)
      PROVE  TypeOK'
  BY <1>0, <1>2 DEF TypeOK, LockExpires
<1>3. ASSUME NEW j \in Jobs, LockOverrun(j)
      PROVE  TypeOK'
  <2>1. disturbances' \in 0 .. MaxDisturbances
    BY <1>0, <1>3 DEF TypeOK, LockOverrun
  <2> QED BY <1>0, <1>3, <2>1 DEF TypeOK, LockOverrun
<1>4. ASSUME NEW j \in Jobs, NEW w \in Workers, ProcessHandler(w, j)
      PROVE  TypeOK'
  <2>1. worker[w] = "up"
    BY <1>4 DEF ProcessHandler, Available
  <2>2. handling' \in [Workers -> SUBSET Jobs]
        /\ \A v \in Workers : v # w => handling'[v] = handling[v]
    BY <1>0, <1>4 DEF TypeOK, ProcessHandler
  <2>3. /\ state' \in [Jobs -> {"none", "waiting", "active", "delayed", "completed", "failed"}]
        /\ lock' \in [Jobs -> Workers \cup {NoWorker}]
        /\ \A i \in Jobs : lock'[i] # NoWorker => state'[i] = "active"
    BY <1>0, <1>4 DEF TypeOK, ProcessHandler
  <2> QED BY <1>0, <1>4, <2>1, <2>2, <2>3 DEF TypeOK, ProcessHandler
<1>5. ASSUME NEW j \in Jobs, NEW w \in Workers, HandlerResolves(w, j) \/ HandlerRejects(w, j)
      PROVE  TypeOK'
  <2>1. /\ handling' \in [Workers -> SUBSET Jobs]
        /\ \A v \in Workers : handling'[v] \subseteq handling[v]
        /\ UNCHANGED <<config, answer, stalledCounter, worker, history>>
    BY <1>0, <1>5 DEF TypeOK, HandlerResolves, HandlerRejects, HandlerEnds
  <2>2. /\ state' \in [Jobs -> {"none", "waiting", "active", "delayed", "completed", "failed"}]
        /\ lock' \in [Jobs -> Workers \cup {NoWorker}]
        /\ \A i \in Jobs : lock'[i] # NoWorker => state'[i] = "active"
    BY <1>0, <1>5 DEF TypeOK, HandlerResolves, HandlerRejects
  <2>3. attemptsMade' \in [Jobs -> 0 .. Attempts]
    <3>1. CASE UNCHANGED attemptsMade
      BY <1>0, <3>1 DEF TypeOK
    <3>2. CASE HoldsLock(w, j) /\ attemptsMade' = [attemptsMade EXCEPT ![j] = @ + 1]
      <4>1. state[j] = "active"
        BY <1>0, <3>2 DEF TypeOK, HoldsLock
      <4>2. attemptsMade[j] < Attempts
        BY <4>1 DEF IndInv, JobInv, AttemptsSpent, Settled
      <4>3. attemptsMade[j] + 1 \in 0 .. Attempts
        BY <1>0, <4>2 DEF TypeOK
      <4> QED BY <1>0, <3>2, <4>3 DEF TypeOK
    <3> QED BY <1>5, <3>1, <3>2 DEF HandlerResolves, HandlerRejects
  <2> QED BY <1>0, <2>1, <2>2, <2>3 DEF TypeOK
<1>6. ASSUME NEW j \in Jobs, NEW w \in Workers, BackoffElapses(w, j)
      PROVE  TypeOK'
  BY <1>0, <1>6 DEF TypeOK, BackoffElapses
<1>7. ASSUME NEW j \in Jobs, NEW w \in Workers, MoveStalledJob(w, j)
      PROVE  TypeOK'
  <2>1. stalledCounter' \in [Jobs -> 0 .. MaxStalls]
    BY <1>0, <1>7 DEF TypeOK, MoveStalledJob
  <2>2. /\ state' \in [Jobs -> {"none", "waiting", "active", "delayed", "completed", "failed"}]
        /\ \A i \in Jobs : lock'[i] # NoWorker => state'[i] = "active"
    BY <1>0, <1>7 DEF TypeOK, MoveStalledJob
  <2> QED BY <1>0, <1>7, <2>1, <2>2 DEF TypeOK, MoveStalledJob
<1>8. ASSUME NEW w \in Workers, WorkerStep(w)
      PROVE  TypeOK'
  <2>1. disturbances' \in 0 .. MaxDisturbances
    BY <1>0, <1>8 DEF TypeOK, WorkerStep, Close, Closes, Crash, Restart
  <2>2. /\ worker' \in [Workers -> {"up", "closing", "down"}]
        /\ handling' \in [Workers -> SUBSET Jobs]
        /\ \A v \in Workers : worker'[v] = "down" => handling'[v] = {}
    BY <1>0, <1>8 DEF TypeOK, WorkerStep, Close, Closes, Crash, Restart
  <2> QED BY <1>0, <1>8, <2>1, <2>2 DEF TypeOK, WorkerStep, Close, Closes, Crash, Restart
<1>9. CASE UNCHANGED vars
  BY <1>0, <1>9 DEF TypeOK, vars
<1> QED
  BY <1>1, <1>2, <1>3, <1>4, <1>5, <1>6, <1>7, <1>8, <1>9 DEF Next, WorkerStep

\* A process that closes, crashes or starts: what it takes from a job is paid
\* for by a disturbance.
LEMMA WorkerJobs ==
  ASSUME TypeOK, TypeOK', NEW w \in Workers, WorkerStep(w), NEW j \in Jobs, JobInv(j)
  PROVE  JobInv(j)'
<1> USE DEF WorkerStep, Close, Closes, Crash, Restart, queueVars, history
<1>1. /\ stalledCounter[j] \in Nat /\ disturbances \in Nat /\ disturbances' \in Nat
      /\ MaxStalls \in Nat /\ lock[j] \in Workers \cup {NoWorker}
  BY JobAssumption DEF TypeOK
<1>2. /\ UNCHANGED <<state, lock, attemptsMade, stalledCounter, overrun>>
      /\ \A v \in Workers : handling'[v] \subseteq handling[v]
      /\ \/ disturbances' = disturbances
            /\ \A v \in Workers : handling'[v] = handling[v]
         \/ disturbances' = disturbances + 1
  <2>1. CASE Close(w) \/ Restart(w)
    BY <2>1
  <2>2. CASE Closes(w)
    <3>1. \A v \in Workers : handling'[v] = handling[v]
      BY <2>2 DEF TypeOK, JobsFinished
    <3> QED BY <2>2, <3>1
  <2>3. CASE Crash(w)
    <3>1. \A v \in Workers : handling'[v] \subseteq handling[v]
      BY <2>3 DEF TypeOK
    <3> QED BY <2>3, <3>1
  <2> QED BY <2>1, <2>2, <2>3
<1>3. UnderLock(j)'
  BY <1>2 DEF JobInv, UnderLock
<1>4. StallsPaid(j)'
  BY <1>1, <1>2 DEF JobInv, StallsPaid, Stalling
<1>5. AttemptsSpent(j)'
  BY <1>1, <1>2 DEF JobInv, AttemptsSpent, Settled
<1> QED BY <1>3, <1>4, <1>5 DEF JobInv

\* What a step about a job does to it.
LEMMA SameJob ==
  ASSUME TypeOK, TypeOK', NEW j \in Jobs, JobInv(j), JobStep(j)
  PROVE  JobInv(j)'
<1> USE DEF queueVars, history
<1>0. /\ stalledCounter[j] \in 0 .. MaxStalls /\ disturbances \in Nat
      /\ attemptsMade[j] \in 0 .. Attempts
      /\ Attempts \in Nat /\ MaxStalls \in Nat /\ NoWorker \notin Workers
      /\ lock[j] \in Workers \cup {NoWorker} /\ (lock[j] # NoWorker => state[j] = "active")
  BY JobAssumption DEF TypeOK
<1>1. CASE Dispatch(j) \/ DispatchReturns(j) \/ DispatchRejects(j)
  BY <1>1 DEF Dispatch, DispatchReturns, DispatchRejects, JobInv, UnderLock,
              StallsPaid, Stalling, AttemptsSpent, Settled
<1>2. CASE Add(j) \/ \E w \in Workers : BackoffElapses(w, j)
  <2>1. /\ state[j] \in {"none", "delayed"} /\ state'[j] = "waiting"
        /\ UNCHANGED <<lock, attemptsMade, stalledCounter, handling, overrun, disturbances>>
    BY <1>2 DEF TypeOK, Add, BackoffElapses
  <2> QED BY <2>1 DEF JobInv, UnderLock, StallsPaid, Stalling, AttemptsSpent, Settled
<1>3. CASE LockExpires(j)
  <2>1. /\ lock[j] # NoWorker /\ j \notin handling[lock[j]] /\ lock'[j] = NoWorker
        /\ UNCHANGED <<state, attemptsMade, stalledCounter, handling, overrun, disturbances>>
    BY <1>3 DEF TypeOK, LockExpires, Renewed
  <2>2. UnderLock(j)'
    BY <2>1 DEF JobInv, UnderLock
  <2>3. StallsPaid(j)'
    BY <1>0, <2>1 DEF JobInv, StallsPaid, Stalling
  <2> QED BY <2>1, <2>2, <2>3 DEF JobInv, AttemptsSpent, Settled
<1>4. CASE LockOverrun(j)
  <2>1. /\ lock[j] # NoWorker /\ j \in handling[lock[j]] /\ lock'[j] = NoWorker
        /\ j \in overrun' /\ disturbances' = disturbances + 1
        /\ UNCHANGED <<state, attemptsMade, stalledCounter, handling>>
    BY <1>4 DEF TypeOK, LockOverrun
  <2>2. UnderLock(j)'
    BY <2>1 DEF UnderLock
  <2>3. StallsPaid(j)'
    BY <1>0, <2>1 DEF JobInv, StallsPaid
  <2> QED BY <1>0, <2>1, <2>2, <2>3 DEF JobInv, AttemptsSpent, Settled
<1>5. ASSUME NEW w \in Workers, ProcessHandler(w, j)
      PROVE  JobInv(j)'
  <2>1. /\ state[j] = "waiting" /\ state'[j] = "active" /\ lock'[j] = w
        /\ j \in handling'[w] /\ \A v \in Workers \ {w} : handling'[v] = handling[v]
        /\ UNCHANGED <<attemptsMade, stalledCounter, overrun, disturbances>>
    BY <1>5 DEF TypeOK, ProcessHandler
  <2>2. lock[j] = NoWorker
    BY <1>0, <2>1
  <2>3. UnderLock(j)'
    BY <1>0, <2>1, <2>2 DEF JobInv, UnderLock
  <2>4. StallsPaid(j)'
    BY <1>0, <2>1 DEF JobInv, StallsPaid, Stalling
  <2> QED BY <2>1, <2>3, <2>4 DEF JobInv, AttemptsSpent, Settled
<1>6. ASSUME NEW w \in Workers, HandlerResolves(w, j) \/ HandlerRejects(w, j)
      PROVE  JobInv(j)'
  <2>1. /\ j \in handling[w] /\ j \notin handling'[w]
        /\ \A v \in Workers \ {w} : handling'[v] = handling[v]
        /\ UNCHANGED <<stalledCounter, overrun, disturbances>>
    BY <1>6 DEF TypeOK, HandlerResolves, HandlerRejects, HandlerEnds
  <2>2. CASE lock[j] = w
    <3>1. /\ lock'[j] = NoWorker /\ state'[j] \in {"completed", "delayed", "failed"}
          /\ \/ state'[j] = "completed"
             \/ state'[j] = "delayed" /\ attemptsMade'[j] = attemptsMade[j] + 1
                  /\ AttemptsLeft(j)
             \/ state'[j] = "failed" /\ attemptsMade'[j] = attemptsMade[j] + 1
                  /\ ~AttemptsLeft(j)
      BY <1>6, <2>2 DEF TypeOK, HandlerResolves, HandlerRejects, HoldsLock
    <3>2. state[j] = "active"
      BY <1>0, <2>2
    <3>3. UnderLock(j)'
      BY <1>0, <2>1, <2>2, <3>1 DEF JobInv, UnderLock
    <3>4. StallsPaid(j)'
      BY <2>1, <3>1 DEF JobInv, StallsPaid, Stalling
    <3>5. AttemptsSpent(j)'
      BY <1>0, <3>1, <3>2 DEF JobInv, AttemptsSpent, Settled, AttemptsLeft
    <3> QED BY <3>3, <3>4, <3>5 DEF JobInv
  <2>3. CASE lock[j] # w
    <3>1. UNCHANGED <<state, lock, attemptsMade>>
      BY <1>6, <2>3 DEF HandlerResolves, HandlerRejects, HoldsLock
    <3>2. UnderLock(j)'
      BY <2>1, <3>1 DEF JobInv, UnderLock
    <3>3. StallsPaid(j)'
      BY <1>0, <2>1, <2>3, <3>1 DEF JobInv, StallsPaid, Stalling
    <3> QED BY <2>1, <3>1, <3>2, <3>3 DEF JobInv, AttemptsSpent, Settled
  <2> QED BY <2>2, <2>3
<1>7. ASSUME NEW w \in Workers, MoveStalledJob(w, j)
      PROVE  JobInv(j)'
  <2>1. /\ state[j] = "active" /\ lock[j] = NoWorker
        /\ UNCHANGED <<lock, attemptsMade, handling, overrun, disturbances>>
        /\ \/ stalledCounter[j] = MaxStalls /\ state'[j] = "failed"
              /\ stalledCounter'[j] = stalledCounter[j]
           \/ state'[j] = "waiting" /\ stalledCounter'[j] = stalledCounter[j] + 1
    BY <1>7 DEF TypeOK, MoveStalledJob
  <2>2. stalledCounter[j] < disturbances
    BY <2>1 DEF JobInv, StallsPaid, Stalling
  <2>3. StallsPaid(j)'
    BY <1>0, <2>1, <2>2 DEF StallsPaid, Stalling
  <2>4. AttemptsSpent(j)'
    BY <1>0, <2>1, <2>2 DEF JobInv, AttemptsSpent, Settled
  <2> QED BY <2>1, <2>3, <2>4 DEF JobInv, UnderLock
<1> QED BY <1>1, <1>2, <1>3, <1>4, <1>5, <1>6, <1>7 DEF JobStep

\* Every step preserves IndInv.
LEMMA NextIndInv == IndInv /\ [Next]_vars => IndInv'
<1> SUFFICES ASSUME IndInv, [Next]_vars
             PROVE  IndInv'
  OBVIOUS
<1>1. TypeOK /\ TypeOK'
  BY TypesStep DEF IndInv
<1>2. ASSUME NEW j \in Jobs
      PROVE  JobInv(j)'
  <2>1. CASE JobStep(j)
    BY <1>1, <2>1, SameJob DEF IndInv
  <2>2. ASSUME NEW i \in Jobs \ {j}, JobStep(i)
        PROVE  JobInv(j)'
    <3>1. OnlyJob(i)
      BY <1>1, <2>2, JobsApart
    <3> QED BY <1>1, <2>2, <3>1, OtherJobs DEF IndInv
  <2>3. CASE \E w \in Workers : WorkerStep(w)
    BY <1>1, <2>3, WorkerJobs DEF IndInv
  <2>4. CASE UNCHANGED vars
    BY <2>4 DEF IndInv, vars, queueVars, history, JobInv, UnderLock, StallsPaid,
                Stalling, AttemptsSpent, Settled
  <2> QED BY <2>1, <2>2, <2>3, <2>4 DEF Next, JobStep, WorkerStep
<1> QED BY <1>1, <1>2 DEF IndInv

\* IndInv holds in every reachable state.
THEOREM Invariance == Spec => []IndInv
<1> QED BY InitIndInv, NextIndInv, PTL DEF Spec

\* The variables keep their types: a job is locked only while it is active, and
\* attempts and stalls stay within their bounds.
THEOREM TypeCorrect == Spec => []TypeOK
<1>1. IndInv => TypeOK
  BY DEF IndInv
<1> QED BY <1>1, Invariance, PTL

\* However many workers, retries, restarts and crashes: two processes work on a
\* job at once only after its handler blocked the event loop (Queueable.ts).
THEOREM OneAtATime == Spec => []OneHandlerAtATime
<1>1. IndInv => OneHandlerAtATime
  BY DEF IndInv, JobInv, UnderLock, OneHandlerAtATime
<1> QED BY <1>1, Invariance, PTL

\* A job fails after all its attempts, or after more disturbances than Bull
\* allows stalls; shutdowns cost it nothing.
THEOREM FailsWhenSpent == Spec => []FailedOnlyWhenSpent
<1>1. IndInv => FailedOnlyWhenSpent
  BY DEF IndInv, JobInv, StallsPaid, AttemptsSpent, FailedOnlyWhenSpent
<1> QED BY <1>1, Invariance, PTL

\* No late handler changes the outcome of its job.
THEOREM OutcomesStay == Spec => OutcomesFinal
<1>1. ASSUME IndInv, [Next]_vars
      PROVE  [\A j \in Jobs : Settled(j) => state'[j] = state[j]]_vars
  <2> SUFFICES ASSUME Next, NEW j \in Jobs, Settled(j)
               PROVE  state'[j] = state[j]
    BY <1>1
  <2>1. TypeOK /\ lock[j] = NoWorker /\ NoWorker \notin Workers
    BY <1>1, JobAssumption DEF IndInv, TypeOK, Settled
  <2>2. CASE JobStep(j)
    <3>1. \A w \in Workers : ~HoldsLock(w, j)
      BY <2>1 DEF HoldsLock
    <3> QED
      BY <2>2, <3>1 DEF JobStep, Settled, Dispatch, Add, DispatchReturns,
         DispatchRejects, LockExpires, LockOverrun, ProcessHandler, HandlerResolves,
         HandlerRejects, BackoffElapses, MoveStalledJob, queueVars
  <2>3. ASSUME NEW i \in Jobs \ {j}, JobStep(i)
        PROVE  state'[j] = state[j]
    BY <2>1, <2>3, JobsApart DEF OnlyJob
  <2>4. CASE \E w \in Workers : WorkerStep(w)
    BY <2>4 DEF WorkerStep, Close, Closes, Crash, Restart, queueVars
  <2> QED BY <2>2, <2>3, <2>4 DEF Next, JobStep, WorkerStep
<1> QED BY <1>1, Invariance, PTL DEF Spec, OutcomesFinal
================================================================================
