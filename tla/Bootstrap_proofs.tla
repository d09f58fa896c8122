--------------------------- MODULE Bootstrap_proofs ----------------------------
(***************************************************************************)
(* What holds of Bootstrap for any number of providers and any set of      *)
(* signals.  OrderedLifecycle and TimerGuardsClosing are not inductive: a  *)
(* step from a state that only satisfies them may close the wrong          *)
(* provider, because they do not say where the cursor stands.  IndInv      *)
(* ties the cursor to the sets of providers that are done, phase by phase. *)
(***************************************************************************)
EXTENDS Bootstrap, TLAPS

CursorMarksProgress ==
    /\ phase = "registering" =>
         cursor > 0 /\ registered = 1 .. cursor - 1 /\ booted = {}
    /\ phase = "booting" =>
         cursor > 0 /\ registered = Providers /\ booted = 1 .. cursor - 1
    /\ phase \in {"running", "closing", "closed"} =>
         registered = Providers /\ booted = Providers
    /\ phase = "closing" => cursor > 0
    /\ phase \in {"registering", "booting"} => listeners = {}

ShutdownState ==
    /\ booted # {} => registered = Providers
    /\ shuttingDown => booted = Providers /\ settled = cursor + 1 .. NumProviders
    /\ ~shuttingDown => settled = {} /\ forceExitTimer = "unset"
    /\ Alive => (shuttingDown <=> phase \in {"closing", "closed"})

IndInv == TypeOK /\ CursorMarksProgress /\ ShutdownState /\ TimerGuardsClosing

\* IndInv holds before the first register().
LEMMA InitIndInv == Init => IndInv
<1> SUFFICES ASSUME Init
             PROVE  IndInv
  OBVIOUS
<1> USE DEF Init
<1>1. TypeOK
  <2>1. cursor \in 0 .. NumProviders
    BY NumProvidersAssumption
  <2>2. shuttingDown \in BOOLEAN
    OBVIOUS
  <2> QED BY <2>1, <2>2 DEF TypeOK
<1>2. CursorMarksProgress
  <2>1. 1 .. 1 - 1 = {}
    OBVIOUS
  <2> QED BY <2>1 DEF CursorMarksProgress
<1>3. ShutdownState /\ TimerGuardsClosing
  BY DEF ShutdownState, TimerGuardsClosing, Alive
<1> QED BY <1>1, <1>2, <1>3 DEF IndInv

\* Leaving the process changes nothing but phase and exit.
LEMMA ExitIndInv ==
  ASSUME IndInv, NEW how \in {"drained", "error", "killed"}, ExitWith(how)
  PROVE  IndInv'
  BY DEF ExitWith, IndInv, TypeOK, CursorMarksProgress, ShutdownState,
         TimerGuardsClosing, Alive, Providers, shutdownVars

\* Every step preserves IndInv.
LEMMA NextIndInv == IndInv /\ [Next]_vars => IndInv'
<1> SUFFICES ASSUME IndInv, [Next]_vars
             PROVE  IndInv'
  OBVIOUS
<1> USE NumProvidersAssumption
<1>1. CASE RegisterResolves
  <2> USE <1>1 DEF RegisterResolves, LoopAtLast, shutdownVars, IndInv
  <2>1. TypeOK'
    BY DEF TypeOK, Providers, CursorMarksProgress
  <2>2. /\ cursor \in Providers /\ booted = {} /\ listeners = {}
        /\ registered' = 1 .. cursor
    BY DEF TypeOK, Providers, CursorMarksProgress
  <2>3. CursorMarksProgress'
    <3>1. CASE ~LoopAtLast
      BY <2>2, <3>1 DEF CursorMarksProgress, Providers
    <3>2. CASE LoopAtLast
      <4>1. 1 .. 1 - 1 = {}
        OBVIOUS
      <4> QED
        BY <2>2, <3>2, <4>1 DEF CursorMarksProgress, Providers
    <3> QED BY <3>1, <3>2
  <2>4. ShutdownState' /\ TimerGuardsClosing'
    BY DEF TypeOK, ShutdownState, CursorMarksProgress, TimerGuardsClosing, Alive
  <2> QED BY <2>1, <2>3, <2>4
<1>2. CASE BootResolves
  <2> USE <1>2 DEF BootResolves, LoopAtLast, shutdownVars, IndInv
  <2>1. TypeOK'
    BY DEF TypeOK, Providers, CursorMarksProgress
  <2>2. CursorMarksProgress'
    BY DEF TypeOK, Providers, CursorMarksProgress
  <2>3. ShutdownState' /\ TimerGuardsClosing'
    BY DEF TypeOK, ShutdownState, CursorMarksProgress, TimerGuardsClosing, Alive
  <2> QED BY <2>1, <2>2, <2>3
<1>3. ASSUME NEW s \in Signals, HandleCloseStarts(s)
      PROVE  IndInv'
  <2> USE <1>3 DEF HandleCloseStarts, MayStartShutdown, FirstToClose, TimerSet,
                   IndInv
  <2>1. phase = "running"
    BY DEF TypeOK, CursorMarksProgress, ShutdownState, Alive
  <2>2. TypeOK'
    BY DEF TypeOK
  <2>3. CursorMarksProgress'
    BY <2>1 DEF CursorMarksProgress
  <2>4. settled' = cursor' + 1 .. NumProviders
    BY DEF ShutdownState
  <2>5. ShutdownState' /\ TimerGuardsClosing'
    BY <2>1, <2>4 DEF ShutdownState, CursorMarksProgress, TimerGuardsClosing, Alive
  <2> QED BY <2>2, <2>3, <2>5
<1>4. ASSUME NEW s \in Signals, HandleCloseIgnores(s)
      PROVE  IndInv'
  BY <1>4 DEF HandleCloseIgnores, IndInv, TypeOK, CursorMarksProgress,
              ShutdownState, TimerGuardsClosing, Alive, shutdownVars
<1>5. ASSUME NEW resolved \in BOOLEAN, CloseSettles(resolved)
      PROVE  IndInv'
  <2> USE <1>5 DEF CloseSettles, TimerCleared, IndInv
  <2>1. /\ shuttingDown /\ cursor \in Providers
        /\ settled = cursor + 1 .. NumProviders
    BY DEF TypeOK, CursorMarksProgress, ShutdownState, Alive, Providers
  <2>2. settled' = cursor' + 1 .. NumProviders
    BY <2>1 DEF Providers
  <2>3. TypeOK'
    BY <2>1 DEF TypeOK, Providers
  <2>4. CursorMarksProgress'
    BY <2>1 DEF CursorMarksProgress, Providers
  <2>5. ShutdownState' /\ TimerGuardsClosing'
    BY <2>1, <2>2
    DEF ShutdownState, CursorMarksProgress, TimerGuardsClosing, Alive
  <2> QED BY <2>3, <2>4, <2>5
<1>6. CASE BootstrapRejects
  BY <1>6, ExitIndInv DEF BootstrapRejects
<1>7. ASSUME NEW s \in Signals, DefaultDisposition(s)
      PROVE  IndInv'
  BY <1>7, ExitIndInv DEF DefaultDisposition
<1>8. CASE ForceExit
  BY <1>8, ExitIndInv DEF ForceExit
<1>9. CASE EventLoopEmpty
  BY <1>9, ExitIndInv DEF EventLoopEmpty
<1>10. CASE UNCHANGED vars
  BY <1>10 DEF vars, IndInv, TypeOK, CursorMarksProgress, ShutdownState,
               TimerGuardsClosing, Alive
<1> QED
  BY <1>1, <1>2, <1>3, <1>4, <1>5, <1>6, <1>7, <1>8, <1>9, <1>10
  DEF Next, Signal

\* IndInv holds in every reachable state.
THEOREM Invariance == Spec => []IndInv
<1> QED BY InitIndInv, NextIndInv, PTL DEF Spec

\* The variables keep the types the code gives them, for any number of
\* providers: in particular the cursor never leaves the list.
THEOREM TypeCorrect == Spec => []TypeOK
<1>1. IndInv => TypeOK
  BY DEF IndInv
<1> QED BY <1>1, Invariance, PTL

\* Providers are booted only after all registered, closed only after all
\* booted, and closed in the reverse order (index.ts:26-64).
THEOREM LifecycleOrdered == Spec => []OrderedLifecycle
<1>1. IndInv => OrderedLifecycle
  BY NumProvidersAssumption
  DEF IndInv, TypeOK, ShutdownState, OrderedLifecycle, Providers
<1> QED BY <1>1, Invariance, PTL

\* The force-exit timer of index.ts:51-66 stands exactly while the close loop
\* is unfinished.
THEOREM TimerCorrect == Spec => []TimerGuardsClosing
<1>1. IndInv => TimerGuardsClosing
  BY DEF IndInv
<1> QED BY <1>1, Invariance, PTL

\* A shutdown that began is never started again, and no close() that settled
\* is called a second time, whatever signals arrive (index.ts:43-46).
THEOREM ClosesOnce == Spec => ShutdownRunsOnce
<1> DEFINE OnceStep ==
      shuttingDown =>
        /\ shuttingDown'
        /\ cursor' <= cursor
        /\ settled' # settled => cursor \notin settled
<1>1. ASSUME IndInv, [Next]_vars
      PROVE  [OnceStep]_vars
  <2> SUFFICES ASSUME shuttingDown, Next
               PROVE  OnceStep
    BY <1>1
  <2>1. cursor \in Nat /\ settled = cursor + 1 .. NumProviders
    BY <1>1 DEF IndInv, TypeOK, ShutdownState
  <2>2. cursor \notin settled /\ cursor <= cursor
    BY <2>1, NumProvidersAssumption
  <2>3. UNCHANGED <<shuttingDown, cursor, settled>> => OnceStep
    BY <2>2
  <2>4. ~RegisterResolves /\ ~BootResolves
    BY <1>1 DEF RegisterResolves, BootResolves, IndInv, ShutdownState, Alive
  <2>5. ASSUME NEW s \in Signals, Signal(s)
        PROVE  UNCHANGED <<shuttingDown, cursor, settled>>
    BY <2>5
    DEF Signal, HandleCloseStarts, MayStartShutdown, HandleCloseIgnores,
        DefaultDisposition, ExitWith, shutdownVars
  <2>6. ASSUME NEW resolved \in BOOLEAN, CloseSettles(resolved)
        PROVE  OnceStep
    <3>1. cursor' <= cursor
      BY <2>1, <2>6 DEF CloseSettles
    <3>2. UNCHANGED shuttingDown
      BY <2>6 DEF CloseSettles
    <3> QED BY <2>2, <3>1, <3>2
  <2>7. CASE BootstrapRejects \/ ForceExit \/ EventLoopEmpty
    BY <2>3, <2>7
    DEF BootstrapRejects, ForceExit, EventLoopEmpty, ExitWith, shutdownVars
  <2> QED
    BY <2>3, <2>4, <2>5, <2>6, <2>7 DEF Next
<1> QED
  BY <1>1, Invariance, PTL DEF Spec, ShutdownRunsOnce
================================================================================
