------------------------------- MODULE Bootstrap -------------------------------
(***************************************************************************)
(* The life of the process as MainApplication.bootstrap() drives it        *)
(* (src/src/index.ts): every service provider is registered, then every    *)
(* one is booted, the signal handlers are installed, and the first handled *)
(* signal closes the providers one after the other, last one first, under  *)
(* a force-exit timer.                                                     *)
(*                                                                         *)
(* A step is what the process runs between two awaits.  What a provider    *)
(* does inside register(), boot() and close() is not visible here: an      *)
(* awaited call settles or never does.  Server.tla refines this module     *)
(* with the providers that Kernel.ts lists.                                *)
(***************************************************************************)
EXTENDS Naturals

CONSTANTS
    NumProviders,   \* length of Kernel.providers
    Signals         \* the signals the operating system can send: those that
                    \* bootstrap() listens to with process.once

ASSUME NumProvidersAssumption == NumProviders \in Nat \ {0}

VARIABLES
    phase,          \* where bootstrap() or handleClose() stands
    cursor,         \* index of the provider whose call is being awaited
    registered,     \* providers whose register() resolved
    booted,         \* providers whose boot() resolved
    settled,        \* providers whose close() resolved or rejected
    failed,         \* providers whose close() rejected
    listeners,      \* signals that still have their once-listener
    shuttingDown,   \* the flag of handleClose, and 'shutdownInProgress'
    forceExitTimer, \* the setTimeout of handleClose
    exit            \* how the process ended

vars == <<phase, cursor, registered, booted, settled, failed, listeners,
          shuttingDown, forceExitTimer, exit>>

shutdownVars == <<settled, failed, shuttingDown, forceExitTimer>>

Providers == 1 .. NumProviders

Alive == phase # "exited"

(***************************************************************************)
(* No provider has been touched and no handler is installed.               *)
(***************************************************************************)
Init ==
    /\ phase = "registering"
    /\ cursor = 1
    /\ registered = {} /\ booted = {}
    /\ settled = {} /\ failed = {}
    /\ listeners = {}
    /\ shuttingDown = FALSE
    /\ forceExitTimer = "unset"
    /\ exit = "none"

\* A plausible bug: a loop that runs one index too far.
LoopAtLastOffByOne == cursor = NumProviders + 1

\* The for-of loops of bootstrap() are at their last provider.
LoopAtLast == cursor = NumProviders

\* The awaited register() resolves: the next one is called, or, after the
\* last one, the first boot().
RegisterResolves ==
    /\ phase = "registering"
    /\ registered' = registered \cup {cursor}
    /\ \/ ~LoopAtLast /\ cursor' = cursor + 1 /\ UNCHANGED phase
       \/ LoopAtLast /\ cursor' = 1 /\ phase' = "booting"
    /\ UNCHANGED <<booted, listeners, exit, shutdownVars>>

\* The awaited boot() resolves.  After the last one the rest of the try
\* block runs without another await: the signal listeners appear at once.
BootResolves ==
    /\ phase = "booting"
    /\ booted' = booted \cup {cursor}
    /\ \/ /\ ~LoopAtLast
          /\ cursor' = cursor + 1
          /\ UNCHANGED <<phase, listeners>>
       \/ /\ LoopAtLast
          /\ phase' = "running"
          /\ listeners' = Signals
          /\ UNCHANGED cursor
    /\ UNCHANGED <<registered, exit, shutdownVars>>

ExitWith(how) ==
    /\ phase' = "exited"
    /\ exit' = how
    /\ UNCHANGED <<cursor, registered, booted, listeners, shutdownVars>>

\* A register() or boot() rejects: the catch block calls process.exit(1);
\* the providers that already run are not closed.
BootstrapRejects ==
    /\ phase \in {"registering", "booting"}
    /\ ExitWith("error")

--------------------------------------------------------------------------------
(***************************************************************************)
(* Signals.  A once-listener is gone after its first call; a signal with   *)
(* no listener has the default disposition, which terminates the process.  *)
(***************************************************************************)

\* A plausible bug: handleClose without its guard.
GuardDropped == Alive

\* The guard of handleClose.
MayStartShutdown == Alive /\ ~shuttingDown

\* A plausible bug: the reversed list is started one too far.
FirstToCloseOffByOne == IF NumProviders > 1 THEN NumProviders - 1 ELSE 1

\* Where the loop over closingProviders.reverse() starts.
FirstToClose == NumProviders

\* The setTimeout of handleClose.
TimerSet == "armed"

HandleCloseStarts(s) ==
    /\ s \in listeners
    /\ MayStartShutdown
    /\ listeners' = listeners \ {s}
    /\ shuttingDown' = TRUE
    /\ forceExitTimer' = TimerSet
    /\ phase' = "closing"
    /\ cursor' = FirstToClose
    /\ UNCHANGED <<registered, booted, settled, failed, exit>>

\* The early return of handleClose.
HandleCloseIgnores(s) ==
    /\ Alive
    /\ s \in listeners
    /\ shuttingDown
    /\ listeners' = listeners \ {s}
    /\ UNCHANGED <<phase, cursor, registered, booted, exit, shutdownVars>>

DefaultDisposition(s) ==
    /\ Alive
    /\ s \in Signals \ listeners
    /\ ExitWith("killed")

Signal(s) ==
    \/ HandleCloseStarts(s)
    \/ HandleCloseIgnores(s)
    \/ DefaultDisposition(s)

\* A plausible bug: clearTimeout inside the try block, so that a rejection of
\* the last close() skips it.
TimerClearedInTry(resolved) == IF resolved THEN "cleared" ELSE forceExitTimer

\* The clearTimeout behind the loop is reached however the last close() ended.
TimerCleared(resolved) == "cleared"

(***************************************************************************)
(* The awaited close() settles; a rejection is logged and the loop goes    *)
(* on.  After the first provider of the list the timer is cleared.         *)
(* Nothing emits 'process_closed', so nothing calls process.exit(0).       *)
(***************************************************************************)
CloseSettles(resolved) ==
    /\ phase = "closing"
    /\ settled' = settled \cup {cursor}
    /\ failed' = IF resolved THEN failed ELSE failed \cup {cursor}
    /\ cursor' = cursor - 1
    /\ \/ cursor > 1 /\ UNCHANGED <<phase, forceExitTimer>>
       \/ cursor = 1 /\ phase' = "closed"
          /\ forceExitTimer' = TimerCleared(resolved)
    /\ UNCHANGED <<registered, booted, listeners, shuttingDown, exit>>

\* gracePeriodInMs elapsed before clearTimeout.
ForceExit ==
    /\ Alive
    /\ forceExitTimer = "armed"
    /\ ExitWith("error")

\* Nothing keeps the event loop alive any more (the timer is unref'ed).
EventLoopEmpty ==
    /\ Alive
    /\ ExitWith("drained")

Next ==
    \/ RegisterResolves
    \/ BootResolves
    \/ BootstrapRejects
    \/ \E s \in Signals : Signal(s)
    \/ \E resolved \in BOOLEAN : CloseSettles(resolved)
    \/ ForceExit
    \/ EventLoopEmpty

Spec == Init /\ [][Next]_vars

(***************************************************************************)
(* A timer that is armed and not cleared fires: the event loop is never    *)
(* blocked for ever.  No close() is assumed to settle.                     *)
(***************************************************************************)
FairSpec == Spec /\ WF_vars(ForceExit)

--------------------------------------------------------------------------------
TypeOK ==
    /\ phase \in {"registering", "booting", "running", "closing", "closed",
                  "exited"}
    /\ cursor \in 0 .. NumProviders
    /\ registered \subseteq Providers
    /\ booted \subseteq Providers
    /\ settled \subseteq Providers
    /\ failed \subseteq settled
    /\ listeners \subseteq Signals
    /\ shuttingDown \in BOOLEAN
    /\ forceExitTimer \in {"unset", "armed", "cleared"}
    /\ exit \in {"none", "drained", "error", "killed"}

\* The three hand-over-hand rules of the lifecycle: a provider is booted only
\* in a process that registered all of them, closed only in one that booted
\* all of them, and closed only after every provider listed behind it has
\* settled, whatever signals arrive and whichever calls fail.
OrderedLifecycle ==
    /\ booted # {} => registered = Providers
    /\ shuttingDown => booted = Providers
    /\ \A p \in settled : shuttingDown /\ p + 1 .. NumProviders \subseteq settled

\* The force-exit timer stands exactly as long as the close loop is unfinished:
\* no hang without a timer, and no process that closed everything is shot by
\* a timer it forgot.
TimerGuardsClosing ==
    Alive => (forceExitTimer = "armed" <=> phase = "closing")

\* Once a shutdown has begun it is never started again: whatever signals
\* arrive, the loop only moves towards the first provider, and a close() call
\* that settled is not repeated.
ShutdownRunsOnce ==
    [][shuttingDown =>
         /\ shuttingDown'
         /\ cursor' <= cursor
         /\ settled' # settled => cursor \notin settled]_vars

\* What handleClose says of a signal that comes during a shutdown:
\* "Shutdown already in progress. Ignoring ..." (index.ts:44).
SignalDuringShutdownIgnored ==
    [][phase = "closing" => exit' # "killed"]_vars

================================================================================
