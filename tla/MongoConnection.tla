----------------------------- MODULE MongoConnection ---------------------------
(***************************************************************************)
(* mongoose.connection with the listeners that MongodbProvider.boot()      *)
(* installs, as a record and what each event makes of it.                  *)
(*                                                                         *)
(* Mongoose is external.  Its connection passes through the states below   *)
(* and emits an event for each; connect() does nothing if it is connecting *)
(* or connected, and otherwise replaces the client by a new one, whether   *)
(* or not the old one was closed; close() called twice returns at once,    *)
(* and while connecting it is put off until 'open'.  The client of a       *)
(* connection that was open finds a server that comes back by itself.      *)
(***************************************************************************)
EXTENDS Naturals

Connection ==
    [readyState : {"disconnected", "connecting", "connected", "disconnecting"},
     client : {"none", "connecting", "open", "closed"},
     abandoned : BOOLEAN,    \* an open client was replaced, nobody closes it
     closeCalled : BOOLEAN,  \* since the last connect()
     closing : BOOLEAN,      \* the client's close() has not called back
     closeOnOpen : BOOLEAN,  \* a close() is put off until 'open'
     isClosed : BOOLEAN,     \* MongodbProvider.isClosed
     waits : Nat,            \* 'disconnected' handlers that await wait(2000)
     failed : BOOLEAN,       \* history: an attempt to connect has failed
     overlapped : BOOLEAN]   \* history: one began while the old client closed

\* MongodbProvider.register: nothing has happened to mongoose.connection yet.
NotConnected ==
    [readyState |-> "disconnected", client |-> "none", abandoned |-> FALSE,
     closeCalled |-> FALSE, closing |-> FALSE, closeOnOpen |-> FALSE,
     isClosed |-> FALSE, waits |-> 0, failed |-> FALSE,
     overlapped |-> FALSE]

\* connection.close(), as 'error' and HttpProvider.close call it.
ReturnsAtOnce(m) == m.readyState = "disconnected" /\ m.closeCalled

Close(m) ==
    LET called == [m EXCEPT !.closeCalled = TRUE]
        ends(state) == [called EXCEPT !.readyState = state, !.closing = TRUE,
                                      !.client = IF @ = "none" THEN @ ELSE "closed"]
    IN  CASE m.readyState = "connecting"    -> [called EXCEPT !.closeOnOpen = TRUE]
          [] m.readyState = "connected"     -> ends("disconnecting")
          [] m.readyState = "disconnecting" -> called
          [] m.readyState = "disconnected"  -> IF m.closeCalled THEN m
                                               ELSE ends("disconnected")

\* The handler of 'disconnected' begins to wait.
Disconnected(m) == [m EXCEPT !.readyState = "disconnected", !.waits = @ + 1]

\* The client has closed: 'disconnected', unless it was, and 'close', whose
\* handler sets isClosed.
Closed(m) ==
    LET n == IF m.readyState = "disconnected" THEN m ELSE Disconnected(m)
    IN  [n EXCEPT !.closing = FALSE, !.isClosed = TRUE]

TryConnect(m) ==
    IF m.readyState \in {"connecting", "connected"} THEN m
    ELSE [m EXCEPT !.readyState = "connecting", !.closeCalled = FALSE,
                   !.abandoned = @ \/ m.client = "open", !.client = "connecting",
                   !.overlapped = @ \/ m.closing]

\* 'open' carries out a close() that was put off.
Opened(m) ==
    IF m.closeOnOpen THEN Close([m EXCEPT !.closeOnOpen = FALSE]) ELSE m

\* connect() resolves, after 'connected' and 'open'.
Connected(m) == Opened([m EXCEPT !.readyState = "connected", !.client = "open"])

\* connect() rejects: 'disconnected', then 'error', whose handler disconnects.
ConnectFailed(m) ==
    Close(Disconnected([m EXCEPT !.failed = TRUE, !.client = "closed"]))

\* A plausible bug: isClosed is tested before wait(2000).
TestedBeforeWait(m) == TRUE

\* isClosed is tested after wait(2000), in which the connection may have been
\* closed.
StillWanted(m) == ~m.isClosed

\* wait(2000) has resolved.
WaitOver(m) ==
    LET n == [m EXCEPT !.waits = @ - 1]
    IN  IF StillWanted(n) THEN TryConnect(n) ELSE n
================================================================================
