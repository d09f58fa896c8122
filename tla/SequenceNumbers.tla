---------------------------- MODULE SequenceNumbers ----------------------------
(***************************************************************************)
(* Numbers drawn from the sequences collection: SequenceRepository's       *)
(* increment, alone or in the callback of withTransaction, by any number   *)
(* of concurrent callers.                                                  *)
(*                                                                         *)
(* MongoDB is external: an update is atomic; a transaction reads the       *)
(* snapshot of its first command and conflicts with writes that others     *)
(* have committed since or not yet committed, while an update outside a    *)
(* transaction waits for those.  The driver's withTransaction calls the    *)
(* callback again after a transient error until its time limit is over.    *)
(***************************************************************************)
EXTENDS Naturals, Sequences

CONSTANTS
    Keys,            \* keys of sequences
    Callers,         \* each makes one call
    Operations,      \* what a call may be: [transaction, keys: the sequences it
                     \* increments in turn, nested: the positions where it does so
                     \* in a withTransaction(fn, session), throws: it may throw]
    MaxAttempts,     \* bound: attempts within the time limit of withTransaction
    MaxDisturbances  \* bound: commands that fail or whose answer is lost

ASSUME SequenceAssumption ==
    /\ MaxAttempts \in Nat \ {0} /\ MaxDisturbances \in Nat
    /\ \A op \in Operations :
         /\ op.keys \in Seq(Keys) /\ op.keys # <<>>
         /\ op.nested \subseteq DOMAIN op.keys
         /\ op.transaction \in BOOLEAN /\ op.throws \in BOOLEAN
         /\ ~op.transaction => Len(op.keys) = 1 /\ op.nested = {} /\ ~op.throws

VARIABLES
    value,        \* per key, the value of its document; 0 is no document
    call,         \* per caller, its call
    elsewhere,    \* history: per key, values drawn before, or by a call that was
                  \* told that it failed although it was committed
    disturbances  \* history: commands that failed

vars == <<value, call, elsewhere, disturbances>>

Idle == [stage |-> "idle"]
NoDocument == [k \in Keys |-> 0]

Init ==
    /\ value \in [Keys -> 0 .. 1]
    /\ call = [c \in Callers |-> Idle]
    /\ elsewhere = [k \in Keys |-> 1 .. value[k]]
    /\ disturbances = 0

\* Numbers that c has drawn from k in its present attempt.
Drawn(c, k) == {call[c].drawn[i] : i \in {j \in DOMAIN call[c].drawn : call[c].op.keys[j] = k}}

\* The value of k after the writes of c's transaction.
Latest(c, k, before) ==
    IF Drawn(c, k) = {} THEN before
    ELSE CHOOSE n \in Drawn(c, k) : \A m \in Drawn(c, k) : m <= n

InTransaction(c) == call[c].stage = "callback"
Holds(c, k) == InTransaction(c) /\ Drawn(c, k) # {}
LockedFor(c, k) == \E d \in Callers \ {c} : Holds(d, k)
NextKey(c) == call[c].op.keys[Len(call[c].drawn) + 1]
Snapshot(c) == IF call[c].drawn = <<>> THEN value ELSE call[c].snapshot

Continue(c, state) == call' = [call EXCEPT ![c] = state]

--------------------------------------------------------------------------------
(***************************************************************************)
(* The update of increment: the paths that each operator sets.  Mongoose   *)
(* adds the version key of the schema on upsert; preUpdateMiddleware takes *)
(* it out again, since it increments it.  MongoDB refuses an update that   *)
(* sets a path twice.                                                      *)
(***************************************************************************)
IncrementUpdate == [inc |-> {"value"}, set |-> {}, setOnInsert |-> {"key"}]
WithVersionKey(u) == [u EXCEPT !.setOnInsert = @ \cup {"version"}]

\* A plausible bug: the version key is not taken out.
VersionKeyKept(u) ==
    [inc |-> u.inc \cup {"version"},
     set |-> u.set \cup {"updatedAt"},
     setOnInsert |-> u.setOnInsert \cup {"createdAt"}]

PreUpdateMiddleware(u) ==
    [inc |-> u.inc \cup {"version"},
     set |-> (u.set \ {"version"}) \cup {"updatedAt"},
     setOnInsert |-> (u.setOnInsert \ {"version"}) \cup {"createdAt"}]

Accepted ==
    LET u == PreUpdateMiddleware(WithVersionKey(IncrementUpdate))
    IN  u.inc \cap (u.set \cup u.setOnInsert) = {} /\ u.set \cap u.setOnInsert = {}

\* A plausible bug: findOneAndUpdate without {new: true}.
ReturnedOld(updated) == updated - 1

\* {new: true}
Returned(updated) == updated

--------------------------------------------------------------------------------
Called(c, op) ==
    /\ call[c] = Idle
    /\ Continue(c, [stage |-> IF op.transaction THEN "callback" ELSE "increment",
                    op |-> op, attempt |-> 1, snapshot |-> NoDocument, drawn |-> <<>>,
                    new |-> \E i \in DOMAIN op.keys : value[op.keys[i]] = 0])
    /\ UNCHANGED <<value, elsewhere, disturbances>>

\* A plausible bug: the catch block starts over instead of throwing.
StartsOver(c) == [call[c] EXCEPT !.stage = "callback", !.attempt = 1, !.drawn = <<>>,
                                 !.snapshot = NoDocument]

\* The call rejects; the session ends, and a transaction with it.
Rejected(c) == [call[c] EXCEPT !.stage = "rejected", !.drawn = <<>>, !.snapshot = NoDocument]

\* The driver calls the callback again after a transient error.
Retried(c) ==
    IF call[c].attempt < MaxAttempts
    THEN [call[c] EXCEPT !.attempt = @ + 1, !.drawn = <<>>, !.snapshot = NoDocument]
    ELSE Rejected(c)

\* increment without a session.
IncrementAlone(c) ==
    /\ call[c].stage = "increment"
    /\ Accepted
    /\ LET k == NextKey(c) IN
       /\ ~LockedFor(c, k)
       /\ value' = [value EXCEPT ![k] = @ + 1]
       /\ Continue(c, [call[c] EXCEPT !.stage = "resolved", !.drawn = <<Returned(value[k] + 1)>>])
    /\ UNCHANGED <<elsewhere, disturbances>>

\* A plausible bug: a transaction of its own for every withTransaction.
NeverJoins(c) == Len(call[c].drawn) + 1 \notin call[c].op.nested

\* withTransaction with a session that is in a transaction calls fn at once.
Joins(c) == TRUE

Ready(c) ==
    /\ call[c].stage = "callback"
    /\ Len(call[c].drawn) < Len(call[c].op.keys)

Conflicting(c) ==
    LET k == NextKey(c) IN LockedFor(c, k) \/ value[k] # Snapshot(c)[k]

\* A plausible bug: increment does not pass the session on.
WithoutSession(c, n) ==
    /\ value' = [value EXCEPT ![NextKey(c)] = @ + 1]
    /\ Continue(c, [call[c] EXCEPT !.drawn = Append(@, n), !.snapshot = value'])

\* The write belongs to the transaction of the session.
WithSession(c, n) ==
    /\ Continue(c, [call[c] EXCEPT !.drawn = Append(@, n), !.snapshot = Snapshot(c)])
    /\ UNCHANGED value

\* increment in the callback.
Increment(c) ==
    /\ Ready(c)
    /\ Accepted /\ Joins(c)
    /\ ~Conflicting(c)
    /\ LET k == NextKey(c)
       IN  WithSession(c, Returned(Latest(c, k, Snapshot(c)[k]) + 1))
    /\ UNCHANGED <<elsewhere, disturbances>>

\* A conflict is a transient error.
WriteConflict(c) ==
    /\ Ready(c)
    /\ Accepted /\ Joins(c)
    /\ Conflicting(c)
    /\ Continue(c, Retried(c))
    /\ UNCHANGED <<value, elsewhere, disturbances>>

\* Two callers insert the document of a key; the unique index refuses one.
DuplicateKey(c) ==
    /\ \/ call[c].stage = "increment" /\ call[c].new
       \/ Ready(c) /\ Snapshot(c)[NextKey(c)] = 0
    /\ value[NextKey(c)] > 0

\* A callback that does not join begins a second transaction in its session,
\* which the driver refuses as MongoDB does an update it does not accept.
Illegal(c) ==
    \/ call[c].stage = "increment" /\ ~Accepted
    \/ Ready(c) /\ ~(Accepted /\ Joins(c))

\* The update fails with an error that is not transient.
Refused(c) ==
    /\ DuplicateKey(c) \/ Illegal(c)
    /\ Continue(c, Rejected(c))
    /\ UNCHANGED <<value, elsewhere, disturbances>>

--------------------------------------------------------------------------------
\* The callback has resolved or thrown.
CallbackEnded(c) == call[c].stage = "callback" /\ ~Ready(c)

CallbackThrows(c) ==
    /\ CallbackEnded(c) /\ call[c].op.throws
    /\ Continue(c, Rejected(c))
    /\ UNCHANGED <<value, elsewhere, disturbances>>

Committed(c) == [k \in Keys |-> Latest(c, k, value[k])]

CommitTransaction(c) ==
    /\ CallbackEnded(c)
    /\ value' = Committed(c)
    /\ Continue(c, [call[c] EXCEPT !.stage = "resolved", !.snapshot = NoDocument])
    /\ UNCHANGED <<elsewhere, disturbances>>

\* The answer of an update or of a commit is lost for good.
AnswerLost(c) ==
    /\ disturbances < MaxDisturbances
    /\ disturbances' = disturbances + 1
    /\ \/ /\ call[c].stage = "increment" /\ Accepted /\ ~LockedFor(c, NextKey(c))
          /\ value' = [value EXCEPT ![NextKey(c)] = @ + 1]
       \/ /\ CallbackEnded(c)
          /\ value' = Committed(c)
    /\ elsewhere' = [k \in Keys |-> elsewhere[k] \cup (value[k] + 1 .. value'[k])]
    /\ Continue(c, Rejected(c))

\* A command fails without effect, with a transient error or another one.
CommandFails(c) ==
    /\ call[c].stage \in {"increment", "callback"}
    /\ disturbances < MaxDisturbances
    /\ disturbances' = disturbances + 1
    /\ \/ Continue(c, Rejected(c))
       \/ call[c].stage = "callback" /\ Continue(c, Retried(c))
    /\ UNCHANGED <<value, elsewhere>>

Proceed(c) ==
    \/ IncrementAlone(c) \/ Increment(c) \/ WriteConflict(c) \/ Refused(c)
    \/ CallbackThrows(c) \/ CommitTransaction(c)

Next == \E c \in Callers :
    \/ \E op \in Operations : Called(c, op)
    \/ Proceed(c) \/ AnswerLost(c) \/ CommandFails(c)

Spec == Init /\ [][Next]_vars

(***************************************************************************)
(* Commands are answered and callbacks settle.                             *)
(***************************************************************************)
FairSpec == Spec /\ \A c \in Callers : WF_vars(Proceed(c))

--------------------------------------------------------------------------------
Issued(c, k) == IF call[c].stage = "resolved" THEN Drawn(c, k) ELSE {}

CallStates ==
    {Idle} \cup
    [stage : {"increment", "callback", "resolved", "rejected"}, op : Operations,
     attempt : 1 .. MaxAttempts, snapshot : [Keys -> Nat], drawn : Seq(Nat \ {0}),
     new : BOOLEAN]

\* Numbers start at one, and one transaction at a time holds a document.
TypeOK ==
    /\ value \in [Keys -> Nat]
    /\ call \in [Callers -> CallStates]
    /\ elsewhere \in [Keys -> SUBSET Nat]
    /\ disturbances \in 0 .. MaxDisturbances
    /\ \A k \in Keys : \A c, d \in Callers : Holds(c, k) /\ Holds(d, k) => c = d

\* The numbers of a sequence go to the callers without gap and without
\* repetition: every number up to the document's value was drawn by exactly one
\* call that resolved, unless its answer was lost.  Attempts that conflict,
\* callbacks that throw and commits that fail use up no number, although
\* withTransaction runs the callback several times.
NumbersExact ==
    \A k \in Keys :
      /\ (UNION {Issued(c, k) : c \in Callers}) \cup elsewhere[k] = 1 .. value[k]
      /\ \A c \in Callers :
           /\ Issued(c, k) \cap elsewhere[k] = {}
           /\ \A d \in Callers \ {c} : Issued(c, k) \cap Issued(d, k) = {}
           /\ call[c].stage = "resolved" => \A i, j \in DOMAIN call[c].drawn :
                i # j /\ call[c].op.keys[i] = call[c].op.keys[j]
                  => call[c].drawn[i] # call[c].drawn[j]

\* Concurrency alone rejects a call only when it runs into the time limit or
\* races for a new key; otherwise its callback threw or a command failed.
RejectedForReason ==
    \A c \in Callers : call[c].stage = "rejected" =>
      \/ call[c].op.throws \/ disturbances > 0
      \/ call[c].op.transaction /\ call[c].attempt = MaxAttempts
      \/ call[c].new

\* Every call resolves or rejects: callers that hold each other's documents
\* give way, and withTransaction neither swallows an error nor starts over.
CallsSettle ==
    \A c \in Callers : call[c] # Idle ~> call[c].stage \in {"resolved", "rejected"}

--------------------------------------------------------------------------------
\* A call as its caller sees it.
Seen(c) ==
    CASE call[c].stage \in {"increment", "callback"} -> "waiting"
      [] call[c].stage = "resolved" -> "served"
      [] call[c].stage = "rejected" -> "failed"
      [] OTHER -> "idle"

D == INSTANCE SequenceDispenser WITH
       last <- value, lost <- elsewhere,
       asked <- [c \in Callers |-> IF call[c] = Idle THEN {} ELSE {call[c].op}],
       state <- [c \in Callers |-> Seen(c)],
       given <- [c \in Callers |-> [k \in Keys |-> Issued(c, k)]]

\* Retries, conflicts and nested transactions cannot be seen from outside: a
\* call takes its numbers of all its sequences in one step, consecutive ones
\* and as many as it increments, or nothing, or they are lost all together.
Dispensed == D!Spec
================================================================================
