--------------------------- MODULE SequenceDispenser ---------------------------
(***************************************************************************)
(* What the sequences promise to a caller, whatever happens underneath: it *)
(* is served in one step, with as many of the next numbers of each         *)
(* sequence as its call increments it, or it fails.  What a failed call    *)
(* takes, if anything, is lost as a whole and given to nobody else.        *)
(***************************************************************************)
EXTENDS Naturals, Sequences, FiniteSets

CONSTANTS Keys, Callers, Operations

VARIABLES
    last,   \* per key, the last number that has gone
    lost,   \* per key, the numbers that nobody got
    asked,  \* per caller, its operation, if it has called
    state,  \* per caller: idle, waiting, served or failed
    given   \* per caller and key, the numbers it was served with

vars == <<last, lost, asked, state, given>>

Nothing == [k \in Keys |-> {}]

Init ==
    /\ last \in [Keys -> Nat]
    /\ lost = [k \in Keys |-> 1 .. last[k]]
    /\ asked = [c \in Callers |-> {}]
    /\ state = [c \in Callers |-> "idle"]
    /\ given = [c \in Callers |-> Nothing]

\* How many numbers of k an operation takes.
Count(op, k) == Cardinality({i \in DOMAIN op.keys : op.keys[i] = k})

After(op) == [k \in Keys |-> last[k] + Count(op, k)]
Numbers(op) == [k \in Keys |-> last[k] + 1 .. After(op)[k]]

Ask(c, op) ==
    /\ state[c] = "idle"
    /\ state' = [state EXCEPT ![c] = "waiting"]
    /\ asked' = [asked EXCEPT ![c] = {op}]
    /\ UNCHANGED <<last, lost, given>>

Serve(c) ==
    /\ state[c] = "waiting"
    /\ state' = [state EXCEPT ![c] = "served"]
    /\ \E op \in asked[c] :
         /\ last' = After(op)
         /\ given' = [given EXCEPT ![c] = Numbers(op)]
    /\ UNCHANGED <<lost, asked>>

Fail(c) ==
    /\ state[c] = "waiting"
    /\ state' = [state EXCEPT ![c] = "failed"]
    /\ \/ UNCHANGED <<last, lost>>
       \/ \E op \in asked[c] :
            /\ last' = After(op)
            /\ lost' = [k \in Keys |-> lost[k] \cup Numbers(op)[k]]
    /\ UNCHANGED <<asked, given>>

Next == \E c \in Callers :
    \/ \E op \in Operations : Ask(c, op)
    \/ Serve(c) \/ Fail(c)

Spec == Init /\ [][Next]_vars
================================================================================
