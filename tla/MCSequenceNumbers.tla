--------------------------- MODULE MCSequenceNumbers ---------------------------
(***************************************************************************)
(* SequenceNumbers with three callers over two sequences: an increment     *)
(* alone, and two transactions that take the documents in opposite orders, *)
(* one that may throw, and one that ends in two nested withTransactions.   *)
(***************************************************************************)
EXTENDS SequenceNumbers

Transaction(keys, nested, throws) ==
    [transaction |-> TRUE, keys |-> keys, nested |-> nested, throws |-> throws]

MCKeys == {"k1", "k2"}
MCOperations ==
    {[transaction |-> FALSE, keys |-> <<"k1">>, nested |-> {}, throws |-> FALSE],
     Transaction(<<"k1", "k2">>, {}, TRUE),
     Transaction(<<"k2", "k1", "k2">>, {2, 3}, FALSE)}
================================================================================
