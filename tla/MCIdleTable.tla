---------------------------- MODULE MCIdleTable -----------------------------
(* Instance of IdleTable for TLC: items of one key, one of them on the     *)
(* timer's own worker.                                                     *)
EXTENDS IdleTable

CONSTANTS w1, w2, i1, i2
MCOwner == [i \in Items |-> IF i = i1 THEN w1 ELSE w2]
MCKey == [i \in Items |-> 1]
=============================================================================
