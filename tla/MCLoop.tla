------------------------------- MODULE MCLoop -------------------------------
(* Model-checking instance of Loop.                                        *)
EXTENDS Loop

CONSTANTS n1, n2, c1, t1, t2
=============================================================================
