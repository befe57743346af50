-------------------------- MODULE MCWorkerMessages --------------------------
(* Model-checking instance of WorkerMessages.                              *)
EXTENDS WorkerMessages

CONSTANTS m1, m2, m3, p1, p2
=============================================================================
