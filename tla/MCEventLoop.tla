----------------------------- MODULE MCEventLoop -----------------------------
(* Model-checking instance of EventLoop.                                   *)
EXTENDS EventLoop

CONSTANTS n1, n2, c1
=============================================================================
