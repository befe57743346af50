----------------------- MODULE MCApplicationShutdown -----------------------
(* Model-checking instance of ApplicationShutdown.                         *)
EXTENDS ApplicationShutdown

CONSTANTS d1
=============================================================================
