----------------------------- MODULE MCChannel -----------------------------
(* Threads that send, receive and close.                                   *)
EXTENDS Channel, TLC
CONSTANTS s1, s2, r1, c

MCOps == (s1 :> {"send", "trysend"}) @@ (s2 :> {"send", "recv"})
           @@ (r1 :> {"recv", "tryrecv"}) @@ (c :> {"close"})
MCCalls == (s1 :> 2) @@ (s2 :> 1) @@ (r1 :> 1) @@ (c :> 1)
=============================================================================
