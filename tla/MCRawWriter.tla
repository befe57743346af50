---------------------------- MODULE MCRawWriter ----------------------------
(* A busy worker and one that sends a single packet.                       *)
EXTENDS RawWriter, TLC
CONSTANTS w1, w2

MCSends == (w1 :> 2) @@ (w2 :> 1)
=============================================================================
