-------------------------- MODULE MCTrafficShaper --------------------------
(* Instance of TrafficShaper for TLC: a stream and a datagram direction of *)
(* one user.  Each has one payload, and the limit comes and goes; the      *)
(* stream has two payloads, the second behind the first, while a datagram  *)
(* contends; or the limit drops under a slice already prepared.            *)
EXTENDS TrafficShaper
CONSTANTS tcp, udp

Load(stream, datagram, rates, n, fails) ==
    [sizes |-> [d \in Directions |-> IF d = tcp THEN stream ELSE datagram],
     rates |-> rates, changes |-> n, fails |-> fails]
MCLoads ==
    {Load(<<{1, 2}>>, <<{1, 2}>>, {0, 1}, 2, TRUE),
     Load(<<{2}, {1}>>, <<{2}>>, {1}, 0, TRUE),
     Load(<<{2}>>, <<{1}>>, {1, 2}, 1, FALSE)}
=============================================================================
