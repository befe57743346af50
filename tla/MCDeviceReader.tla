--------------------------- MODULE MCDeviceReader ---------------------------
(* Two workers under a budget of one packet.  One reads two packets for    *)
(* the other, over two bring-ups or until the program stops; both read,    *)
(* one of them for itself, so that both may wait; or one packet is read    *)
(* over two bring-ups and some operation fails.                            *)
EXTENDS DeviceReader, TLC
CONSTANTS w1, w2

Load(gens, r1, r2, t1, t2, fails, starters, halts) ==
    [gens |-> gens, reads |-> (w1 :> r1) @@ (w2 :> r2),
     targets |-> (w1 :> t1) @@ (w2 :> t2),
     failures |-> fails, starters |-> starters,
     halts |-> halts]
MCLoads ==
    {Load(2, 2, 0, {w2}, {}, 0, {w1, w2}, FALSE),
     Load(1, 2, 0, {w2}, {}, 0, {w1}, TRUE),
     Load(1, 2, 1, {w2}, {w2}, 0, {w1}, FALSE),
     Load(2, 1, 0, {w2}, {}, 1, {w1}, TRUE)}
MCCharge == [w \in Workers |-> 1]
=============================================================================
