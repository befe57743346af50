---------------------------- MODULE MCPipeTunnel ----------------------------
(* Instance of PipeTunnel for TLC: a pair between two workers.             *)
EXTENDS PipeTunnel

CONSTANTS w1, w2, p1
MCHome == [p \in Pairs |-> [s \in {"borrowed", "owned"} |->
              IF s = "borrowed" THEN w1 ELSE w2]]

(* Two payloads upstream with a refusal, two downstream, or an Est from    *)
(* either side with a refusal.                                             *)
MCLoads ==
    {[kinds |-> {<<"borrowed", "Payload">>}, sends |-> 2, refusals |-> 1],
     [kinds |-> {<<"owned", "Payload">>}, sends |-> 2, refusals |-> 0],
     [kinds |-> {"borrowed", "owned"} \X {"Est"}, sends |-> 1, refusals |-> 1]}
=============================================================================
