---------------------------- MODULE MCPrimitives ----------------------------
(***************************************************************************)
(* Two primitives of ww/base for TLC: the quiescence gate and the rate     *)
(* bucket.  They share no variable, so that a state of the two together    *)
(* tells nothing that a state of each does not: in a behaviour one of them *)
(* moves and the other stays at its start.                                 *)
(*                                                                         *)
(* The gate has more operations than its count bits can hold, so that it   *)
(* saturates.  The bucket has words of six bits and a second of four       *)
(* milliseconds.                                                           *)
(***************************************************************************)
EXTENDS QuiescenceGate, RateBucket

CONSTANTS e1, e2, e3, e4, w1, w2

(* SpeedLimit: the capacity is the rate, any recharge step.                *)
Limits == {[rate |-> r, capacity |-> r, step |-> s, units |-> TRUE] :
             r \in {1, 6, 15}, s \in {1, 3, 20}}
(* Users: a step of one, a capacity of its own.                            *)
Users == {[rate |-> p[1], capacity |-> p[2], step |-> 1, units |-> FALSE] :
             p \in {<<0, 7>>, <<5, 7>>, <<5, 63>>, <<63, 63>>}}
MCPolicies == Limits \cup Users

VARIABLE moving

MCInit ==
    /\ moving \in {"gate", "bucket"}
    /\ Init /\ BucketInit
    /\ moving = "gate" => policy = CHOOSE p \in Policies : TRUE
MCNext ==
    \/ moving = "gate" /\ Next /\ UNCHANGED <<bucketVars, moving>>
    \/ moving = "bucket" /\ BucketNext /\ UNCHANGED <<vars, moving>>
MCSpec == MCInit /\ [][MCNext]_<<vars, bucketVars, moving>> /\ Fairness
=============================================================================
