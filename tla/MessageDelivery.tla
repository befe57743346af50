-------------------------- MODULE MessageDelivery ---------------------------
(***************************************************************************)
(* What worker_messages promises to the code that submits messages, with   *)
(* no queue, batch, timer or wakeup: a submission is accepted while the    *)
(* worker is open or is given back at once; an accepted message is run, or *)
(* cancelled after the worker has closed; a worker is quiesced only when   *)
(* it owes nothing.                                                        *)
(***************************************************************************)
CONSTANT Msgs

VARIABLES
    phase,    \* "starting", "open", "closed" or "quiesced"
    status    \* status[m]

vars == <<phase, status>>

Init ==
    /\ phase = "starting"
    /\ status = [m \in Msgs |-> "new"]

Set(m, s) == status' = [status EXCEPT ![m] = s]

Open ==
    /\ phase = "starting"
    /\ phase' = "open"
    /\ UNCHANGED status

(* A submission can be refused at any time (an unregistered target, a full *)
(* queue or a failed wake), by its cleanup or by handing it back.          *)
Refuse(m) ==
    /\ status[m] = "new"
    /\ Set(m, "cancelled") \/ Set(m, "returned")
    /\ UNCHANGED phase

Accept(m) ==
    /\ phase = "open" /\ status[m] = "new"
    /\ Set(m, "pending")
    /\ UNCHANGED phase

(* The owner runs its own submission inline from a callback.               *)
RunInline(m) ==
    /\ phase \in {"open", "closed"} /\ status[m] = "new"
    /\ Set(m, "ran")
    /\ UNCHANGED phase

(* A callback admitted before the close may still start after it.          *)
Run(m) ==
    /\ phase \in {"open", "closed"} /\ status[m] = "pending"
    /\ Set(m, "ran")
    /\ UNCHANGED phase

Cancel(m) ==
    /\ phase = "closed" /\ status[m] = "pending"
    /\ Set(m, "cancelled")
    /\ UNCHANGED phase

Close ==
    /\ phase \in {"starting", "open"}
    /\ phase' = "closed"
    /\ UNCHANGED status

Quiesce ==
    /\ phase = "closed"
    /\ \A m \in Msgs : status[m] # "pending"
    /\ phase' = "quiesced"
    /\ UNCHANGED status

Next ==
    \/ Open
    \/ Close
    \/ Quiesce
    \/ \E m \in Msgs : Refuse(m) \/ Accept(m) \/ RunInline(m) \/ Run(m) \/ Cancel(m)

Spec == Init /\ [][Next]_vars

(* An accepted message is eventually run or cancelled.                     *)
FairSpec == Spec /\ \A m \in Msgs : WF_vars(Run(m) \/ Cancel(m))
=============================================================================
