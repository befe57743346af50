---------------------------- MODULE DeviceReader ----------------------------
(***************************************************************************)
(* Packets from a TUN device to the workers: the reader session            *)
(* (ww/devices/device_reader_session.c, _dispatch.c and _budget.c) with    *)
(* the Linux reader that feeds it (ww/devices/tun/tun_linux_reader.c).     *)
(*                                                                         *)
(* Every worker reads its own native queue and posts each packet, after    *)
(* reserving it in a budget all workers share, to the FIFO of a target     *)
(* worker.  A FIFO that is not empty has one token, a worker message or    *)
(* the burst of the worker itself, and the token's holder delivers.  A     *)
(* reader that finds the budget full keeps its packet, stops listening and *)
(* relies on whoever frees budget to call it.  The owner of the device     *)
(* closes and reopens all of this while packets of an earlier generation   *)
(* are still queued, and frees the session by the last reference.          *)
(*                                                                         *)
(* A thread's stack holds the calls it is in, the innermost first.  What   *)
(* runs under a lock is one step, as is an atomic access; what only the    *)
(* worker itself touches goes with the access before it.  The quiescence   *)
(* gates are taken at their abstract level.                                *)
(***************************************************************************)
EXTENDS Integers, Sequences, FiniteSets, SequencesExt

CONSTANTS
    Workers,
    Owner,        \* the thread that stops the program
    MaxGens,      \* bound: bring-ups of the device
    MaxReads,     \* bound: packets a worker reads or fails to
    Loads,        \* the loads, see LoadType
    Charge,       \* Charge[w]: allocation charge of the packets w reads
    ChargeLimit, PacketLimit,  \* the output budget
    Quantum,      \* kDeviceReaderWorkerPacketQuantum
    None

Gens == 1 .. MaxGens

(* What a load leaves open: gens, how often the device is brought up;      *)
(* reads[w], how many packets are there for worker w; targets[w], the      *)
(* workers deviceReaderSelectWID may choose for them; failures, how many   *)
(* native operations and posts may fail; starters, the workers that bring  *)
(* the device up; halts, whether the program is stopped.                   *)
LoadType ==
    [gens : Gens, reads : [Workers -> 0 .. MaxReads],
     targets : [Workers -> SUBSET Workers],
     failures : Nat,
     starters : SUBSET Workers, halts : BOOLEAN]

ASSUME DeviceReaderAssumption ==
    /\ IsFiniteSet(Workers) /\ Owner \notin Workers
    /\ MaxGens \in Nat /\ PacketLimit \in Nat \ {0} /\ Quantum \in Nat \ {0}
    /\ \A l \in Loads : l \in LoadType /\ (l.failures > 0 => l.halts)
    /\ \A w \in Workers : Charge[w] \in 1 .. ChargeLimit

VARIABLES
    session,    \* refs, generation, admission, waiting, charge, packets
    dgate,      \* delivery_gate
    ngate,      \* capacity_notify_gate
    queue,      \* queue[q]: fifo, scheduled, burst of worker q's queue
    device,     \* lifecycle, reader and reader_notify of the device
    gen,        \* gen[g]: references, attached and gate of a generation
    lane,       \* lane[g][w]: scheduled, waiting, pending, io and interest
    inbox,      \* inbox[w]: the worker's queued messages
    phase,      \* phase[w]: "running", "closing" or "quiesced" worker
    halting,    \* the program is shutting down
    stack,      \* stack[t]: the calls a thread is in, innermost first
    load,       \* the load
    reads,      \* reads[w]: packets read so far
    failures,
    born,       \* born[p]: the generation in which the packet was read
    fate,       \* fate[p]: "unread", "held", "delivered" or "discarded"
    fault       \* an assertion failed or freed storage was used

Threads == Workers \cup {Owner}
Packets == Workers \X (1 .. MaxReads)
PacketCharge(p) == Charge[p[1]]

sessionVars == <<session, dgate, ngate>>
readerVars == <<device, gen, lane>>
mailVars == <<inbox, phase, halting>>
ghosts == <<load, reads, failures, born, fate>>
vars == <<sessionVars, queue, readerVars, mailVars, stack, ghosts, fault>>

LaneOrder == SetToSeq(Workers)

Closed == [open |-> FALSE, inside |-> 0]
NewLane == [scheduled |-> FALSE, waiting |-> FALSE, pending |-> None,
            io |-> FALSE, interest |-> FALSE]

Init ==
    /\ session = [refs |-> 1, generation |-> 0, admission |-> FALSE,
                  waiting |-> FALSE, charge |-> 0, packets |-> 0]
    /\ dgate = Closed /\ ngate = Closed
    /\ queue = [q \in Workers |-> [fifo |-> << >>, scheduled |-> FALSE,
                                   burst |-> "none"]]
    /\ device = [lifecycle |-> "down", reader |-> 0, notify |-> 0]
    /\ gen = [g \in Gens |-> [refs |-> 0, attached |-> 0, gate |-> Closed]]
    /\ lane = [g \in Gens |-> [w \in Workers |-> NewLane]]
    /\ inbox = [w \in Workers |-> << >>]
    /\ phase = [w \in Workers |-> "running"]
    /\ halting = FALSE
    /\ stack = [t \in Threads |-> << >>]
    /\ reads = [w \in Workers |-> 0]
    /\ load \in Loads
    /\ failures = 0
    /\ born = [p \in Packets |-> 0]
    /\ fate = [p \in Packets |-> "unread"]
    /\ fault = FALSE

-----------------------------------------------------------------------------
(* The calls of a thread.                                                  *)
Idle(t) == stack[t] = << >>
Frame(t) == Head(stack[t])
At(t, at) == ~Idle(t) /\ Frame(t).at = at
Become(t, f) == stack' = [stack EXCEPT ![t] = <<f>> \o Tail(@)]
Goto(t, at) == stack' = [stack EXCEPT ![t][1].at = at]
Call(t, f) == stack' = [stack EXCEPT ![t] = <<f>> \o @]
CallThen(t, f, next) == stack' = [stack EXCEPT ![t] = <<f, next>> \o Tail(@)]
Return(t) == stack' = [stack EXCEPT ![t] = Tail(@)]

Active == device.lifecycle \in {"starting", "up"}
Enter(gate) == [gate EXCEPT !.inside = @ + 1]
Leave(gate) == [gate EXCEPT !.inside = @ - 1]
Quiesced(gate) == ~gate.open /\ gate.inside = 0

(* deviceReaderSessionRef and deviceReaderSessionUnref.                    *)
Ref(s) == [s EXCEPT !.refs = @ + 1]
Unref(s) == [s EXCEPT !.refs = @ - 1]

(* tunReaderUnref, n times: the last reference gives the session's back.   *)
GiveBack(g, n, detached) ==
    LET last == n > 0 /\ gen[g].refs = n IN
    /\ gen' = [gen EXCEPT ![g].refs = @ - n, ![g].attached = @ - detached]
    /\ session' = IF last THEN Unref(session) ELSE session
    /\ fault' = (fault \/ gen[g].refs < n
                 \/ (last /\ ~(Quiesced(gen[g].gate)
                               /\ gen[g].attached = detached)))

Held(p) == fate[p] = "held"
Settle(p, how) ==
    /\ fate' = [fate EXCEPT ![p] = how]
    /\ fault' = (fault \/ ~Held(p))

-----------------------------------------------------------------------------
(* deviceReaderSessionReleaseWork: the budget under its lock, then the     *)
(* notification, for which only one of those who free budget goes on.      *)
Release(t) ==
    /\ At(t, "release")
    /\ LET p == Frame(t).p IN
       /\ session' = [session EXCEPT !.charge = @ - PacketCharge(p),
                                     !.packets = @ - 1]
       /\ fault' = (fault \/ session.packets < 1
                    \/ session.charge < PacketCharge(p))
    /\ Become(t, [at |-> "signal"])
    /\ UNCHANGED <<dgate, ngate, queue, readerVars, mailVars, ghosts>>

(* deviceReaderSessionSignalOutputCapacity.                                *)
Signal(t) ==
    /\ At(t, "signal")
    /\ session' = [session EXCEPT !.waiting = FALSE]
    /\ IF session.waiting THEN Goto(t, "notify") ELSE Return(t)
    /\ UNCHANGED <<dgate, ngate, queue, readerVars, mailVars, ghosts, fault>>
Notify(t) ==
    /\ At(t, "notify")
    /\ IF ngate.open THEN ngate' = Enter(ngate) /\ Goto(t, "load")
                     ELSE Return(t) /\ UNCHANGED ngate
    /\ UNCHANGED <<session, dgate, queue, readerVars, mailVars, ghosts, fault>>

(* tunReaderCapacityReady: reader_notify, then the lanes one by one.       *)
LoadNotify(t) ==
    /\ At(t, "load")
    /\ Become(t, [at |-> "visit", g |-> device.notify,
                  rest |-> IF device.notify = 0 THEN << >> ELSE LaneOrder])
    /\ UNCHANGED <<sessionVars, queue, readerVars, mailVars, ghosts, fault>>

(* tunReaderSchedule.  A refused message is cancelled at once; a required  *)
(* one must not find its worker stopped while the generation is open.      *)
ScheduleLane(g, w, required) ==
    IF lane[g][w].scheduled
    THEN UNCHANGED <<lane, gen, inbox, fault>>
    ELSE IF phase[w] = "running"
    THEN /\ lane' = [lane EXCEPT ![g][w].scheduled = TRUE]
         /\ gen' = [gen EXCEPT ![g].refs = @ + 1]
         /\ inbox' = [inbox EXCEPT ![w] = Append(@, [kind |-> "lane", g |-> g])]
         /\ fault' = (fault \/ gen[g].refs = 0)
    ELSE /\ fault' = (fault \/ (required /\ gen[g].gate.open))
         /\ UNCHANGED <<lane, gen, inbox>>
Visit(t) ==
    /\ At(t, "visit") /\ Frame(t).rest # << >>
    /\ LET w == Head(Frame(t).rest) IN
       IF lane[Frame(t).g][w].waiting
       THEN ScheduleLane(Frame(t).g, w, TRUE)
       ELSE UNCHANGED <<lane, gen, inbox, fault>>
    /\ stack' = [stack EXCEPT ![t][1].rest = Tail(@)]
    /\ UNCHANGED <<sessionVars, queue, device, phase, halting, ghosts>>
(* An open mailbox that has no room for a required message ends the        *)
(* process (tunReaderMessageCancel).                                       *)
Alive == device.lifecycle # "aborted"
Fails == failures < load.failures /\ failures' = failures + 1
AbortPost(t) ==
    /\ At(t, "visit") \/ At(t, "tell")
    /\ Frame(t).rest # << >>
    /\ LET l == lane[Frame(t).g][Head(Frame(t).rest)] IN
       ~l.scheduled /\ (At(t, "visit") => l.waiting)
    /\ phase[Head(Frame(t).rest)] = "running"
    /\ Fails
    /\ device' = [device EXCEPT !.lifecycle = "aborted"]
    /\ UNCHANGED <<sessionVars, queue, gen, lane, mailVars, stack, reads, born, load,
                   fate, fault>>
LeaveNotify(t) ==
    /\ At(t, "visit") /\ Frame(t).rest = << >>
    /\ ngate' = Leave(ngate)
    /\ Return(t)
    /\ UNCHANGED <<session, dgate, queue, readerVars, mailVars, ghosts, fault>>

-----------------------------------------------------------------------------
(* deviceReaderWorkerQueueSchedule, and deviceReaderWorkerQueueCancel for  *)
(* a token that is refused or found in a closing mailbox: the FIFO is      *)
(* detached under the lock and its packets are given up one by one.        *)
Schedule(t) ==
    /\ At(t, "schedule")
    /\ LET q == Frame(t).q IN
       IF phase[q] = "running"
       THEN /\ inbox' = [inbox EXCEPT ![q] = Append(@, [kind |-> "drain"])]
            /\ Return(t)
       ELSE Goto(t, "cancel") /\ UNCHANGED inbox
    /\ UNCHANGED <<sessionVars, queue, readerVars, phase, halting, ghosts,
                   fault>>
Cancel(t) ==
    /\ At(t, "cancel")
    /\ LET q == Frame(t).q IN
       /\ Become(t, [at |-> "cleanup", rest |-> queue[q].fifo])
       /\ queue' = [queue EXCEPT ![q].fifo = << >>, ![q].scheduled = FALSE]
    /\ UNCHANGED <<sessionVars, readerVars, mailVars, ghosts, fault>>
(* deviceReaderSessionCleanupMessage: the buffer, the budget, the          *)
(* message's reference.                                                    *)
Cleanup(t) ==
    /\ At(t, "cleanup")
    /\ LET rest == Frame(t).rest IN
       IF rest = << >>
       THEN Goto(t, "unref") /\ UNCHANGED <<fate, fault>>
       ELSE /\ Settle(Head(rest).p, "discarded")
            /\ CallThen(t, [at |-> "release", p |-> Head(rest).p],
                        [at |-> "cleaned", rest |-> Tail(rest)])
    /\ UNCHANGED <<sessionVars, queue, readerVars, mailVars, reads, failures, born, load>>
Cleaned(t) ==
    /\ At(t, "cleaned")
    /\ session' = Unref(session)
    /\ Goto(t, "cleanup")
    /\ UNCHANGED <<dgate, ngate, queue, readerVars, mailVars, ghosts, fault>>
(* The token's reference.                                                  *)
UnrefToken(t) ==
    /\ At(t, "unref")
    /\ session' = Unref(session)
    /\ Return(t)
    /\ UNCHANGED <<dgate, ngate, queue, readerVars, mailVars, ghosts, fault>>

-----------------------------------------------------------------------------
(* deviceReaderWorkerQueueDrain, by the worker that holds the token.       *)
NewDrain == [at |-> "look", left |-> Quantum]
Drained(w) ==
    /\ queue[w].fifo = << >>
    /\ queue' = [queue EXCEPT ![w].scheduled = FALSE]
    /\ Become(w, [at |-> "unref"])
(* Empty, or the quantum is used up: the token is given up or posted again *)
LookEnds(w) ==
    /\ At(w, "look")
    /\ \/ Drained(w)
       \/ /\ Frame(w).left = 0 /\ queue[w].fifo # << >>
          /\ Become(w, [at |-> "schedule", q |-> w])
          /\ UNCHANGED queue
    /\ UNCHANGED <<sessionVars, readerVars, mailVars, ghosts, fault>>

\* Mutant of Look: the generation of the message is not compared.
Look_AnyGeneration(w) ==
    /\ At(w, "look") /\ Frame(w).left > 0 /\ queue[w].fifo # << >>
    /\ dgate' = IF dgate.open THEN Enter(dgate) ELSE dgate
    /\ Become(w, [at |-> "deliver", left |-> Frame(w).left - 1,
                  m |-> Head(queue[w].fifo), entered |-> dgate.open,
                  admitted |-> dgate.open])
    /\ UNCHANGED <<session, ngate, queue, readerVars, mailVars, ghosts, fault>>

(* The first message: only the token's holder removes one, so it is still  *)
(* the first when the gate is entered.                                     *)
Look(w) ==
    /\ At(w, "look") /\ Frame(w).left > 0 /\ queue[w].fifo # << >>
    /\ LET m == Head(queue[w].fifo) IN
       Become(w, [at |-> "deliver", left |-> Frame(w).left - 1, m |-> m,
                  entered |-> dgate.open,
                  admitted |-> dgate.open /\ m.gen = session.generation])
    /\ dgate' = IF dgate.open THEN Enter(dgate) ELSE dgate
    /\ UNCHANGED <<session, ngate, queue, readerVars, mailVars, ghosts, fault>>
Deliver(w) ==
    /\ At(w, "deliver")
    /\ LET f == Frame(w) IN
       /\ Settle(f.m.p, IF f.admitted THEN "delivered" ELSE "discarded")
       /\ CallThen(w, [at |-> "release", p |-> f.m.p],
                   [f EXCEPT !.at = "leave"])
    /\ UNCHANGED <<sessionVars, queue, readerVars, mailVars, reads, failures, born, load>>
LeaveDelivery(w) ==
    /\ At(w, "leave")
    /\ dgate' = IF Frame(w).entered THEN Leave(dgate) ELSE dgate
    /\ fault' = (fault \/ queue[w].fifo = << >>
                 \/ Head(queue[w].fifo) # Frame(w).m)
    /\ queue' = [queue EXCEPT ![w].fifo = Tail(@)]
    /\ session' = Unref(session)
    /\ Become(w, [at |-> "look", left |-> Frame(w).left])
    /\ UNCHANGED <<ngate, readerVars, mailVars, ghosts>>

-----------------------------------------------------------------------------
(* The worker's loop: a queued message, or a readable descriptor.          *)
NewRun(g, message) ==
    [at |-> "enter", g |-> g, message |-> message, left |-> Quantum,
     failed |-> FALSE]
TakeMessage(w) ==
    /\ Idle(w) /\ phase[w] = "running" /\ inbox[w] # << >>
    /\ LET m == Head(inbox[w]) IN
       IF m.kind = "drain"
       THEN Call(w, NewDrain) /\ UNCHANGED lane
       ELSE /\ Call(w, NewRun(m.g, TRUE))
            /\ lane' = [lane EXCEPT ![m.g][w].scheduled = FALSE]
    /\ inbox' = [inbox EXCEPT ![w] = Tail(@)]
    /\ UNCHANGED <<sessionVars, queue, device, gen, phase, halting, ghosts,
                   fault>>
Ready(w) ==
    /\ Idle(w) /\ phase[w] = "running" /\ reads[w] < load.reads[w]
    /\ \E g \in Gens :
          /\ lane[g][w].io /\ lane[g][w].interest
          /\ Call(w, NewRun(g, FALSE))
    /\ UNCHANGED <<sessionVars, queue, readerVars, mailVars, ghosts, fault>>

(* tunReaderDetach, and the reference of the message.                      *)
Detach(w, g, message) ==
    LET One(b) == IF b THEN 1 ELSE 0
        io == lane[g][w].io IN
    /\ lane' = [lane EXCEPT ![g][w].io = FALSE, ![g][w].interest = FALSE]
    /\ GiveBack(g, One(io) + One(message), One(io))

(* tunReaderRun.  The first run attaches the descriptor to the loop; one   *)
(* that finds the generation closed lets go of it.                         *)
RunEnter(w) ==
    /\ At(w, "enter") /\ gen[Frame(w).g].gate.open
    /\ LET g == Frame(w).g
           first == ~lane[g][w].io IN
       /\ gen' = [gen EXCEPT ![g].gate = Enter(@),
                             ![g].refs = IF first THEN @ + 1 ELSE @,
                             ![g].attached = IF first THEN @ + 1 ELSE @]
       /\ lane' = [lane EXCEPT ![g][w].io = TRUE]
    /\ queue' = [queue EXCEPT ![w].burst = "open"]
    /\ fault' = (fault \/ queue[w].burst # "none")
    /\ Goto(w, "loop")
    /\ UNCHANGED <<sessionVars, device, mailVars, ghosts>>
(* wioGet fails: the run goes on to its end without a descriptor.          *)
RunNoIo(w) ==
    /\ At(w, "enter") /\ gen[Frame(w).g].gate.open
    /\ ~lane[Frame(w).g][w].io
    /\ Fails
    /\ gen' = [gen EXCEPT ![Frame(w).g].gate = Enter(@)]
    /\ Become(w, [Frame(w) EXCEPT !.at = "rearm", !.failed = TRUE])
    /\ UNCHANGED <<sessionVars, queue, device, lane, mailVars, reads, born, load, fate,
                   fault>>
RunDetach(w) ==
    /\ At(w, "enter") /\ ~gen[Frame(w).g].gate.open
    /\ Detach(w, Frame(w).g, Frame(w).message)
    /\ Return(w)
    /\ UNCHANGED <<dgate, ngate, queue, device, mailVars, ghosts>>

(* tunReaderDrain: what is pending goes first, then the next read.         *)
Pending(w) == lane[Frame(w).g][w].pending
Read(w) ==
    /\ At(w, "loop") /\ Pending(w) = None /\ Frame(w).left > 0 /\ Active
    /\ reads[w] < load.reads[w]
    /\ \E q \in load.targets[w] :
          lane' = [lane EXCEPT ![Frame(w).g][w].pending =
                                  [p |-> <<w, reads[w] + 1>>, q |-> q]]
    /\ reads' = [reads EXCEPT ![w] = @ + 1]
    /\ fate' = [fate EXCEPT ![<<w, reads[w] + 1>>] = "held"]
    /\ born' = [born EXCEPT ![<<w, reads[w] + 1>>] = Frame(w).g]
    /\ stack' = [stack EXCEPT ![w][1].left = @ - 1]
    /\ UNCHANGED <<sessionVars, queue, device, gen, mailVars, failures, load,
                   fault>>
(* deviceReaderSessionEndBurst delivers what the burst has claimed.        *)
EndBurst(w, failed) ==
    LET run == [Frame(w) EXCEPT !.at = "rearm", !.failed = failed] IN
    /\ queue' = [queue EXCEPT ![w].burst = "none"]
    /\ IF queue[w].burst = "owns" THEN CallThen(w, NewDrain, run)
                                  ELSE Become(w, run)
ReadEnds(w) ==
    /\ At(w, "loop")
    /\ \/ /\ \/ Frame(w).left > 0 /\ ~Active
             \/ Pending(w) = None
          /\ EndBurst(w, FALSE)
          /\ UNCHANGED <<reads, failures>>
       \/ /\ Pending(w) = None /\ Frame(w).left > 0 /\ Active
          /\ reads[w] < load.reads[w] /\ Fails
          /\ reads' = [reads EXCEPT ![w] = @ + 1]
          /\ EndBurst(w, TRUE)
    /\ UNCHANGED <<sessionVars, readerVars, mailVars, born, load, fate, fault>>

(* tunReaderPostPackets: the lane says that it waits before it tries.      *)
Publish(w) ==
    /\ At(w, "loop") /\ Pending(w) # None /\ (Frame(w).left = 0 \/ Active)
    /\ lane' = [lane EXCEPT ![Frame(w).g][w].waiting = TRUE]
    /\ Goto(w, "reserve")
    /\ UNCHANGED <<sessionVars, queue, device, gen, mailVars, ghosts, fault>>
(* deviceReaderSessionTryPost and deviceReaderSessionTryReserveWork.       *)
Discard(w) ==
    /\ Settle(Pending(w).p, "discarded")
    /\ Goto(w, "posted")
Reserve(w) ==
    /\ At(w, "reserve")
    /\ IF session.admission THEN Goto(w, "budget") /\ UNCHANGED <<fate, fault>>
                            ELSE Discard(w)
    /\ UNCHANGED <<sessionVars, queue, readerVars, mailVars, reads, failures, born, load>>

\* Mutant of Budget: the refusal is not published under the lock.
Budget_Silent(w) ==
    /\ At(w, "budget")
    /\ IF \/ session.packets + 1 > PacketLimit
          \/ session.charge + PacketCharge(Pending(w).p) > ChargeLimit
       THEN /\ UNCHANGED session
            /\ Goto(w, "refused")
       ELSE /\ session' = [session EXCEPT
                             !.charge = @ + PacketCharge(Pending(w).p),
                             !.packets = @ + 1]
            /\ Goto(w, "post")
    /\ UNCHANGED <<dgate, ngate, queue, readerVars, mailVars, ghosts, fault>>

Budget(w) ==
    /\ At(w, "budget")
    /\ IF \/ session.packets + 1 > PacketLimit
          \/ session.charge + PacketCharge(Pending(w).p) > ChargeLimit
       THEN /\ session' = [session EXCEPT !.waiting = TRUE]
            /\ Goto(w, "refused")
       ELSE /\ session' = [session EXCEPT
                             !.charge = @ + PacketCharge(Pending(w).p),
                             !.packets = @ + 1]
            /\ Goto(w, "post")
    /\ UNCHANGED <<dgate, ngate, queue, readerVars, mailVars, ghosts, fault>>
Refused(w) ==
    /\ At(w, "refused")
    /\ IF session.admission
       THEN EndBurst(w, FALSE) /\ UNCHANGED <<fate, fault>>
       ELSE Discard(w) /\ UNCHANGED queue
    /\ UNCHANGED <<sessionVars, readerVars, mailVars, reads, failures, born, load>>
(* deviceReaderSessionPostInternal: the message takes its reference and    *)
(* the generation, unless the session has stopped admitting.               *)
Post(w) ==
    /\ At(w, "post")
    /\ IF session.admission
       THEN /\ session' = Ref(session)
            /\ Goto(w, "append")
            /\ UNCHANGED <<fate, fault>>
       ELSE /\ Settle(Pending(w).p, "discarded")
            /\ CallThen(w, [at |-> "release", p |-> Pending(w).p],
                        [Frame(w) EXCEPT !.at = "posted"])
            /\ UNCHANGED session
    /\ UNCHANGED <<dgate, ngate, queue, readerVars, mailVars, reads, failures, born, load>>

\* Mutant of AppendMessage: a claimed token takes no reference.
AppendMessage_NoRef(w) ==
    /\ At(w, "append")
    /\ LET q == Pending(w).q
           m == [p |-> Pending(w).p, gen |-> session.generation]
           claim == ~queue[q].scheduled
           local == claim /\ q = w /\ queue[w].burst # "none"
           posted == [Frame(w) EXCEPT !.at = "posted"] IN
       /\ queue' = [queue EXCEPT ![q].fifo = Append(@, m),
                                 ![q].scheduled = TRUE,
                                 ![q].burst = IF local THEN "owns" ELSE @]
       /\ UNCHANGED session
       /\ IF claim /\ ~local
          THEN CallThen(w, [at |-> "schedule", q |-> q], posted)
          ELSE Become(w, posted)
    /\ UNCHANGED <<dgate, ngate, readerVars, mailVars, ghosts, fault>>

(* deviceReaderWorkerQueueAppend: whoever finds the queue without a token  *)
(* claims it, for the worker's own burst or for a message.                 *)
AppendMessage(w) ==
    /\ At(w, "append")
    /\ LET q == Pending(w).q
           m == [p |-> Pending(w).p, gen |-> session.generation]
           claim == ~queue[q].scheduled
           local == claim /\ q = w /\ queue[w].burst # "none"
           posted == [Frame(w) EXCEPT !.at = "posted"] IN
       /\ queue' = [queue EXCEPT ![q].fifo = Append(@, m),
                                 ![q].scheduled = TRUE,
                                 ![q].burst = IF local THEN "owns" ELSE @]
       /\ session' = IF claim THEN Ref(session) ELSE session
       /\ IF claim /\ ~local
          THEN CallThen(w, [at |-> "schedule", q |-> q], posted)
          ELSE Become(w, posted)
    /\ UNCHANGED <<dgate, ngate, readerVars, mailVars, ghosts, fault>>
Posted(w) ==
    /\ At(w, "posted")
    /\ lane' = [lane EXCEPT ![Frame(w).g][w].waiting = FALSE,
                            ![Frame(w).g][w].pending = None]
    /\ Goto(w, "loop")
    /\ UNCHANGED <<sessionVars, queue, device, gen, mailVars, ghosts, fault>>

(* The rest of tunReaderRun: listen again unless the lane waits, which     *)
(* wioAdd may fail to do.  A failure while the device is up also asks for  *)
(* the program's shutdown, and aborts when it cannot.                      *)
Rearm(w) ==
    /\ At(w, "rearm")
    /\ LET f == Frame(w)
           listens == /\ ~lane[f.g][w].waiting /\ ~f.failed
                      /\ Active /\ gen[f.g].gate.open IN
       \E added \in {TRUE, ~listens} :
          /\ IF added THEN UNCHANGED failures ELSE Fails
          /\ lane' = [lane EXCEPT ![f.g][w].interest = listens /\ added]
          /\ device' = [device EXCEPT !.lifecycle =
                           IF (f.failed \/ ~added) /\ Active THEN "failed"
                                                             ELSE @]
    /\ Goto(w, "leaveRun")
    /\ UNCHANGED <<sessionVars, queue, gen, mailVars, reads, born, load, fate, fault>>
LeaveRun(w) ==
    /\ At(w, "leaveRun")
    /\ gen' = [gen EXCEPT ![Frame(w).g].gate = Leave(@)]
    /\ IF Frame(w).message
       THEN Become(w, [at |-> "drop", g |-> Frame(w).g]) ELSE Return(w)
    /\ UNCHANGED <<sessionVars, queue, device, lane, mailVars, ghosts, fault>>
Drop(t) ==
    /\ At(t, "drop")
    /\ GiveBack(Frame(t).g, 1, 0)
    /\ Return(t)
    /\ UNCHANGED <<dgate, ngate, queue, device, lane, mailVars, ghosts>>

-----------------------------------------------------------------------------
(* tundeviceBringUp and deviceReaderSessionBegin: the generation, then the *)
(* gates, then admission.  The calls of the device's owner follow one      *)
(* another: a worker brings the device up, and down when its startup       *)
(* fails; the thread that stops the program brings it down in the end.     *)
OwnerStates ==
    {"openGates", "openReader", "start", "closeAdmission", "closeNotify",
     "closeDelivery", "closeReader", "tell", "wait", "settled"}
OwnerIdle ==
    \A t \in Threads :
       ~Idle(t) => Last(stack[t]).at \notin OwnerStates
Begin(t) ==
    /\ OwnerIdle /\ Idle(t) /\ device.lifecycle = "down"
    /\ session.generation < load.gens /\ ~halting
    /\ device' = [device EXCEPT !.lifecycle = "starting"]
    /\ session' = [session EXCEPT !.generation = @ + 1]
    /\ Call(t, [at |-> "openGates"])
    /\ fault' = (fault \/ ~Quiesced(dgate) \/ ~Quiesced(ngate))
    /\ UNCHANGED <<dgate, ngate, queue, gen, lane, mailVars, ghosts>>
OpenGates(t) ==
    /\ At(t, "openGates")
    /\ dgate' = [dgate EXCEPT !.open = TRUE]
    /\ ngate' = [ngate EXCEPT !.open = TRUE]
    /\ Goto(t, "openReader")
    /\ UNCHANGED <<session, queue, readerVars, mailVars, ghosts, fault>>
(* Admission, which nobody asks for before there are lanes, and            *)
(* tunReaderOpen: published, then a message to every lane.                 *)
OpenReader(t) ==
    /\ At(t, "openReader")
    /\ LET g == session.generation IN
       /\ gen' = [gen EXCEPT ![g].refs = 1, ![g].gate.open = TRUE]
       /\ device' = [device EXCEPT !.reader = g, !.notify = g]
       /\ Become(t, [at |-> "start", g |-> g, rest |-> LaneOrder])
    /\ session' = [Ref(session) EXCEPT !.admission = TRUE]
    /\ UNCHANGED <<dgate, ngate, queue, lane, mailVars, ghosts, fault>>
(* The interface does not come up: the gates close again, and the device   *)
(* is down whatever follows.                                               *)
Stopping(then) == [at |-> "closeAdmission", then |-> then]
InterfaceFails(t) ==
    /\ At(t, "openReader")
    /\ Fails
    /\ session' = [session EXCEPT !.admission = TRUE]
    /\ Become(t, Stopping("abandon"))
    /\ UNCHANGED <<dgate, ngate, queue, readerVars, mailVars, reads, born, load, fate,
                   fault>>
StartLane(t) ==
    /\ At(t, "start") /\ Frame(t).rest # << >>
    /\ ScheduleLane(Frame(t).g, Head(Frame(t).rest), FALSE)
    /\ stack' = [stack EXCEPT ![t][1].rest = Tail(@)]
    /\ UNCHANGED <<sessionVars, queue, device, phase, halting, ghosts>>
(* A lane's message is refused, or a lane has failed when the device would *)
(* be up: everything is undone.                                            *)
Rollback(t) ==
    /\ device' = [device EXCEPT !.lifecycle = "stopping"]
    /\ Become(t, Stopping("wait"))
StartRefused(t) ==
    /\ At(t, "start") /\ Frame(t).rest # << >>
    /\ Fails
    /\ Rollback(t)
    /\ UNCHANGED <<sessionVars, queue, gen, lane, mailVars, reads, born, load, fate,
                   fault>>
Up(t) ==
    /\ At(t, "start") /\ Frame(t).rest = << >>
    /\ IF device.lifecycle = "starting"
       THEN device' = [device EXCEPT !.lifecycle = "up"] /\ Return(t)
       ELSE Rollback(t)
    /\ UNCHANGED <<sessionVars, queue, gen, lane, mailVars, ghosts, fault>>

(* tundeviceRequestStop, alone when the program shuts down, and as the     *)
(* first part of tundeviceBringDown, which may be called again when it has *)
(* left the device stopping.                                               *)
RequestStop(t, then) ==
    /\ OwnerIdle /\ Idle(t)
    /\ device' = [device EXCEPT !.lifecycle =
                     IF @ = "down" THEN @ ELSE "stopping"]
    /\ Call(t, Stopping(then))
    /\ UNCHANGED <<sessionVars, queue, gen, lane, mailVars, ghosts, fault>>
BringDown(t) ==
    /\ device.lifecycle \in {"up", "failed", "stopping"}
    /\ IF halting THEN /\ t = Owner
                       /\ \A w \in Workers : phase[w] = "quiesced" /\ Idle(w)
                  ELSE t \in load.starters
    /\ RequestStop(t, "wait")
OnQuiesceRequest ==
    /\ ~halting /\ load.halts
    /\ RequestStop(Owner, "halt")

(* deviceReaderSessionEndRequest.                                          *)
CloseAdmission(t) ==
    /\ At(t, "closeAdmission")
    /\ session' = [session EXCEPT !.admission = FALSE]
    /\ Goto(t, "closeNotify")
    /\ UNCHANGED <<dgate, ngate, queue, readerVars, mailVars, ghosts, fault>>
CloseNotify(t) ==
    /\ At(t, "closeNotify")
    /\ ngate' = [ngate EXCEPT !.open = FALSE]
    /\ Goto(t, "closeDelivery")
    /\ UNCHANGED <<session, dgate, queue, readerVars, mailVars, ghosts, fault>>
CloseDelivery(t) ==
    /\ At(t, "closeDelivery")
    /\ dgate' = [dgate EXCEPT !.open = FALSE]
    /\ CallThen(t, [at |-> "signal"], [Frame(t) EXCEPT !.at = "closeReader"])
    /\ UNCHANGED <<session, ngate, queue, readerVars, mailVars, ghosts, fault>>
(* tunReaderCloseRequest: every lane is told, to let go of its descriptor. *)
CloseReader(t) ==
    /\ At(t, "closeReader")
    /\ LET g == device.reader IN
       /\ gen' = IF g = 0 THEN gen ELSE [gen EXCEPT ![g].gate.open = FALSE]
       /\ Become(t, [at |-> "tell", g |-> g, then |-> Frame(t).then,
                     rest |-> IF g = 0 THEN << >> ELSE LaneOrder])
    /\ UNCHANGED <<sessionVars, queue, device, lane, mailVars, ghosts, fault>>
TellLane(t) ==
    /\ At(t, "tell") /\ Frame(t).rest # << >>
    /\ ScheduleLane(Frame(t).g, Head(Frame(t).rest), TRUE)
    /\ stack' = [stack EXCEPT ![t][1].rest = Tail(@)]
    /\ UNCHANGED <<sessionVars, queue, device, phase, halting, ghosts>>
Told(t) ==
    /\ At(t, "tell") /\ Frame(t).rest = << >>
    /\ IF Frame(t).then = "halt" THEN halting' = TRUE /\ Return(t)
                                 ELSE Goto(t, "wait") /\ UNCHANGED halting
    /\ UNCHANGED <<sessionVars, queue, readerVars, inbox, phase, ghosts,
                   fault>>

(* deviceReaderSessionEndWait and tunReaderCloseWait: closed gates only    *)
(* empty, so that the waits may be one.  A worker that waits here cannot   *)
(* serve its lane and lets go of its descriptor itself.  What the lanes    *)
(* still hold is destroyed and the generation let go.                      *)
Left(g) == {lane[g][w].pending : w \in Workers} \ {None}
WaitReader(t, g) ==
    LET own == {w \in Workers \cap {t} : lane[g][w].io} IN
    /\ Quiesced(gen[g].gate) /\ gen[g].attached = Cardinality(own)
    /\ gen' = [gen EXCEPT ![g].refs = @ - Cardinality(own), ![g].attached = 0]
    /\ lane' = [lane EXCEPT ![g] = [w \in Workers |->
                  [lane[g][w] EXCEPT !.pending = None, !.io = FALSE,
                                     !.interest = FALSE]]]
    /\ fault' = (fault \/ gen[g].refs <= Cardinality(own)
                 \/ \E h \in Left(g) : ~Held(h.p))
    /\ fate' = [p \in Packets |->
                  IF \E h \in Left(g) : h.p = p THEN "discarded" ELSE fate[p]]
    /\ device' = [device EXCEPT !.reader = 0, !.notify = 0]
    /\ CallThen(t, [at |-> "drop", g |-> g],
                [at |-> "settled", then |-> Frame(t).then])
Wait(t) ==
    /\ At(t, "wait") /\ Quiesced(ngate) /\ Quiesced(dgate)
    /\ IF device.reader # 0
       THEN WaitReader(t, device.reader)
       ELSE Goto(t, "settled") /\ UNCHANGED <<readerVars, fate, fault>>
    /\ UNCHANGED <<sessionVars, queue, mailVars, reads, failures, born, load>>
(* The interface may not go down: the device is left stopping.             *)
SetDown(t) ==
    /\ At(t, "settled")
    /\ \/ /\ device' = [device EXCEPT !.lifecycle = "down"]
          /\ UNCHANGED failures
       \/ Frame(t).then = "wait" /\ Fails /\ UNCHANGED device
    /\ Return(t)
    /\ UNCHANGED <<sessionVars, queue, gen, lane, mailVars, reads, born, load, fate,
                   fault>>
(* tundeviceDestroy, after the workers.                                    *)
Destroy ==
    /\ OwnerIdle /\ halting /\ device.lifecycle = "down"
    /\ \A w \in Workers : phase[w] = "quiesced" /\ Idle(w)
    /\ device' = [device EXCEPT !.lifecycle = "destroyed"]
    /\ session' = Unref(session)
    /\ UNCHANGED <<dgate, ngate, queue, gen, lane, mailVars, stack, ghosts,
                   fault>>

-----------------------------------------------------------------------------
(* The mailbox closes, whatever its worker is doing; the worker then lets  *)
(* go of the lane's descriptor and cancels what the mailbox holds.         *)
CloseMailbox(w) ==
    /\ phase[w] = "running" /\ halting
    /\ phase' = [phase EXCEPT ![w] = "closing"]
    /\ UNCHANGED <<sessionVars, queue, readerVars, inbox, halting, stack,
                   ghosts, fault>>
Quiesce(w) ==
    /\ Idle(w) /\ phase[w] = "closing"
    /\ Call(w, [at |-> "emptyInbox"])
    /\ phase' = [phase EXCEPT ![w] = "quiesced"]
    /\ IF device.reader = 0
       THEN UNCHANGED <<session, gen, lane, fault>>
       ELSE Detach(w, device.reader, FALSE)
    /\ UNCHANGED <<dgate, ngate, queue, device, inbox, halting, ghosts>>
CancelMessage(w) ==
    /\ At(w, "emptyInbox")
    /\ \/ /\ inbox[w] = << >> /\ Return(w)
          /\ UNCHANGED <<lane, inbox>>
       \/ /\ inbox[w] # << >> /\ Head(inbox[w]).kind = "drain"
          /\ Call(w, [at |-> "cancel", q |-> w])
          /\ inbox' = [inbox EXCEPT ![w] = Tail(@)]
          /\ UNCHANGED lane
       \/ /\ inbox[w] # << >> /\ Head(inbox[w]).kind = "lane"
          /\ Call(w, [at |-> "drop", g |-> Head(inbox[w]).g])
          /\ lane' = [lane EXCEPT ![Head(inbox[w]).g][w].scheduled = FALSE]
          /\ inbox' = [inbox EXCEPT ![w] = Tail(@)]
    /\ UNCHANGED <<sessionVars, queue, device, gen, phase, halting, ghosts,
                   fault>>

-----------------------------------------------------------------------------
Common(t) ==
    \/ Release(t) \/ Signal(t) \/ Notify(t) \/ LoadNotify(t) \/ Visit(t)
    \/ LeaveNotify(t) \/ Drop(t) \/ AbortPost(t)
StartStep(w) ==
    \/ OpenGates(w) \/ OpenReader(w) \/ InterfaceFails(w) \/ StartLane(w)
    \/ StartRefused(w) \/ Up(w)
StopStep(t) ==
    \/ CloseAdmission(t) \/ CloseNotify(t) \/ CloseDelivery(t)
    \/ CloseReader(t) \/ TellLane(t) \/ Told(t) \/ Wait(t) \/ SetDown(t)
Worker(w) ==
    /\ Alive
    /\ \/ Common(w) \/ StartStep(w) \/ StopStep(w)
       \/ Schedule(w) \/ Cancel(w) \/ Cleanup(w) \/ Cleaned(w) \/ UnrefToken(w)
       \/ Look(w) \/ LookEnds(w) \/ Deliver(w) \/ LeaveDelivery(w)
       \/ TakeMessage(w) \/ RunEnter(w) \/ RunNoIo(w) \/ RunDetach(w)
       \/ Read(w) \/ ReadEnds(w) \/ Publish(w) \/ Reserve(w) \/ Budget(w)
       \/ Refused(w) \/ Post(w) \/ AppendMessage(w) \/ Posted(w)
       \/ Rearm(w) \/ LeaveRun(w)
       \/ CloseMailbox(w) \/ Quiesce(w) \/ CancelMessage(w)
OwnerStep == Alive /\ (Common(Owner) \/ StopStep(Owner) \/ Destroy)

(* The process has ended, or the load is over.                             *)
Over ==
    /\ \/ device.lifecycle \in {"destroyed", "aborted"}
       \/ /\ ~load.halts /\ device.lifecycle = "down"
          /\ session.generation = load.gens
    /\ UNCHANGED vars

Next ==
    \/ \E w \in Workers : Worker(w)
    \/ OwnerStep
    \/ Alive /\ \/ \E w \in Workers : Ready(w)
                \/ \E t \in load.starters : Begin(t)
                \/ \E t \in load.starters \cup {Owner} : BringDown(t)
                \/ OnQuiesceRequest
    \/ Over

Spec == Init /\ [][Next]_vars

(* Threads go on, and a loop serves its messages however often its         *)
(* descriptor is reported readable.  The owner finishes what it has begun, *)
(* stops the program when a device that was up has failed, and brings the  *)
(* device down once the workers are quiet; it need not ever begin to.      *)
FairSpec ==
    /\ Spec
    /\ \A w \in Workers : WF_vars(Worker(w)) /\ SF_vars(Alive /\ TakeMessage(w))
    /\ WF_vars(OwnerStep)
    /\ WF_vars(device.lifecycle = "failed" /\ OnQuiesceRequest)
    /\ WF_vars(halting /\ Alive /\ BringDown(Owner))

-----------------------------------------------------------------------------
Frames(at) == UNION {{t} \X {n \in DOMAIN stack[t] : stack[t][n].at \in at} :
                       t \in Threads}
FrameOf(f) == stack[f[1]][f[2]]
Queued == UNION {{<<q, n>> : n \in DOMAIN queue[q].fifo} : q \in Workers}
TokensOf(q) ==
    Cardinality({n \in DOMAIN inbox[q] : inbox[q][n].kind = "drain"})
      + Cardinality({f \in Frames({"schedule", "cancel"}) : FrameOf(f).q = q})
      + Cardinality({f \in Frames({"look", "deliver", "leave"}) : f[1] = q})
      + (IF queue[q].burst = "owns" THEN 1 ELSE 0)
Sum(S, c(_)) == FoldSet(LAMBDA x, s : s + c(x), 0, S)
(* The packets that hold a reservation.                                    *)
Reserved ==
    {p \in Packets :
       \/ /\ \E q \in Workers : \E n \in DOMAIN queue[q].fifo :
                queue[q].fifo[n].p = p
          /\ \A f \in Frames({"leave"}) : FrameOf(f).m.p # p
       \/ \E f \in Frames({"post", "append"}) :
             lane[FrameOf(f).g][f[1]].pending.p = p
       \/ \E f \in Frames({"cleanup", "cleaned"}) :
             \E n \in DOMAIN FrameOf(f).rest : FrameOf(f).rest[n].p = p
       \/ \E f \in Frames({"release"}) : FrameOf(f).p = p}

(* The references to the session: the owner's, one for each generation of  *)
(* the reader, one for each message wherever it is, one for each token.    *)
References ==
    (IF device.lifecycle = "destroyed" THEN 0 ELSE 1)
      + Cardinality({g \in Gens : gen[g].refs > 0})
      + Cardinality(Queued) + Cardinality(Frames({"append"}))
      + Sum(Frames({"cleanup", "cleaned"}), LAMBDA f : Len(FrameOf(f).rest))
      + Cardinality(Frames({"cleaned"}))
      + Cardinality({q \in Workers : queue[q].scheduled})
      + Cardinality(Frames({"cleanup", "cleaned", "unref"}))

(* No assertion of the reader fails and nothing is freed too early or      *)
(* twice: the budget is exactly what reserved packets hold, references are *)
(* exactly those who will give one back, a queue with packets has exactly  *)
(* one token, and whoever is inside a gate of a generation finds it alive. *)
ReaderInv ==
    /\ ~fault
    /\ session.packets = Cardinality(Reserved)
    /\ session.charge = Sum(Reserved, PacketCharge)
    /\ session.packets <= PacketLimit /\ session.charge <= ChargeLimit
    /\ session.refs = References
    /\ \A q \in Workers :
          /\ TokensOf(q) = IF queue[q].scheduled THEN 1 ELSE 0
          /\ queue[q].fifo # << >> => queue[q].scheduled
    /\ \A g \in Gens :
          /\ gen[g].gate.inside > 0 => gen[g].refs > 0
          /\ gen[g].attached = Cardinality({w \in Workers : lane[g][w].io})
    /\ device.lifecycle = "destroyed" =>
          session.refs = 0 /\ \A p \in Packets : ~Held(p)

(* A packet is delivered into the device's callback only in the generation *)
(* in which it was read, before the owner's wait for that generation is    *)
(* over, though packets of an earlier one may still be queued when the     *)
(* device is opened again.                                                 *)
NoStaleDelivery ==
    [][\A p \in Packets :
          (fate[p] # fate'[p] /\ fate'[p] = "delivered") =>
             born[p] = session.generation /\ dgate.inside > 0]_vars

(* A lane that was refused for want of budget and does not listen any more *)
(* is called again when budget is freed, until its packet is posted; and   *)
(* what the owner begins ends: as the traffic is finite, there is always a *)
(* later moment when no lane of an open generation waits and the owner is  *)
(* through, unless the process had to abort.                               *)
CapacityWakes ==
    []<>\/ ~Alive
        \/ /\ OwnerIdle
           /\ \A g \in Gens, w \in Workers :
                 gen[g].gate.open => ~lane[g][w].waiting
=============================================================================
