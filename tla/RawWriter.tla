------------------------------ MODULE RawWriter -----------------------------
(***************************************************************************)
(* Worker-owned output of a raw device (ww/devices/raw/raw_writer.c).      *)
(*                                                                         *)
(* Each bring-up of the device opens a generation with one lane per        *)
(* worker.  A worker appends packets to its lane; a token, which is a      *)
(* worker message with a reference on the generation, makes the worker     *)
(* write a batch and posts itself again while something is left.  A write  *)
(* that blocks is retried after a delay, or, when the delay is zero, by a  *)
(* notification from a foreign thread, while the native call borrows the   *)
(* first packet.  The owner of the device closes a generation while        *)
(* producers, tokens and notifications are under way, opens another one,   *)
(* and frees them all at the end.                                          *)
(*                                                                         *)
(* The quiescence gate is taken at its abstract level: entering is refused *)
(* once it is closed, and closing waits for everyone inside.  Steps are    *)
(* the accesses other threads can tell apart; what only the owning worker  *)
(* touches goes with the access before it.                                 *)
(***************************************************************************)
EXTENDS Integers, Sequences, FiniteSets, SequencesExt

CONSTANTS
    Workers,
    MaxGens,      \* bound: bring-ups of the device
    PacketLimit,  \* packet_limit
    BatchMax,     \* kRawWriterBatchPackets
    Delays,       \* the values of retry_delay_ms
    Sends,        \* bound: Sends[w], packets a worker tries to send
    MaxRefusals,  \* bound: messages an open mailbox refuses
    MaxStalls     \* bound: writes that make no progress

ASSUME RawWriterAssumption ==
    /\ IsFiniteSet(Workers)
    /\ MaxGens \in Nat /\ PacketLimit \in Nat \ {0} /\ BatchMax \in Nat \ {0}
    /\ Delays \subseteq Nat /\ MaxRefusals \in Nat /\ MaxStalls \in Nat
    /\ \A w \in Workers : Sends[w] \in Nat

VARIABLES
    published,  \* published_generation, 0 for NULL
    current,    \* current, 0 for NULL
    retired,    \* generations in the retired list
    opened,     \* generations opened so far
    mem,        \* mem[g]: "none", "live" or "freed"
    open,       \* open[g]: the gate admits
    inside,     \* inside[g]: operations the gate has admitted
    references, failed, packets,    \* fields of generation g
    scheduled, cancelled,           \* flags of lane <<g, w>>
    buffers,    \* buffers of the lane, first to last
    batch,      \* batch[batch_offset .. batch_count) of the lane
    borrowed,   \* lanes whose first packet a native call holds
    notifier,   \* notifier[l]: the lane's notification: none, armed or inside
    leaving,    \* leaving[l]: notifications posted but still in the gate
    mailbox,    \* mailbox[w]: generations whose token is queued at w
    timed,      \* timed[w]: generations whose token waits for its time
    phase,      \* phase[w]: running, closing or quiesced
    pc,         \* pc[w]: the operation the worker's thread is in
    owner,      \* what the owner of the device is doing
    sent,       \* sent[w]: packets the worker has tried to send
    fate,       \* fate[p]: "user", "owned", "written" or "dropped"
    out,        \* out[w]: packets written, in order
    shutdown,   \* requestProgramShutdown: asked, and the drains due to ask
    delay,      \* retry_delay_ms; zero selects notification
    refusals, stalls,
    fault       \* an assertion failed or freed storage was used

Gens == 1 .. MaxGens
Lanes == Gens \X Workers
Packets == UNION {{w} \X (1 .. Sends[w]) : w \in Workers}

genVars == <<mem, open, inside, references, failed, packets>>
laneVars == <<scheduled, cancelled, buffers, batch>>
native == <<borrowed, notifier, leaving>>
writerVars == <<published, current, retired, opened, owner>>
queueVars == <<mailbox, timed, phase>>
limits == <<delay, refusals, stalls>>
vars == <<writerVars, genVars, laneVars, native, queueVars, pc, sent, fate,
          out, shutdown, limits, fault>>

Idle == [at |-> "idle", g |-> 0]

Init ==
    /\ published = 0 /\ current = 0 /\ retired = {} /\ opened = 0
    /\ mem = [g \in Gens |-> "none"]
    /\ open = [g \in Gens |-> FALSE]
    /\ inside = [g \in Gens |-> 0]
    /\ references = [g \in Gens |-> 0]
    /\ failed = [g \in Gens |-> FALSE]
    /\ packets = [g \in Gens |-> 0]
    /\ scheduled = [l \in Lanes |-> FALSE]
    /\ cancelled = [l \in Lanes |-> FALSE]
    /\ buffers = [l \in Lanes |-> << >>]
    /\ batch = [l \in Lanes |-> << >>]
    /\ borrowed = {}
    /\ notifier = [l \in Lanes |-> "none"]
    /\ leaving = [l \in Lanes |-> 0]
    /\ mailbox = [w \in Workers |-> << >>]
    /\ timed = [w \in Workers |-> << >>]
    /\ phase = [w \in Workers |-> "running"]
    /\ pc = [w \in Workers |-> Idle]
    /\ owner = "idle"
    /\ sent = [w \in Workers |-> 0]
    /\ fate = [p \in Packets |-> "user"]
    /\ out = [w \in Workers |-> << >>]
    /\ shutdown = [asked |-> FALSE, due |-> {}]
    /\ delay \in Delays /\ refusals = 0 /\ stalls = 0 /\ fault = FALSE

-----------------------------------------------------------------------------
At(w, at) == pc[w].at = at
Goto(w, at) == pc' = [pc EXCEPT ![w].at = at]
Lane(w) == <<pc[w].g, w>>
Gone(g) == mem[g] # "live"
Touch(g) == fault' = (fault \/ Gone(g))

(* rawWriterGenerationUnref: the last reference frees the generation,      *)
(* which has to be closed and empty.                                       *)
Unref(g) ==
    /\ references' = [references EXCEPT ![g] = @ - 1]
    /\ mem' = [mem EXCEPT ![g] = IF references[g] = 1 THEN "freed" ELSE @]
    /\ fault' = (fault \/ Gone(g) \/ references[g] = 0
                 \/ (references[g] = 1
                     /\ (open[g] \/ inside[g] # 0 \/ packets[g] # 0)))

(* rawWriterPostToken: a refused message is cleaned up by the sender: the  *)
(* lane is marked and the reference given back.                            *)
Accept(g, w, after) ==
    /\ phase[w] = "running"
    /\ references' = [references EXCEPT ![g] = @ + 1]
    /\ IF after = 0
       THEN mailbox' = [mailbox EXCEPT ![w] = Append(@, g)] /\ UNCHANGED timed
       ELSE timed' = [timed EXCEPT ![w] = Append(@, g)] /\ UNCHANGED mailbox
    /\ UNCHANGED <<cancelled, refusals>>
Refuse(g, w) ==
    /\ phase[w] # "running" \/ refusals < MaxRefusals
    /\ refusals' = IF phase[w] = "running" THEN refusals + 1 ELSE refusals
    /\ cancelled' = [cancelled EXCEPT ![<<g, w>>] = TRUE]
    /\ UNCHANGED <<references, mailbox, timed>>

-----------------------------------------------------------------------------
(* rawWriterTrySend, from a callback of the worker's loop.  The packets of *)
(* a worker are numbered in the order in which it offers them, those apart *)
(* that it offers while nothing is published.                              *)
Packet(w) == <<w, sent[w]>>
SelectGeneration(w) ==
    /\ At(w, "idle") /\ phase[w] = "running" /\ owner \notin {"destroy", "gone"}
    /\ sent[w] < Sends[w] /\ published # 0
    /\ sent' = [sent EXCEPT ![w] = @ + 1]
    /\ pc' = [pc EXCEPT ![w] = [at |-> "enter", g |-> published]]
    /\ UNCHANGED <<writerVars, genVars, laneVars, native, queueVars, fate, out,
                   shutdown, limits, fault>>

EnterToSend(w) ==
    /\ At(w, "enter")
    /\ LET g == pc[w].g IN
       /\ Touch(g)
       /\ IF open[g]
          THEN inside' = [inside EXCEPT ![g] = @ + 1] /\ Goto(w, "check")
          ELSE pc' = [pc EXCEPT ![w] = Idle] /\ UNCHANGED inside
    /\ UNCHANGED <<writerVars, mem, open, references, failed, packets,
                   laneVars, native, queueVars, sent, fate, out, shutdown,
                   limits>>

CheckLane(w) ==
    /\ At(w, "check")
    /\ Goto(w, IF failed[pc[w].g] \/ cancelled[Lane(w)] THEN "leaveSend"
                                                        ELSE "reserve")
    /\ UNCHANGED <<writerVars, genVars, laneVars, native, queueVars, sent,
                   fate, out, shutdown, limits, fault>>

(* rawWriterReservePacket; the packet then joins the lane.                 *)
Reserve(w) ==
    /\ At(w, "reserve")
    /\ LET g == pc[w].g IN
       IF packets[g] >= PacketLimit
       THEN Goto(w, "leaveSend") /\ UNCHANGED <<packets, buffers, fate>>
       ELSE /\ packets' = [packets EXCEPT ![g] = @ + 1]
            /\ buffers' = [buffers EXCEPT ![Lane(w)] = Append(@, Packet(w))]
            /\ fate' = [fate EXCEPT ![Packet(w)] = "owned"]
            /\ Goto(w, IF scheduled[Lane(w)] THEN "leaveSend" ELSE "schedule")
    /\ UNCHANGED <<writerVars, mem, open, inside, references, failed,
                   scheduled, cancelled, batch, native, queueVars, sent, out,
                   shutdown, limits, fault>>

ScheduleSend(w) ==
    /\ At(w, "schedule")
    /\ LET g == pc[w].g IN
       \/ /\ Accept(g, w, 0)
          /\ scheduled' = [scheduled EXCEPT ![Lane(w)] = TRUE]
          /\ Goto(w, "leaveSend")
       \/ /\ Refuse(g, w)
          /\ Goto(w, "undo")
          /\ UNCHANGED scheduled
    /\ UNCHANGED <<writerVars, mem, open, inside, failed, packets, buffers,
                   batch, native, phase, sent, fate, out, shutdown, delay,
                   stalls, fault>>

(* The packet goes back to the caller, and the lane is usable again.       *)
UndoSend(w) ==
    /\ At(w, "undo")
    /\ LET g == pc[w].g
           l == Lane(w) IN
       /\ fault' = (fault \/ batch[l] # << >> \/ Len(buffers[l]) # 1
                    \/ packets[g] = 0)
       /\ buffers' = [buffers EXCEPT ![l] = Front(@)]
       /\ cancelled' = [cancelled EXCEPT ![l] = FALSE]
       /\ packets' = [packets EXCEPT ![g] = @ - 1]
    /\ fate' = [fate EXCEPT ![Packet(w)] = "user"]
    /\ Goto(w, "leaveSend")
    /\ UNCHANGED <<writerVars, mem, open, inside, references, failed,
                   scheduled, batch, native, queueVars, sent, out, shutdown,
                   limits>>

Leave(w) ==
    /\ At(w, "leaveSend") \/ At(w, "leaveDrain")
    /\ LET g == pc[w].g IN
       Touch(g) /\ inside' = [inside EXCEPT ![g] = @ - 1]
    /\ IF At(w, "leaveSend") THEN pc' = [pc EXCEPT ![w] = Idle]
                             ELSE Goto(w, "unref")
    /\ UNCHANGED <<writerVars, mem, open, references, failed, packets,
                   laneVars, native, queueVars, sent, fate, out, shutdown,
                   limits>>

-----------------------------------------------------------------------------
(* A timed token reaches the loop of its worker.                           *)
Expire(w) ==
    /\ phase[w] = "running" /\ timed[w] # << >>
    /\ mailbox' = [mailbox EXCEPT ![w] = Append(@, Head(timed[w]))]
    /\ timed' = [timed EXCEPT ![w] = Tail(@)]
    /\ UNCHANGED <<writerVars, genVars, laneVars, native, phase, pc, sent,
                   fate, out, shutdown, limits, fault>>

(* rawWriterDrain, up to the write.                                        *)
BeginDrain(w) ==
    /\ At(w, "idle") /\ phase[w] = "running" /\ mailbox[w] # << >>
    /\ mailbox' = [mailbox EXCEPT ![w] = Tail(@)]
    /\ LET g == Head(mailbox[w]) IN
       /\ Touch(g)
       /\ pc' = [pc EXCEPT ![w] =
                   [at |-> IF open[g] THEN "drain" ELSE "unref", g |-> g]]
       /\ inside' = [inside EXCEPT ![g] = IF open[g] THEN @ + 1 ELSE @]
    /\ UNCHANGED <<writerVars, mem, open, references, failed, packets,
                   laneVars, native, timed, phase, sent, fate, out, shutdown,
                   limits>>

\* Mutant of FillBatch: the batch is filled from the end of the queue.
FillBatch_PullBack(l) ==
    LET n == IF Len(buffers[l]) < BatchMax THEN Len(buffers[l]) ELSE BatchMax IN
    IF batch[l] = << >>
    THEN /\ batch' = [batch EXCEPT ![l] = SubSeq(Reverse(buffers[l]), 1, n)]
         /\ buffers' = [buffers EXCEPT ![l] = SubSeq(@, 1, Len(@) - n)]
    ELSE UNCHANGED <<batch, buffers>>

FillBatch(l) ==
    LET n == IF Len(buffers[l]) < BatchMax THEN Len(buffers[l]) ELSE BatchMax IN
    IF batch[l] = << >>
    THEN /\ batch' = [batch EXCEPT ![l] = SubSeq(buffers[l], 1, n)]
         /\ buffers' = [buffers EXCEPT ![l] = SubSeq(@, n + 1, Len(@))]
    ELSE UNCHANGED <<batch, buffers>>

PrepareDrain(w) ==
    /\ At(w, "drain")
    /\ LET g == pc[w].g
           l == Lane(w) IN
       /\ scheduled' = [scheduled EXCEPT ![l] = FALSE]
       /\ IF failed[g] \/ cancelled[l]
          THEN Goto(w, "leaveDrain") /\ UNCHANGED <<batch, buffers>>
          ELSE FillBatch(l) /\ Goto(w, "write")
    /\ UNCHANGED <<writerVars, genVars, cancelled, native, queueVars, sent,
                   fate, out, shutdown, limits, fault>>

(* write_batch consumes a prefix and the packets are given back.  A        *)
(* blocked call may borrow the first packet that is left.  A token never   *)
(* finds its lane empty.                                                   *)
Write(w, n, status) ==
    /\ At(w, "write") /\ batch[Lane(w)] # << >>
    /\ LET g == pc[w].g
           l == Lane(w) IN
       /\ n <= Len(batch[l])
       /\ status = "blocked" => n < Len(batch[l])
       /\ n > 0 \/ status = "failed" \/ stalls < MaxStalls
       /\ stalls' = IF n > 0 \/ status = "failed" THEN stalls ELSE stalls + 1
       /\ out' = [out EXCEPT ![w] = @ \o SubSeq(batch[l], 1, n)]
       /\ fate' = [p \in Packets |->
                     IF p \in Range(SubSeq(batch[l], 1, n)) THEN "written"
                                                            ELSE fate[p]]
       /\ batch' = [batch EXCEPT ![l] = SubSeq(@, n + 1, Len(@))]
       /\ packets' = [packets EXCEPT ![g] = @ - n]
       /\ failed' = [failed EXCEPT ![g] = @ \/ status = "failed"]
       /\ fault' = (fault \/ Gone(g) \/ current # g \/ packets[g] < n
                    \/ notifier[l] = "armed")
       /\ LET more == n < Len(batch[l]) \/ buffers[l] # << >>
              awaits == status = "blocked" /\ delay = 0 IN
          /\ borrowed' = IF awaits THEN borrowed \cup {l} ELSE borrowed \ {l}
          /\ notifier' = [notifier EXCEPT ![l] = IF awaits THEN "armed" ELSE @]
          /\ scheduled' = [scheduled EXCEPT ![l] = awaits]
          /\ Goto(w, CASE status = "failed" /\ ~failed[g] -> "leaveFailed"
                       [] status = "failed" /\ failed[g] -> "leaveDrain"
                       [] status # "failed" /\ more /\ ~awaits ->
                             IF status = "blocked" THEN "retry" ELSE "again"
                       [] OTHER -> "leaveDrain")
    /\ UNCHANGED <<writerVars, mem, open, inside, references, cancelled,
                   buffers, leaving, queueVars, sent, shutdown, delay,
                   refusals>>

\* Mutant of ScheduleDrain: nobody looks after a write that blocked.
ScheduleDrain_OnlyProgress(w) ==
    /\ At(w, "again") \/ At(w, "retry")
    /\ \/ /\ At(w, "again") /\ Accept(pc[w].g, w, 0)
          /\ scheduled' = [scheduled EXCEPT ![Lane(w)] = TRUE]
       \/ /\ At(w, "again") /\ Refuse(pc[w].g, w) /\ UNCHANGED scheduled
       \/ /\ At(w, "retry")
          /\ UNCHANGED <<scheduled, references, mailbox, timed, cancelled,
                         refusals>>
    /\ Goto(w, "leaveDrain")
    /\ UNCHANGED <<writerVars, mem, open, inside, failed, packets, buffers,
                   batch, native, phase, sent, fate, out, shutdown, delay,
                   stalls, fault>>

(* What is left is taken up by another token; a refusal leaves the packets *)
(* to the close.                                                           *)
ScheduleDrain(w) ==
    /\ At(w, "again") \/ At(w, "retry")
    /\ \/ /\ Accept(pc[w].g, w, IF At(w, "retry") THEN delay ELSE 0)
          /\ scheduled' = [scheduled EXCEPT ![Lane(w)] = TRUE]
       \/ Refuse(pc[w].g, w) /\ UNCHANGED scheduled
    /\ Goto(w, "leaveDrain")
    /\ UNCHANGED <<writerVars, mem, open, inside, failed, packets, buffers,
                   batch, native, phase, sent, fate, out, shutdown, delay,
                   stalls, fault>>

(* The drain that failed first asks for the shutdown after it has let go:  *)
(* it leaves the gate, and asks when it has given its reference back.  A   *)
(* request that fails aborts the process, after which there is no state.   *)
FailDrain(w) ==
    /\ At(w, "leaveFailed")
    /\ LET g == pc[w].g IN
       Touch(g) /\ inside' = [inside EXCEPT ![g] = @ - 1]
    /\ Goto(w, "unref")
    /\ shutdown' = [shutdown EXCEPT !.due = @ \cup {w}]
    /\ UNCHANGED <<writerVars, mem, open, references, failed, packets,
                   laneVars, native, queueVars, sent, fate, out, limits>>

EndDrain(w) ==
    /\ At(w, "unref")
    /\ Unref(pc[w].g)
    /\ pc' = [pc EXCEPT ![w] = Idle]
    /\ shutdown' = [asked |-> shutdown.asked \/ w \in shutdown.due,
                    due |-> shutdown.due \ {w}]
    /\ UNCHANGED <<writerVars, open, inside, failed, packets, laneVars, native,
                   queueVars, sent, fate, out, limits>>

-----------------------------------------------------------------------------
(* rawWriterNotify, on a foreign thread, once for a blocked call.          *)
EnterToNotify(l) ==
    /\ notifier[l] = "armed"
    /\ LET g == l[1] IN
       /\ Touch(g)
       /\ inside' = [inside EXCEPT ![g] = IF open[g] THEN @ + 1 ELSE @]
       /\ notifier' = [notifier EXCEPT ![l] = IF open[g] THEN "inside"
                                                        ELSE "none"]
    /\ UNCHANGED <<writerVars, mem, open, references, failed, packets,
                   laneVars, borrowed, leaving, queueVars, pc, sent, fate,
                   out, shutdown, limits>>

PostNotification(l) ==
    /\ notifier[l] = "inside"
    /\ LET g == l[1] IN
       \/ ~failed[g] /\ ~cancelled[l] /\ Accept(g, l[2], 0)
       \/ ~failed[g] /\ ~cancelled[l] /\ Refuse(g, l[2])
       \/ /\ failed[g] \/ cancelled[l]
          /\ UNCHANGED <<references, mailbox, timed, cancelled, refusals>>
    /\ notifier' = [notifier EXCEPT ![l] = "none"]
    /\ leaving' = [leaving EXCEPT ![l] = @ + 1]
    /\ UNCHANGED <<writerVars, mem, open, inside, failed, packets, scheduled,
                   buffers, batch, borrowed, phase, pc, sent, fate, out,
                   shutdown, delay, stalls, fault>>

LeaveNotify(l) ==
    /\ leaving[l] > 0
    /\ LET g == l[1] IN
       Touch(g) /\ inside' = [inside EXCEPT ![g] = @ - 1]
    /\ leaving' = [leaving EXCEPT ![l] = @ - 1]
    /\ UNCHANGED <<writerVars, mem, open, references, failed, packets,
                   laneVars, borrowed, notifier, queueVars, pc, sent, fate,
                   out, shutdown, limits>>

-----------------------------------------------------------------------------
(* The owner of the device: rawWriterOpen.                                 *)
Open ==
    /\ owner = "idle" /\ current = 0 /\ opened < MaxGens /\ ~shutdown.asked
    /\ LET g == opened + 1 IN
       /\ opened' = g /\ current' = g /\ published' = g
       /\ mem' = [mem EXCEPT ![g] = "live"]
       /\ references' = [references EXCEPT ![g] = 1]
       /\ open' = [open EXCEPT ![g] = TRUE]
    /\ UNCHANGED <<retired, owner, inside, failed, packets, laneVars, native,
                   queueVars, pc, sent, fate, out, shutdown, limits, fault>>

(* rawWriterCloseRequest: producers stop finding the generation, then its  *)
(* gate stops admitting the ones that already have.                        *)
Unpublish ==
    /\ owner = "idle" /\ published # 0
    /\ published' = 0
    /\ owner' = "unpublished"
    /\ fault' = (fault \/ published # current)
    /\ UNCHANGED <<current, retired, opened, genVars, laneVars, native,
                   queueVars, pc, sent, fate, out, shutdown, limits>>
CloseGate ==
    /\ owner = "unpublished"
    /\ open' = [open EXCEPT ![current] = FALSE]
    /\ owner' = "wait"
    /\ UNCHANGED <<published, current, retired, opened, mem, inside,
                   references, failed, packets, laneVars, native, queueVars,
                   pc, sent, fate, out, shutdown, limits, fault>>

CurrentLanes == {current} \X Workers

\* Mutant of StopNative: the native calls are not waited for.
StopNative_Skipped ==
    /\ owner = "wait" /\ inside[current] = 0
    /\ owner' = "discard"
    /\ UNCHANGED <<published, current, retired, opened, genVars, laneVars,
                   native, queueVars, pc, sent, fate, out, shutdown, limits,
                   fault>>

(* rawWriterCloseWait: once the gate is quiet, stop_worker ends the native *)
(* calls and their notifications.                                          *)
StopNative ==
    /\ owner = "wait" /\ inside[current] = 0
    /\ borrowed' = borrowed \ CurrentLanes
    /\ notifier' = [l \in Lanes |-> IF l \in CurrentLanes THEN "none"
                                                         ELSE notifier[l]]
    /\ owner' = "discard"
    /\ UNCHANGED <<published, current, retired, opened, genVars, laneVars,
                   leaving, queueVars, pc, sent, fate, out, shutdown, limits,
                   fault>>

(* rawWriterDiscardLane for every lane; the generation is kept until the   *)
(* writer is destroyed.                                                    *)
Discard ==
    /\ owner = "discard"
    /\ LET held == UNION {Range(batch[l]) \cup Range(buffers[l]) :
                           l \in CurrentLanes} IN
       /\ fate' = [p \in Packets |-> IF p \in held THEN "dropped" ELSE fate[p]]
       /\ packets' = [packets EXCEPT ![current] = @ - Cardinality(held)]
       /\ fault' = (fault \/ borrowed \cap CurrentLanes # {}
                    \/ packets[current] < Cardinality(held)
                    \/ \E p \in held : fate[p] # "owned")
    /\ batch' = [l \in Lanes |-> IF l \in CurrentLanes THEN << >> ELSE batch[l]]
    /\ buffers' =
          [l \in Lanes |-> IF l \in CurrentLanes THEN << >> ELSE buffers[l]]
    /\ retired' = retired \cup {current}
    /\ current' = 0
    /\ owner' = "idle"
    /\ UNCHANGED <<published, opened, mem, open, inside, references, failed,
                   scheduled, cancelled, native, queueVars, pc, sent, out,
                   shutdown, limits>>

(* rawWriterDestroy, when no producer uses the writer any more; a token    *)
(* that is still queued keeps its generation.                              *)
Sending(w) ==
    pc[w].at \in {"enter", "check", "reserve", "schedule", "undo", "leaveSend"}
BeginDestroy ==
    /\ owner = "idle" /\ current = 0 /\ opened > 0
    /\ \A w \in Workers : ~Sending(w)
    /\ owner' = "destroy"
    /\ UNCHANGED <<published, current, retired, opened, genVars, laneVars,
                   native, queueVars, pc, sent, fate, out, shutdown, limits,
                   fault>>
DestroyOne(g) ==
    /\ owner = "destroy" /\ g \in retired
    /\ retired' = retired \ {g}
    /\ Unref(g)
    /\ owner' = IF retired = {g} THEN "gone" ELSE owner
    /\ UNCHANGED <<published, current, opened, open, inside, failed, packets,
                   laneVars, native, queueVars, pc, sent, fate, out, shutdown,
                   limits>>

-----------------------------------------------------------------------------
(* A worker closes its mailbox and cancels the tokens that are in it:      *)
(* rawWriterTokenCancelled.                                                *)
CloseMailbox(w) ==
    /\ phase[w] = "running"
    /\ phase' = [phase EXCEPT ![w] = "closing"]
    /\ UNCHANGED <<writerVars, genVars, laneVars, native, mailbox, timed, pc,
                   sent, fate, out, shutdown, limits, fault>>
CancelToken(w) ==
    /\ phase[w] = "closing" /\ At(w, "idle")
    /\ \E g \in Gens :
          /\ \/ /\ mailbox[w] # << >> /\ g = Head(mailbox[w])
                /\ mailbox' = [mailbox EXCEPT ![w] = Tail(@)]
                /\ UNCHANGED timed
             \/ /\ mailbox[w] = << >> /\ timed[w] # << >> /\ g = Head(timed[w])
                /\ timed' = [timed EXCEPT ![w] = Tail(@)]
                /\ UNCHANGED mailbox
          /\ cancelled' = [cancelled EXCEPT ![<<g, w>>] = TRUE]
          /\ Unref(g)
    /\ UNCHANGED <<writerVars, open, inside, failed, packets, scheduled,
                   buffers, batch, native, phase, pc, sent, fate, out,
                   shutdown, limits>>

-----------------------------------------------------------------------------
SendStep(w) ==
    \/ EnterToSend(w) \/ CheckLane(w) \/ Reserve(w) \/ ScheduleSend(w)
    \/ UndoSend(w) \/ Leave(w)
DrainStep(w) ==
    \/ Expire(w) \/ BeginDrain(w) \/ PrepareDrain(w)
    \/ \E n \in 0 .. BatchMax, status \in {"continue", "blocked", "failed"} :
          Write(w, n, status)
    \/ ScheduleDrain(w) \/ FailDrain(w) \/ EndDrain(w)
NotifyStep(l) == EnterToNotify(l) \/ PostNotification(l) \/ LeaveNotify(l)
CloseStep == CloseGate \/ StopNative \/ Discard
DestroyStep == BeginDestroy \/ \E g \in Gens : DestroyOne(g)

Over ==
    /\ owner = "gone" /\ \A w \in Workers : phase[w] = "closing"
    /\ UNCHANGED vars

Next ==
    \/ \E w \in Workers : \/ SelectGeneration(w) \/ SendStep(w)
                          \/ DrainStep(w) \/ CloseMailbox(w) \/ CancelToken(w)
    \/ \E l \in Lanes : NotifyStep(l)
    \/ Open \/ Unpublish \/ CloseStep \/ DestroyStep \/ Over

Spec == Init /\ [][Next]_vars

(* Loops serve their messages, native calls complete, a close that has     *)
(* begun goes on, and the program's shutdown, or the stop of a worker,     *)
(* brings the device down.                                                 *)
Stopping == shutdown.asked \/ \E w \in Workers : phase[w] # "running"
FairSpec ==
    /\ Spec
    /\ \A w \in Workers : WF_vars(SendStep(w) \/ DrainStep(w))
    /\ WF_vars(\E l \in Lanes : NotifyStep(l))
    /\ WF_vars(CloseStep) /\ WF_vars(Stopping /\ Unpublish)

-----------------------------------------------------------------------------
DrainStates ==
    {"drain", "write", "again", "retry", "leaveDrain", "leaveFailed", "unref"}
Draining(g) == {w \in Workers : pc[w].g = g /\ pc[w].at \in DrainStates}
Admitted(g) ==
    {w \in Workers : pc[w].g = g /\ pc[w].at \notin {"enter", "unref"}}
TokensAt(g, w) ==
    {n \in DOMAIN mailbox[w] : mailbox[w][n] = g} \X {"mailbox"}
      \cup {n \in DOMAIN timed[w] : timed[w][n] = g} \X {"timed"}
TokensOf(g) == UNION {TokensAt(g, w) \X {w} : w \in Workers}
Notifying(l) == notifier[l] \in {"armed", "inside"}
Held(g) ==
    UNION {Range(batch[<<g, w>>]) \cup Range(buffers[<<g, w>>]) : w \in Workers}

(* Notifications the gate has let in: those that have yet to post, and the *)
(* ones on their way out.                                                  *)
Notified(g) == {w \in Workers : notifier[<<g, w>>] = "inside"}
Leaving(g) == UNION {{w} \X (1 .. leaving[<<g, w>>]) : w \in Workers}

(* What keeps the lane going: a token, a drain that has not begun to look, *)
(* or a notification to come.                                              *)
Drivers(g, w) ==
    Cardinality(TokensAt(g, w))
      + (IF pc[w] = [at |-> "drain", g |-> g] THEN 1 ELSE 0)
      + (IF Notifying(<<g, w>>) THEN 1 ELSE 0)

-----------------------------------------------------------------------------
Places ==
    {"idle", "enter", "check", "reserve", "schedule", "undo", "leaveSend"}
      \cup DrainStates
TypeOK ==
    /\ published \in 0 .. MaxGens /\ current \in 0 .. MaxGens
    /\ opened \in 0 .. MaxGens /\ retired \subseteq Gens
    /\ owner \in {"idle", "unpublished", "wait", "discard", "destroy", "gone"}
    /\ mem \in [Gens -> {"none", "live", "freed"}]
    /\ open \in [Gens -> BOOLEAN] /\ failed \in [Gens -> BOOLEAN]
    /\ inside \in [Gens -> Int] /\ references \in [Gens -> Int]
    /\ packets \in [Gens -> Int]
    /\ scheduled \in [Lanes -> BOOLEAN] /\ cancelled \in [Lanes -> BOOLEAN]
    /\ buffers \in [Lanes -> Seq(Packets)] /\ batch \in [Lanes -> Seq(Packets)]
    /\ borrowed \subseteq Lanes
    /\ notifier \in [Lanes -> {"none", "armed", "inside"}]
    /\ leaving \in [Lanes -> Nat]
    /\ mailbox \in [Workers -> Seq(Gens)] /\ timed \in [Workers -> Seq(Gens)]
    /\ phase \in [Workers -> {"running", "closing"}]
    /\ pc \in [Workers -> [at : Places, g : 0 .. MaxGens]]
    /\ sent \in [Workers -> Nat]
    /\ fate \in [Packets -> {"user", "owned", "written", "dropped"}]
    /\ out \in [Workers -> Seq(Packets)]

(* Where a worker stands.  A packet that it is sending is numbered.        *)
PlaceBooks(w) ==
    /\ pc[w].g = 0 <=> At(w, "idle")
    /\ sent[w] <= Sends[w]
    /\ Sending(w) => sent[w] > 0

(* What the owner has published it has opened and not yet closed.          *)
OwnerBooks ==
    /\ current <= opened
    /\ published # 0 => published = current /\ owner = "idle"
    /\ owner \in {"unpublished", "wait", "discard"} => current # 0
    /\ owner \in {"destroy", "gone"} => current = 0

(* The count of the gate is exact, and only the generation that is being   *)
(* used or closed has anybody inside or a packet in a lane.                *)
GateBooks(g) ==
    /\ inside[g] = Cardinality(Admitted(g)) + Cardinality(Notified(g))
                    + Cardinality(Leaving(g))
    /\ open[g] => g = current /\ owner \in {"idle", "unpublished"}
    /\ inside[g] # 0 => g = current /\ owner # "discard"
    /\ g # current =>
          \A w \in Workers : batch[<<g, w>>] = << >> /\ buffers[<<g, w>>] = << >>

(* What a worker has put in a lane was numbered before the packet that it  *)
(* is sending.                                                             *)
Line(g, w) == out[w] \o batch[<<g, w>>] \o buffers[<<g, w>>]
Numbered(w) ==
    IF pc[w].at \in {"enter", "check", "reserve"} THEN sent[w] - 1 ELSE sent[w]
LineBooks(g, w) ==
    \A n \in DOMAIN Line(g, w) : Line(g, w)[n][2] <= Numbered(w)

(* No generation has two tokens at a worker; and a lane with a token, or   *)
(* with a drain or a notification that stands for one, is marked.  It is   *)
(* not when its worker is about to arm it.                                 *)
HasToken(g, w) == g \in Range(mailbox[w]) \/ g \in Range(timed[w])
TokenBooks(w) ==
    /\ IsInjective(mailbox[w]) /\ IsInjective(timed[w])
    /\ Range(mailbox[w]) \cap Range(timed[w]) = {}
DriverBooks(g, w) ==
    LET l == <<g, w>>
        drains == pc[w].g = g /\ At(w, "drain") IN
    /\ HasToken(g, w) => ~drains /\ ~Notifying(l)
    /\ drains => ~Notifying(l)
    /\ HasToken(g, w) \/ drains \/ Notifying(l) => scheduled[l]
    /\ pc[w].g = g /\ pc[w].at \in {"schedule", "write", "again", "retry"}
          => ~scheduled[l]

Books ==
    /\ TypeOK /\ OwnerBooks
    /\ \A w \in Workers : PlaceBooks(w) /\ TokenBooks(w)
    /\ \A g \in Gens, w \in Workers : DriverBooks(g, w)
    /\ \A g \in Gens : GateBooks(g)
    /\ \A g \in Gens, w \in Workers : LineBooks(g, w)

(* A lane keeps its worker's packets.  One that holds any and is not       *)
(* marked waits for its worker to arm it, or was given up; one that is     *)
(* marked and not given up has its driver, which finds something to write. *)
(* The notification and what it borrows end before the lanes are emptied.  *)
Holds(l) == batch[l] # << >> \/ buffers[l] # << >>
Stands(w, g, places) == pc[w].g = g /\ pc[w].at \in places
HasDriver(g, w) ==
    HasToken(g, w) \/ Stands(w, g, {"drain"}) \/ Notifying(<<g, w>>)
LaneBooks(g, w) ==
    LET l == <<g, w>> IN
    /\ \A p \in Range(batch[l]) \cup Range(buffers[l]) : p[1] = w
    /\ Holds(l) /\ ~scheduled[l] =>
          \/ failed[g] \/ cancelled[l]
          \/ Stands(w, g, {"schedule", "undo", "write", "again", "retry"})
    /\ open[g] /\ ~failed[g] /\ ~cancelled[l] /\ scheduled[l] => HasDriver(g, w)
    /\ Stands(w, g, {"reserve"}) /\ Holds(l) => scheduled[l]
    /\ Stands(w, g, {"schedule", "undo"}) =>
          ~scheduled[l] /\ batch[l] = << >> /\ buffers[l] = <<Packet(w)>>
    /\ Stands(w, g, {"again", "retry"}) => Holds(l)
    /\ Stands(w, g, {"write"}) \/ l \in borrowed => batch[l] # << >>
NativeBooks(g, w) ==
    /\ Notifying(<<g, w>>) => g = current
    /\ Notifying(<<g, w>>) \/ <<g, w>> \in borrowed => owner # "discard"
    /\ g = current /\ HasDriver(g, w) => Holds(<<g, w>>)

(* The packets of a generation, and what keeps it alive: its tokens, the   *)
(* drains and the owner, who keeps it until no producer can have it.       *)
HeldBooks ==
    /\ {p \in Packets : fate[p] = "owned"} = UNION {Held(g) : g \in Gens}
    /\ \A g \in Gens : packets[g] = Cardinality(Held(g))
StoreBooks(g) ==
    /\ references[g] = Cardinality(TokensOf(g)) + Cardinality(Draining(g))
                        + (IF g = current \/ g \in retired THEN 1 ELSE 0)
    /\ mem[g] = "live" <=> references[g] > 0
    /\ g > opened => references[g] = 0 /\ \A w \in Workers : ~scheduled[<<g, w>>]
SenderBooks(w) ==
    Sending(w) => /\ owner \notin {"destroy", "gone"}
                  /\ pc[w].g = current \/ pc[w].g \in retired

(* A packet that was accepted is owned by exactly one lane until it is     *)
(* written or dropped, and the counters of a generation are exact: its     *)
(* packets, the operations in its gate, and its references, so that it is  *)
(* freed once, after everyone is through with it, whenever a token, a      *)
(* producer or a notification was overtaken by a close, a new bring-up or  *)
(* the end.  A lane has one driver at most, and one that holds packets     *)
(* while it still accepts more has one: only a lane marked failed or       *)
(* cancelled leaves its packets to the close.  No packet is freed under a  *)
(* native call that still reads it, and no token comes for nothing.        *)
WriterInv ==
    /\ ~fault /\ Books /\ HeldBooks
    /\ \A g \in Gens : StoreBooks(g)
    /\ \A w \in Workers : SenderBooks(w)
    /\ \A g \in Gens, w \in Workers :
          LET l == <<g, w>> IN
          /\ LaneBooks(g, w) /\ NativeBooks(g, w)
          /\ Drivers(g, w) <= 1
          /\ open[g] /\ ~failed[g] /\ ~cancelled[l] /\ pc[w].g # g =>
                /\ scheduled[l] <=> Drivers(g, w) = 1
                /\ Holds(l) => scheduled[l]

(* A worker's packets leave in the order in which it sent them, though     *)
(* some are refused, writes take only a part of a batch, and a retry comes *)
(* while newer packets arrive.                                             *)
FifoOrder ==
    \A g \in Gens, w \in Workers :
       LET line == Line(g, w) IN
       \A m, n \in DOMAIN line : m < n => line[m][2] < line[n][2]

(* Every packet that the writer takes is written or dropped in the end, or *)
(* handed back by the call that refused it, whatever blocks, fails or      *)
(* stops meanwhile: once the workers are through with their packets none   *)
(* is left, but in a lane whose continuation an open mailbox has refused,  *)
(* which waits for the close.                                              *)
OwnedSettles ==
    []<>(\A g \in Gens, w \in Workers :
            batch[<<g, w>>] # << >> \/ buffers[<<g, w>>] # << >>
                => cancelled[<<g, w>>] /\ refusals > 0)
=============================================================================
