------------------------------- MODULE Channel ------------------------------
(***************************************************************************)
(* The Go-style channel (ww/base/wchan.c).                                 *)
(*                                                                         *)
(* Threads send, receive, try both without blocking, and one of them       *)
(* closes the channel.  What runs under the channel's lock is one step,    *)
(* except that chanClose wakes the waiters it cancels while it holds the   *)
(* lock.  The words the non-blocking calls read without the lock (closed,  *)
(* qlen and the heads of the wait queues) are read one at a time, and a    *)
(* wake-up is three steps on the waiter's thread-local Thr.                *)
(***************************************************************************)
EXTENDS Integers, Sequences, FiniteSets, SequencesExt

CONSTANTS
    Threads,
    Caps,      \* capacities the channel may be opened with
    Ops,       \* Ops[t]: the calls the thread makes
    MaxCalls,  \* bound: MaxCalls[t], how many of them
    None       \* no thread, no message

OpNames == {"send", "trysend", "recv", "tryrecv", "close"}
ASSUME ChannelAssumption ==
    /\ Caps \subseteq Nat
    /\ \A t \in Threads : Ops[t] \subseteq OpNames /\ MaxCalls[t] \in Nat
    /\ None \notin Threads /\ None \notin OpNames

VARIABLES
    qcap, buf, qlen, sendx, recvx,  \* the ring
    sendq, recvq,                   \* parked threads, first to last
    closed,
    lock,      \* the thread that holds the lock between two steps
    pc,        \* pc[t]: the call a thread is in and how far it is
    calls,     \* calls[t]: how many calls it has begun
    slot,      \* slot[t]: the message at the address of the call
    tclosed,   \* tclosed[t]: Thr.closed
    sema,      \* sema[t]: Thr.sema
    signals,   \* signals[t]: Thr.signals
    answer,    \* answer[t]: what the last call returned
    seen,      \* history: seen[t], what was true at a moment of the call
    accepted,  \* history: messages taken from senders, in order
    received,  \* history: messages handed to receivers, in order
    fault,     \* an assertion failed or a Thr was used after its thread
    aborted    \* the process was aborted

ring == <<buf, qlen, sendx, recvx>>
waiters == <<slot, tclosed, sema, signals>>
history == <<accepted, received>>
shared == <<qcap, ring, sendq, recvq, closed, lock, history>>
vars == <<shared, pc, calls, waiters, answer, seen, fault, aborted>>

Idle == [at |-> "idle", op |-> None, to |-> None, rest |-> << >>]

Init ==
    /\ qcap \in Caps
    /\ buf = [n \in 0 .. qcap - 1 |-> None]
    /\ qlen = 0 /\ sendx = 0 /\ recvx = 0
    /\ sendq = << >> /\ recvq = << >>
    /\ closed = FALSE /\ lock = None
    /\ pc = [t \in Threads |-> Idle]
    /\ calls = [t \in Threads |-> 0]
    /\ slot = [t \in Threads |-> None]
    /\ tclosed = [t \in Threads |-> FALSE]
    /\ sema = [t \in Threads |-> 0]
    /\ signals = [t \in Threads |-> 0]
    /\ answer = [t \in Threads |-> "none"]
    /\ seen = [t \in Threads |-> {}]
    /\ accepted = << >> /\ received = << >>
    /\ fault = FALSE /\ aborted = FALSE

-----------------------------------------------------------------------------
At(t, at) == pc[t].at = at
InCall(t, op) == pc[t].op = op
Goto(t, at) == pc' = [pc EXCEPT ![t].at = at]
Answer(t, a) ==
    /\ pc' = [pc EXCEPT ![t] = Idle]
    /\ answer' = [answer EXCEPT ![t] = a]

Message(t) == <<t, calls[t]>>
NextSlot(n) == IF n = qcap - 1 THEN 0 ELSE n + 1

(* chan_full and chan_empty: one read each.                                *)
full == IF qcap = 0 THEN recvq = << >> ELSE qlen = qcap
empty == IF qcap = 0 THEN sendq = << >> ELSE qlen = 0

(* A call begins.  A channel is closed once, and a blocking send is not    *)
(* begun by a thread that may know the channel to be closed.               *)
Begin(t, op) ==
    /\ At(t, "idle") /\ op \in Ops[t] /\ calls[t] < MaxCalls[t]
    /\ op \in {"close", "send"} => ~closed
    /\ op = "close" => \A u \in Threads : ~InCall(u, "close")
    /\ calls' = [calls EXCEPT ![t] = @ + 1]
    /\ pc' = [pc EXCEPT ![t] =
                [Idle EXCEPT !.op = op,
                   !.at = IF op \in {"trysend", "tryrecv"} THEN "probe"
                                                           ELSE "lock"]]
    /\ slot' = [slot EXCEPT ![t] = IF op \in {"send", "trysend"}
                                   THEN <<t, calls[t] + 1>> ELSE None]
    /\ answer' = [answer EXCEPT ![t] = "none"]
    /\ UNCHANGED <<shared, tclosed, sema, signals, fault, aborted>>

-----------------------------------------------------------------------------
(* The fast path of chanTrySend.  Both reads are relaxed: either may come  *)
(* first.                                                                  *)
TrySendProbe(t) ==
    /\ At(t, "probe") /\ InCall(t, "trysend")
    /\ \/ Goto(t, IF closed THEN "lock" ELSE "sawOpen")
       \/ Goto(t, IF full THEN "sawFull" ELSE "lock")
    /\ UNCHANGED <<shared, calls, waiters, answer, fault, aborted>>

TrySendSecond(t) ==
    /\ InCall(t, "trysend")
    /\ \/ At(t, "sawOpen") /\ full /\ Answer(t, "full")
       \/ At(t, "sawOpen") /\ ~full /\ Goto(t, "lock") /\ UNCHANGED answer
       \/ At(t, "sawFull") /\ ~closed /\ Answer(t, "full")
       \/ At(t, "sawFull") /\ closed /\ Goto(t, "lock") /\ UNCHANGED answer
    /\ UNCHANGED <<shared, calls, waiters, fault, aborted>>

(* The fast path of chanTryRecv: empty, then closed, then empty again, in  *)
(* this order.                                                             *)
TryRecvProbe(t) ==
    /\ At(t, "probe") /\ InCall(t, "tryrecv")
    /\ Goto(t, IF empty THEN "sawEmpty" ELSE "lock")
    /\ UNCHANGED <<shared, calls, waiters, answer, fault, aborted>>

\* Mutant of TryRecvSecond: the queue is not looked at again.
TryRecvSecond_NoRecheck(t) ==
    /\ At(t, "sawEmpty")
    /\ Answer(t, IF closed THEN "drained" ELSE "empty")
    /\ UNCHANGED <<shared, calls, waiters, fault, aborted>>

TryRecvSecond(t) ==
    /\ At(t, "sawEmpty")
    /\ IF closed THEN Goto(t, "sawClosed") /\ UNCHANGED answer
                 ELSE Answer(t, "empty")
    /\ UNCHANGED <<shared, calls, waiters, fault, aborted>>

TryRecvThird(t) ==
    /\ At(t, "sawClosed")
    /\ IF empty THEN Answer(t, "drained")
                ELSE Goto(t, "lock") /\ UNCHANGED answer
    /\ UNCHANGED <<shared, calls, waiters, fault, aborted>>

-----------------------------------------------------------------------------
(* The block under the lock ends with a wake-up of the thread it served.   *)
Signal(t, u) == pc' = [pc EXCEPT ![t].at = "register", ![t].to = u]
Parked(u) == At(u, "parked") /\ sema[u] = 0
Park(t) ==
    /\ Goto(t, "parked")
    /\ tclosed' = [tclosed EXCEPT ![t] = FALSE]
    /\ UNCHANGED <<sema, signals, answer>>

(* chan_send under the lock.                                               *)
SendClosed(t) ==
    /\ closed
    /\ IF InCall(t, "send")
       THEN aborted' = TRUE /\ UNCHANGED <<pc, answer>>
       ELSE Answer(t, "closed") /\ UNCHANGED aborted
    /\ UNCHANGED <<ring, recvq, sendq, history, waiters, fault>>
SendDirect(t) ==
    /\ ~closed /\ recvq # << >>
    /\ LET r == Head(recvq) IN
       /\ slot' = [slot EXCEPT ![r] = slot[t]]
       /\ fault' = (fault \/ ~Parked(r))
       /\ Signal(t, r)
    /\ recvq' = Tail(recvq)
    /\ accepted' = Append(accepted, slot[t])
    /\ received' = Append(received, slot[t])
    /\ UNCHANGED <<ring, sendq, tclosed, sema, signals, answer, aborted>>
SendEnqueue(t) ==
    /\ ~closed /\ recvq = << >> /\ qlen < qcap
    /\ buf' = [buf EXCEPT ![sendx] = slot[t]]
    /\ sendx' = NextSlot(sendx)
    /\ qlen' = qlen + 1
    /\ accepted' = Append(accepted, slot[t])
    /\ Answer(t, "sent")
    /\ UNCHANGED <<recvx, recvq, sendq, received, waiters, fault, aborted>>
SendFull(t) ==
    /\ ~closed /\ recvq = << >> /\ qlen = qcap
    /\ IF InCall(t, "trysend")
       THEN Answer(t, "full") /\ UNCHANGED <<sendq, waiters>>
       ELSE Park(t) /\ sendq' = Append(sendq, t) /\ UNCHANGED slot
    /\ UNCHANGED <<ring, recvq, history, fault, aborted>>
Send(t) ==
    /\ At(t, "lock") /\ pc[t].op \in {"send", "trysend"} /\ lock = None
    /\ SendClosed(t) \/ SendDirect(t) \/ SendEnqueue(t) \/ SendFull(t)
    /\ UNCHANGED <<qcap, closed, lock, calls>>

(* chan_recv under the lock.                                               *)
RecvClosed(t) ==
    /\ closed /\ qlen = 0
    /\ Answer(t, "drained")
    /\ UNCHANGED <<ring, sendq, recvq, history, waiters, fault>>
(* chan_recv_direct: with a full ring the receiver takes the oldest        *)
(* message and the parked sender's takes its place in the ring.            *)
RecvDirect(t) ==
    /\ ~(closed /\ qlen = 0) /\ sendq # << >>
    /\ LET s == Head(sendq)
           got == IF qlen = 0 THEN slot[s] ELSE buf[recvx] IN
       /\ sendq' = Tail(sendq)
       /\ accepted' = Append(accepted, slot[s])
       /\ fault' = (fault \/ ~Parked(s))
       /\ slot' = [slot EXCEPT ![t] = got]
       /\ received' = Append(received, got)
       /\ IF qlen = 0
          THEN UNCHANGED ring
          ELSE /\ buf' = [buf EXCEPT ![recvx] = slot[s]]
               /\ recvx' = NextSlot(recvx)
               /\ sendx' = NextSlot(recvx)
               /\ UNCHANGED qlen
       /\ Signal(t, s)
    /\ UNCHANGED <<recvq, tclosed, sema, signals, answer>>
RecvDequeue(t) ==
    /\ sendq = << >> /\ qlen > 0
    /\ slot' = [slot EXCEPT ![t] = buf[recvx]]
    /\ received' = Append(received, buf[recvx])
    /\ recvx' = NextSlot(recvx)
    /\ qlen' = qlen - 1
    /\ Answer(t, "got")
    /\ UNCHANGED <<buf, sendx, sendq, recvq, accepted, tclosed, sema, signals,
                   fault>>
RecvNothing(t) ==
    /\ ~closed /\ sendq = << >> /\ qlen = 0
    /\ IF InCall(t, "tryrecv")
       THEN Answer(t, "empty") /\ UNCHANGED <<recvq, waiters>>
       ELSE Park(t) /\ recvq' = Append(recvq, t) /\ UNCHANGED slot
    /\ UNCHANGED <<ring, sendq, history, fault>>
Recv(t) ==
    /\ At(t, "lock") /\ pc[t].op \in {"recv", "tryrecv"} /\ lock = None
    /\ RecvClosed(t) \/ RecvDirect(t) \/ RecvDequeue(t) \/ RecvNothing(t)
    /\ UNCHANGED <<qcap, closed, lock, calls, aborted>>

-----------------------------------------------------------------------------
(* thr_signal: registered before the wake-up, cleared as the last access.  *)
Dead(t) == At(t, "dead")
Register(t) ==
    /\ At(t, "register")
    /\ signals' = [signals EXCEPT ![pc[t].to] = @ + 1]
    /\ fault' = (fault \/ Dead(pc[t].to))
    /\ Goto(t, "post")
    /\ UNCHANGED <<shared, calls, slot, tclosed, sema, answer, aborted>>
Post(t) ==
    /\ At(t, "post")
    /\ sema' = [sema EXCEPT ![pc[t].to] = @ + 1]
    /\ fault' = (fault \/ Dead(pc[t].to))
    /\ Goto(t, "clear")
    /\ UNCHANGED <<shared, calls, slot, tclosed, signals, answer, aborted>>
Clear(t) ==
    /\ At(t, "clear")
    /\ signals' = [signals EXCEPT ![pc[t].to] = @ - 1]
    /\ fault' = (fault \/ Dead(pc[t].to))
    /\ IF InCall(t, "close")
       THEN Goto(t, "cancel") /\ UNCHANGED answer
       ELSE Answer(t, IF pc[t].op \in {"send", "trysend"} THEN "sent" ELSE "got")
    /\ UNCHANGED <<shared, calls, slot, tclosed, sema, aborted>>

(* The parked thread wakes up; Thr.closed tells why.                       *)
Wake(t) ==
    /\ At(t, "parked") /\ sema[t] > 0
    /\ sema' = [sema EXCEPT ![t] = @ - 1]
    /\ Answer(t, CASE tclosed[t] /\ InCall(t, "send") -> "cancelled"
                   [] tclosed[t] /\ InCall(t, "recv") -> "drained"
                   [] ~tclosed[t] /\ InCall(t, "send") -> "sent"
                   [] OTHER -> "got")
    /\ UNCHANGED <<shared, calls, slot, tclosed, signals, fault, aborted>>

-----------------------------------------------------------------------------
(* chanClose, with the lock held throughout: closed, then the receivers,   *)
(* then the senders.                                                       *)
Close(t) ==
    /\ At(t, "lock") /\ InCall(t, "close") /\ lock = None
    /\ closed' = TRUE
    /\ aborted' = closed
    /\ lock' = t
    /\ Goto(t, "detachRecvq")
    /\ UNCHANGED <<qcap, ring, sendq, recvq, history, calls, waiters, answer,
                   fault>>

(* wq_cancel_all empties the queue before it wakes anyone.                 *)
Detach(t) ==
    /\ \/ /\ At(t, "detachRecvq")
          /\ pc' = [pc EXCEPT ![t].at = "cancel", ![t].rest = recvq]
          /\ recvq' = << >> /\ UNCHANGED sendq
       \/ /\ At(t, "detachSendq")
          /\ pc' = [pc EXCEPT ![t].at = "cancel", ![t].rest = sendq]
          /\ sendq' = << >> /\ UNCHANGED recvq
    /\ UNCHANGED <<qcap, ring, closed, lock, history, calls, waiters, answer,
                   fault, aborted>>

\* Mutant of Cancel: the walk ends with the first waiter of the queue.
Cancel_First(t) ==
    /\ At(t, "cancel") /\ pc[t].rest # << >>
    /\ LET u == Head(pc[t].rest) IN
       /\ tclosed' = [tclosed EXCEPT ![u] = TRUE]
       /\ fault' = (fault \/ ~Parked(u))
       /\ pc' = [pc EXCEPT ![t].at = "register", ![t].to = u,
                           ![t].rest = << >>]
    /\ UNCHANGED <<shared, calls, slot, sema, signals, answer, aborted>>

Cancel(t) ==
    /\ At(t, "cancel") /\ pc[t].rest # << >>
    /\ LET u == Head(pc[t].rest) IN
       /\ tclosed' = [tclosed EXCEPT ![u] = TRUE]
       /\ fault' = (fault \/ ~Parked(u))
       /\ pc' = [pc EXCEPT ![t].at = "register", ![t].to = u,
                           ![t].rest = Tail(@)]
    /\ UNCHANGED <<shared, calls, slot, sema, signals, answer, aborted>>

(* Nobody else can park meanwhile: a queue that is empty needs no walk.    *)
CancelDone(t) ==
    /\ At(t, "cancel") /\ pc[t].rest = << >>
    /\ \/ sendq # << >> /\ Goto(t, "detachSendq") /\ UNCHANGED <<lock, answer>>
       \/ sendq = << >> /\ lock' = None /\ Answer(t, "done")
    /\ UNCHANGED <<qcap, ring, sendq, recvq, closed, history, calls, waiters,
                   fault, aborted>>

-----------------------------------------------------------------------------
\* Mutant of Exit: the thread does not wait for a wake-up still in flight.
Exit_NoDrain(t) ==
    /\ At(t, "idle")
    /\ Goto(t, "dead")
    /\ UNCHANGED <<shared, calls, waiters, answer, fault, aborted>>

(* The thread ends: thr_tls_release, after thr_drain_signals.              *)
Exit(t) ==
    /\ At(t, "idle") /\ signals[t] = 0
    /\ Goto(t, "dead")
    /\ UNCHANGED <<shared, calls, waiters, answer, fault, aborted>>

Step(t) ==
    \/ TrySendProbe(t) \/ TrySendSecond(t)
    \/ TryRecvProbe(t) \/ TryRecvSecond(t) \/ TryRecvThird(t)
    \/ Send(t) \/ Recv(t) \/ Wake(t)
    \/ Register(t) \/ Post(t) \/ Clear(t)
    \/ Close(t) \/ Detach(t) \/ Cancel(t) \/ CancelDone(t)

(* What was true when a call began or at a later moment of it.             *)
Sights == {"open", "full", "openFull", "openEmpty"}
Facts ==
    {f \in Sights :
        /\ f # "full" => ~closed
        /\ f \in {"full", "openFull"} => full
        /\ f = "openEmpty" => empty}
Observe ==
    seen' = [t \in Threads |->
               IF pc'[t].at \in {"idle", "dead"} THEN seen[t]
               ELSE Facts' \cup IF calls'[t] = calls[t] THEN seen[t] ELSE {}]

(* A thread may be parked for ever when nobody closes the channel.         *)
Over ==
    /\ aborted \/ \A t \in Threads : At(t, "dead") \/ Parked(t)
    /\ UNCHANGED vars

Next ==
    \/ /\ ~aborted
       /\ \E t \in Threads :
             Step(t) \/ Exit(t) \/ \E op \in Ops[t] : Begin(t, op)
       /\ Observe
    \/ Over

Spec == Init /\ [][Next]_vars

(* A thread in a call goes on; none has to begin another.                  *)
FairSpec ==
    Spec /\ \A t \in Threads : WF_vars(~aborted /\ Step(t) /\ Observe)

-----------------------------------------------------------------------------
Ring == [n \in 1 .. qlen |-> buf[(recvx + n - 1) % qcap]]
Occurs(u, q) == Cardinality({n \in DOMAIN q : q[n] = u})
WakersOf(u) ==
    {t \in Threads : pc[t].to = u /\ pc[t].at \in {"register", "post"}}
Rest == IF lock = None THEN << >> ELSE pc[lock].rest

(* What the channel took it handed over in the same order, or still holds  *)
(* in its ring, each message once.                                         *)
Conserved ==
    /\ accepted = received \o Ring
    /\ IsInjective(accepted)
    /\ qcap > 0 => sendx = (recvx + qlen) % qcap

(* Nobody waits for what is already there: a parked receiver means an      *)
(* empty channel, a parked sender a full one, and after the close nobody   *)
(* is left in a queue.                                                     *)
NoneWaitsInVain ==
    /\ recvq # << >> => qlen = 0 /\ sendq = << >>
    /\ sendq # << >> => qlen = qcap
    /\ closed /\ lock = None => sendq = << >> /\ recvq = << >>

(* A parked thread has exactly one cause to wake up.                       *)
OneCause ==
    \A u \in Threads :
       LET causes == Occurs(u, sendq) + Occurs(u, recvq) + sema[u]
                       + Cardinality(WakersOf(u)) + Occurs(u, Rest)
       IN causes = IF At(u, "parked") THEN 1 ELSE 0

-----------------------------------------------------------------------------
(* What ties the threads together and makes these inductive.               *)
Messages == Threads \X Nat
Outside == {"idle", "dead"}
Sending == {"send", "trysend"}
Receiving == {"recv", "tryrecv"}
Unlocked == {"probe", "sawOpen", "sawFull", "sawEmpty", "sawClosed", "lock"}
Signalling == {"register", "post", "clear"}
Closing == {"detachRecvq", "detachSendq", "cancel"}
Answers == {"none", "full", "empty", "closed", "drained", "sent", "got",
            "cancelled", "done"}
TypeOK ==
    /\ qcap \in Nat /\ qlen \in 0 .. qcap
    /\ buf \in [0 .. qcap - 1 -> Messages \cup {None}]
    /\ sendx \in Nat /\ recvx \in Nat
    /\ qcap > 0 => sendx < qcap /\ recvx < qcap
    /\ sendq \in Seq(Threads) /\ recvq \in Seq(Threads)
    /\ closed \in BOOLEAN /\ aborted \in BOOLEAN
    /\ lock \in Threads \cup {None}
    /\ pc \in [Threads ->
                 [at : Outside \cup Unlocked \cup {"parked"} \cup Signalling
                         \cup Closing,
                  op : OpNames \cup {None},
                  to : Threads \cup {None}, rest : Seq(Threads)]]
    /\ calls \in [Threads -> Nat]
    /\ slot \in [Threads -> Messages \cup {None}]
    /\ tclosed \in [Threads -> BOOLEAN]
    /\ sema \in [Threads -> {0, 1}] /\ signals \in [Threads -> Nat]
    /\ answer \in [Threads -> Answers]
    /\ seen \in [Threads -> SUBSET Sights]
    /\ accepted \in Seq(Messages) /\ received \in Seq(Messages)

(* Which calls a thread may be in where it stands.                         *)
CallBooks(t) ==
    /\ pc[t].op = None <=> pc[t].at \in Outside
    /\ pc[t].at \in {"sawOpen", "sawFull"} => InCall(t, "trysend")
    /\ pc[t].at \in {"sawEmpty", "sawClosed"} => InCall(t, "tryrecv")
    /\ At(t, "probe") => pc[t].op \in {"trysend", "tryrecv"}
    /\ At(t, "parked") => pc[t].op \in {"send", "recv"}
    /\ pc[t].at \in Signalling => pc[t].to \in Threads
    /\ pc[t].at \in Closing => InCall(t, "close")
    /\ InCall(t, "close") => pc[t].at \in {"lock"} \cup Signalling \cup Closing
    /\ pc[t].rest # << >> => InCall(t, "close") /\ pc[t].at \in
                                Signalling \cup {"cancel"}
    /\ answer[t] # "none" => pc[t].at \in Outside

(* The closer holds the lock from its store to the end.                    *)
LockBooks(t) ==
    /\ lock = t <=> InCall(t, "close") /\ ~At(t, "lock")
    /\ lock = t => closed /\ (~At(t, "detachRecvq") => recvq = << >>)
    /\ InCall(t, "close") /\ At(t, "lock") => ~closed
    /\ InCall(t, "close") =>
          \A u \in Threads : InCall(u, "close") => u = t

(* A thread that waits, is about to be sent away, or was called.           *)
Queues == IsInjective(sendq) /\ IsInjective(recvq) /\ IsInjective(Rest)
Called(u) == WakersOf(u) # {} \/ sema[u] = 1
WaitBooks(u) ==
    /\ u \in Range(sendq) =>
          /\ At(u, "parked") /\ InCall(u, "send") /\ ~Called(u)
          /\ u \notin Range(recvq) \cup Range(Rest)
    /\ u \in Range(recvq) =>
          /\ At(u, "parked") /\ InCall(u, "recv") /\ ~Called(u)
          /\ u \notin Range(Rest)
    /\ u \in Range(Rest) => At(u, "parked") /\ ~Called(u)
    /\ Called(u) => At(u, "parked")
    /\ WakersOf(u) # {} => sema[u] = 0
    /\ \A t, v \in WakersOf(u) : t = v
    /\ At(u, "parked") =>
          \/ u \in Range(sendq) \cup Range(recvq) \cup Range(Rest)
          \/ Called(u)

(* Who is still in thr_signal for the thread.                              *)
Callers(u) ==
    {t \in Threads : pc[t].to = u /\ pc[t].at \in {"post", "clear"}}
SignalBooks(u) ==
    /\ IsFiniteSet(Callers(u)) /\ signals[u] = Cardinality(Callers(u))
    /\ At(u, "dead") => Callers(u) = {}

(* The message of a sender: offered, taken or sent back.                   *)
Taken(t) == Message(t) \in Range(accepted)
SendBooks(t) ==
    /\ \A m \in Range(accepted) : m[1] = t => m[2] <= calls[t]
    /\ pc[t].op \in Sending /\ pc[t].at \in Unlocked =>
          slot[t] = Message(t) /\ ~Taken(t)
    /\ pc[t].op \in Sending /\ pc[t].at \in Signalling => Taken(t)
    /\ t \in Range(sendq) => slot[t] = Message(t) /\ ~Taken(t) /\ ~tclosed[t]
    /\ t \in Range(Rest) /\ InCall(t, "send") => ~Taken(t)
    /\ Called(t) /\ InCall(t, "send") => (tclosed[t] <=> ~Taken(t))
    /\ answer[t] = "sent" => Taken(t)
    /\ answer[t] \in {"full", "closed", "cancelled"} => ~Taken(t)

(* The message of a receiver, and what sends one away.                     *)
Served(t) ==
    \/ answer[t] = "got"
    \/ pc[t].op \in Receiving /\ pc[t].at \in Signalling
    \/ Called(t) /\ InCall(t, "recv") /\ ~tclosed[t]
NothingLeft == closed /\ sendq = << >> /\ qlen = 0
RecvBooks(t) ==
    /\ Served(t) =>
          /\ slot[t] \in Range(received)
          /\ \A u \in Threads : Served(u) /\ slot[u] = slot[t] => u = t
    /\ t \in Range(recvq) => ~tclosed[t]
    /\ t \in Range(Rest) /\ InCall(t, "recv") => NothingLeft
    /\ Called(t) /\ InCall(t, "recv") /\ tclosed[t] => NothingLeft
    /\ At(t, "sawClosed") => closed
    /\ answer[t] = "drained" => NothingLeft

(* What a "full" answer stands for: with a buffer one moment at which the  *)
(* channel was open and full; without one a moment at which it was open    *)
(* and one, which may come after the close, at which no receiver waited.   *)
SawFull(t) ==
    /\ {"open", "full"} \subseteq seen[t]
    /\ qcap > 0 => "openFull" \in seen[t]

(* What a call has seen of the channel so far.                             *)
Filled == qcap > 0 /\ qlen = qcap
SeenBooks(t) ==
    /\ pc[t].at \notin Outside => Facts \subseteq seen[t]
    /\ At(t, "sawOpen") => "open" \in seen[t]
    /\ At(t, "sawOpen") /\ closed /\ Filled => "openFull" \in seen[t]
    /\ At(t, "sawFull") => "full" \in seen[t]
    /\ At(t, "sawFull") => closed \/ "openFull" \in seen[t]
    /\ At(t, "sawEmpty") => closed \/ "openEmpty" \in seen[t]
    /\ answer[t] = "full" => SawFull(t)
    /\ answer[t] = "empty" => "openEmpty" \in seen[t]

Books ==
    /\ Queues
    /\ \A t \in Threads :
          /\ CallBooks(t) /\ LockBooks(t) /\ WaitBooks(t) /\ SignalBooks(t)
          /\ SendBooks(t) /\ RecvBooks(t) /\ SeenBooks(t)

(* No message is lost, duplicated or reordered, nobody waits for what is   *)
(* there, every parked thread has exactly one cause to wake up, and no     *)
(* wake-up touches the Thr of a thread that has returned, parked again or  *)
(* exited.                                                                 *)
ChanInv ==
    TypeOK /\ ~fault /\ Conserved /\ NoneWaitsInVain /\ OneCause /\ Books

(* What a call answers was so, though the non-blocking ones read the       *)
(* channel without its lock while it is being filled, drained and closed.  *)
(* A sender told "full" saw what SawFull says; a receiver told "empty" saw *)
(* a moment at which the channel was open and empty; one told "closed" is  *)
(* told so only when nothing that was ever accepted is left; and a sender  *)
(* is told the truth about its message.                                    *)
HonestAnswers ==
    \A t \in Threads :
       /\ answer[t] = "full" => SawFull(t)
       /\ answer[t] = "empty" => "openEmpty" \in seen[t]
       /\ answer[t] = "drained" =>
             closed /\ sendq = << >> /\ accepted = received
       /\ answer[t] = "sent" => Message(t) \in Range(accepted)
       /\ answer[t] \in {"full", "closed", "cancelled"} =>
             Message(t) \notin Range(accepted)
       /\ answer[t] = "got" =>
             /\ slot[t] \in Range(received)
             /\ \A u \in Threads \ {t} : answer[u] = "got" => slot[u] # slot[t]

(* The comment in chan_send (wchan.c:567-571) claims more: whatever the    *)
(* capacity, a "full" answer implies a moment of the call at which the     *)
(* channel was both open and not ready for sending.                        *)
FullWhileOpen == \A t \in Threads : answer[t] = "full" => "openFull" \in seen[t]

(* A close wakes everybody who is parked, however many wait and whatever   *)
(* they wait for.                                                          *)
CloseWakes == closed ~> (aborted \/ \A t \in Threads : ~At(t, "parked"))
=============================================================================
