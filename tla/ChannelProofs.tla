---------------------------- MODULE ChannelProofs ---------------------------
(***************************************************************************)
(* Proofs about Channel, for any threads, calls and capacities: no message *)
(* is lost and no wake-up missed (ChanInv), and the answers of the calls   *)
(* are true (HonestAnswers).                                               *)
(*                                                                         *)
(* Lists and the sets of threads under way to wake somebody are treated as *)
(* opaque by most of the proof: the lemmas *Moves say, action by action,   *)
(* what becomes of them.                                                   *)
(***************************************************************************)
EXTENDS Channel, FiniteSetTheorems, TLAPS

(* The place in the ring that is k places after x.                         *)
LEMMA Wraps ==
    ASSUME NEW c \in Nat \ {0}, NEW x \in 0 .. c - 1, NEW k \in 0 .. c
    PROVE  (x + k) % c = IF x + k < c THEN x + k ELSE x + k - c
  <1> DEFINE a == x + k
             q == a \div c
             r == a % c
  <1>1. /\ a \in Nat /\ c \in Nat /\ c > 0 /\ x < c /\ k <= c /\ a < 2 * c
        /\ q \in Nat /\ r \in Nat /\ r < c /\ a = c * q + r
    BY SMT
  <1> HIDE DEF a, q, r
  <1>2. q < 2
    <2>1. q >= 2 => c * q >= c * 2
      BY <1>1, SMT
    <2> QED
      BY <1>1, <2>1, SMT
  <1>3. q = 0 => r = a /\ a < c
    BY <1>1, SMT
  <1>4. q = 1 => r = a - c /\ a >= c
    BY <1>1, SMT
  <1>5. r = IF a < c THEN a ELSE a - c
    BY <1>1, <1>2, <1>3, <1>4, SMT
  <1> QED
    BY <1>5 DEF a, r

(* A list that grows at its end, and one that loses its head.              *)
LEMMA ListGrows ==
    ASSUME NEW S, NEW q \in Seq(S), NEW x \in S
    PROVE  /\ Append(q, x) \in Seq(S)
           /\ Range(Append(q, x)) = Range(q) \cup {x}
           /\ IsInjective(q) /\ x \notin Range(q) => IsInjective(Append(q, x))
  <1> DEFINE p == Append(q, x)
  <1>1. /\ p \in Seq(S) /\ Len(q) \in Nat /\ Len(p) = Len(q) + 1
        /\ DOMAIN q = 1 .. Len(q) /\ DOMAIN p = 1 .. Len(p)
        /\ p[Len(q) + 1] = x /\ \A n \in 1 .. Len(q) : p[n] = q[n]
    OBVIOUS
  <1> HIDE DEF p
  <1>2. \A n \in DOMAIN p : n \in DOMAIN q \/ n = Len(q) + 1
    BY <1>1
  <1>3. \A n \in DOMAIN q : n \in DOMAIN p /\ p[n] = q[n]
    BY <1>1
  <1>4. Len(q) + 1 \in DOMAIN p
    BY <1>1
  <1>5. Range(p) = Range(q) \cup {x}
    BY <1>1, <1>2, <1>3, <1>4 DEF Range
  <1>6. ASSUME IsInjective(q), x \notin Range(q) PROVE IsInjective(p)
    BY <1>1, <1>2, <1>3, <1>6 DEF Range, IsInjective
  <1> QED
    BY <1>1, <1>5, <1>6 DEF p

(* A list without its first thread.                                        *)
LEMMA ListShrinks ==
    ASSUME NEW S, NEW q \in Seq(S), q # << >>
    PROVE  /\ Head(q) \in S /\ Head(q) \in Range(q) /\ Tail(q) \in Seq(S)
           /\ IsInjective(q) =>
                 /\ IsInjective(Tail(q)) /\ Range(Tail(q)) = Range(q) \ {Head(q)}
  <1> DEFINE p == Tail(q)
             h == Head(q)
  <1>1. /\ p \in Seq(S) /\ h \in S /\ Len(q) \in Nat /\ Len(q) = Len(p) + 1
        /\ Len(p) \in Nat
        /\ DOMAIN q = 1 .. Len(q) /\ DOMAIN p = 1 .. Len(p)
        /\ q[1] = h /\ \A n \in 1 .. Len(p) : p[n] = q[n + 1]
    OBVIOUS
  <1> HIDE DEF p, h
  <1>2. \A n \in DOMAIN q : n = 1 \/ (n - 1 \in DOMAIN p /\ p[n - 1] = q[n])
    BY <1>1
  <1>3. \A n \in DOMAIN p : n + 1 \in DOMAIN q /\ n + 1 # 1 /\ p[n] = q[n + 1]
    BY <1>1
  <1>4. 1 \in DOMAIN q
    BY <1>1
  <1>5. h \in Range(q)
    BY <1>1, <1>4 DEF Range
  <1>6. ASSUME IsInjective(q) PROVE IsInjective(p)
    <2> SUFFICES ASSUME NEW m \in DOMAIN p, NEW n \in DOMAIN p, p[m] = p[n]
                 PROVE  m = n
      BY DEF IsInjective
    <2>1. m + 1 = n + 1
      BY <1>3, <1>6 DEF IsInjective
    <2> QED
      BY <1>1, <2>1
  <1>7. ASSUME IsInjective(q) PROVE Range(p) = Range(q) \ {h}
    <2>1. ASSUME NEW v \in Range(p) PROVE v \in Range(q) \ {h}
      <3>1. PICK n \in DOMAIN p : v = p[n]
        BY DEF Range
      <3>2. v = q[n + 1] /\ n + 1 \in DOMAIN q /\ n + 1 # 1
        BY <1>3, <3>1
      <3> QED
        BY <1>1, <1>4, <1>7, <3>2 DEF Range, IsInjective
    <2>2. ASSUME NEW v \in Range(q) \ {h} PROVE v \in Range(p)
      BY <1>1, <1>2 DEF Range
    <2> QED
      BY <2>1, <2>2
  <1> QED
    BY <1>1, <1>5, <1>6, <1>7 DEF p, h

(* The empty list.                                                         *)
LEMMA EmptyList == Range(<< >>) = {} /\ IsInjective(<< >>)
  BY DEF Range, IsInjective

(* A list without duplicates has a thread once or not at all.              *)
LEMMA OccursOnce ==
    ASSUME NEW S, NEW q \in Seq(S), IsInjective(q), NEW u
    PROVE  Occurs(u, q) = IF u \in Range(q) THEN 1 ELSE 0
  <1> DEFINE N == {n \in DOMAIN q : q[n] = u}
  <1>1. CASE u \in Range(q)
    <2>1. PICK n \in DOMAIN q : q[n] = u
      BY <1>1 DEF Range
    <2>2. N = {n}
      BY <2>1 DEF IsInjective
    <2> QED
      BY <1>1, <2>2, FS_Singleton DEF Occurs
  <1>2. CASE u \notin Range(q)
    <2>1. N = {}
      BY <1>2 DEF Range
    <2> QED
      BY <1>2, <2>1, FS_EmptySet DEF Occurs
  <1> QED
    BY <1>1, <1>2

-----------------------------------------------------------------------------
(* The inductive invariant.                                                *)
ChanBooks == TypeOK /\ ~fault /\ Conserved /\ NoneWaitsInVain /\ Books

(* What becomes of the lists and of those who wake somebody.               *)
Lists(s, r, x) ==
    /\ Range(sendq)' = s /\ Range(recvq)' = r /\ Range(Rest)' = x
    /\ Queues'
WakersSame == \A v \in Threads : WakersOf(v)' = WakersOf(v)
WakerOf(t, u) ==
    \A v \in Threads :
       WakersOf(v)' = IF v = u THEN WakersOf(v) \cup {t} ELSE WakersOf(v)
CallersSame == \A v \in Threads : Callers(v)' = Callers(v)
Quiet ==
    /\ Lists(Range(sendq), Range(recvq), Range(Rest)) /\ UNCHANGED Rest
    /\ WakersSame /\ CallersSame

(* Facts about one thread that many steps need.                            *)
LEMMA Facts1 ==
    ASSUME ChanBooks, NEW t \in Threads
    PROVE  /\ CallBooks(t) /\ LockBooks(t) /\ WaitBooks(t) /\ SignalBooks(t)
           /\ SendBooks(t) /\ RecvBooks(t) /\ SeenBooks(t) /\ Queues /\ TypeOK
  BY DEF ChanBooks, Books

(* The remaining list is the closer's.                                     *)
LEMMA RestType ==
    ASSUME TypeOK
    PROVE  Rest \in Seq(Threads)
  BY DEF TypeOK, Rest


(* Most steps move nobody: they change the place of a thread that neither  *)
(* wakes anyone nor walks a list.                                          *)
QuietStep(t) ==
    \/ \E op \in Ops[t] : Begin(t, op)
    \/ TrySendProbe(t) \/ TrySendSecond(t)
    \/ TryRecvProbe(t) \/ TryRecvSecond(t) \/ TryRecvThird(t)
    \/ Send(t) /\ (SendClosed(t) \/ SendEnqueue(t))
    \/ Send(t) /\ SendFull(t) /\ InCall(t, "trysend")
    \/ Recv(t) /\ (RecvClosed(t) \/ RecvDequeue(t))
    \/ Recv(t) /\ RecvNothing(t) /\ InCall(t, "tryrecv")
    \/ Wake(t) \/ Exit(t)

(* The steps that neither park nor wake anybody.                           *)
LEMMA QuietMoves ==
    ASSUME ChanBooks, NEW t \in Threads, QuietStep(t)
    PROVE  Quiet
  <1> USE ChannelAssumption
      DEF At, InCall, Goto, shared, ring, waiters, history, OpNames, Answer,
          Idle, Signalling, Outside
  <1>0. /\ CallBooks(t) /\ LockBooks(t) /\ Queues /\ TypeOK
    BY Facts1
  <1> DEFINE Goal == /\ sendq' = sendq /\ recvq' = recvq /\ lock' = lock
                     /\ \A v \in Threads : v # t => pc'[v] = pc[v]
                     /\ pc[t].at \notin Signalling /\ pc'[t].at \notin Signalling
                     /\ pc[t].op # "close"
  <1>1. ASSUME NEW op \in Ops[t], Begin(t, op) PROVE Goal
    BY <1>0, <1>1 DEF Begin, CallBooks, TypeOK
  <1>2. ASSUME TrySendProbe(t) PROVE Goal
    BY <1>0, <1>2 DEF TrySendProbe, CallBooks, TypeOK
  <1>3. ASSUME TrySendSecond(t) PROVE Goal
    BY <1>0, <1>3, SMTT(30) DEF TrySendSecond, CallBooks, TypeOK
  <1>4. ASSUME TryRecvProbe(t) PROVE Goal
    BY <1>0, <1>4 DEF TryRecvProbe, CallBooks, TypeOK
  <1>5. ASSUME TryRecvSecond(t) PROVE Goal
    BY <1>0, <1>5, SMTT(30) DEF TryRecvSecond, CallBooks, TypeOK
  <1>6. ASSUME TryRecvThird(t) PROVE Goal
    BY <1>0, <1>6, SMTT(30) DEF TryRecvThird, CallBooks, TypeOK
  <1>7. ASSUME Send(t), SendClosed(t) PROVE Goal
    BY <1>0, <1>7 DEF Send, SendClosed, CallBooks, TypeOK
  <1>8. ASSUME Send(t), SendEnqueue(t) PROVE Goal
    BY <1>0, <1>8 DEF Send, SendEnqueue, CallBooks, TypeOK
  <1>9. ASSUME Send(t), SendFull(t), InCall(t, "trysend") PROVE Goal
    BY <1>0, <1>9 DEF Send, SendFull, CallBooks, TypeOK
  <1>10. ASSUME Recv(t), RecvClosed(t) PROVE Goal
    BY <1>0, <1>10 DEF Recv, RecvClosed, CallBooks, TypeOK
  <1>11. ASSUME Recv(t), RecvDequeue(t) PROVE Goal
    BY <1>0, <1>11 DEF Recv, RecvDequeue, CallBooks, TypeOK
  <1>12. ASSUME Recv(t), RecvNothing(t), InCall(t, "tryrecv") PROVE Goal
    BY <1>0, <1>12 DEF Recv, RecvNothing, CallBooks, TypeOK
  <1>13. ASSUME Wake(t) PROVE Goal
    BY <1>0, <1>13 DEF Wake, CallBooks, TypeOK
  <1>14. ASSUME Exit(t) PROVE Goal
    BY <1>0, <1>14 DEF Exit, CallBooks, TypeOK
  <1>15. Goal
    BY <1>1, <1>2, <1>3, <1>4, <1>5, <1>6, <1>7, <1>8, <1>9, <1>10, <1>11,
       <1>12, <1>13, <1>14
       DEF QuietStep
  <1> HIDE DEF Goal
  <1>a. Rest' = Rest
    BY <1>0, <1>15 DEF Rest, TypeOK, LockBooks, Goal
  <1>b. WakersSame
    BY <1>15 DEF WakersSame, WakersOf, Goal
  <1>c. CallersSame
    BY <1>15 DEF CallersSame, Callers, Goal
  <1> QED
    BY <1>0, <1>15, <1>a, <1>b, <1>c DEF Quiet, Lists, Queues, Goal

(* The steps that do, one by one.                                          *)
LEMMA SendDirectMoves ==
    ASSUME ChanBooks, NEW t \in Threads, Send(t), SendDirect(t)
    PROVE  /\ Head(recvq) \in Threads /\ Head(recvq) \in Range(recvq)
           /\ Lists(Range(sendq), Range(recvq) \ {Head(recvq)}, Range(Rest))
           /\ UNCHANGED Rest /\ WakerOf(t, Head(recvq)) /\ CallersSame
  <1>0. /\ CallBooks(t) /\ LockBooks(t) /\ Queues /\ TypeOK
    BY Facts1
  <1>1. /\ pc' = [pc EXCEPT ![t].at = "register", ![t].to = Head(recvq)]
        /\ pc[t].at = "lock" /\ pc[t].op \in Sending
        /\ sendq' = sendq /\ recvq' = Tail(recvq) /\ lock' = lock
        /\ lock = None /\ recvq # << >>
    BY DEF Send, SendDirect, Signal, At, Sending
  <1>2. Rest' = Rest
    BY <1>1, ChannelAssumption DEF Rest
  <1>3. /\ Head(recvq) \in Threads /\ Head(recvq) \in Range(recvq)
        /\ Lists(Range(sendq), Range(recvq) \ {Head(recvq)}, Range(Rest))
    BY <1>0, <1>1, <1>2, ListShrinks DEF Lists, Queues, TypeOK
  <1>4. WakerOf(t, Head(recvq))
    BY <1>0, <1>1, ZenonT(30) DEF WakerOf, WakersOf, TypeOK
  <1>5. CallersSame
    BY <1>0, <1>1, ZenonT(30) DEF CallersSame, Callers, TypeOK
  <1> QED
    BY <1>2, <1>3, <1>4, <1>5

(* A receiver takes a parked sender off its list and is about to wake it.  *)
LEMMA RecvDirectMoves ==
    ASSUME ChanBooks, NEW t \in Threads, Recv(t), RecvDirect(t)
    PROVE  /\ Head(sendq) \in Threads /\ Head(sendq) \in Range(sendq)
           /\ Lists(Range(sendq) \ {Head(sendq)}, Range(recvq), Range(Rest))
           /\ UNCHANGED Rest /\ WakerOf(t, Head(sendq)) /\ CallersSame
  <1>0. /\ CallBooks(t) /\ LockBooks(t) /\ Queues /\ TypeOK
    BY Facts1
  <1>1. /\ pc' = [pc EXCEPT ![t].at = "register", ![t].to = Head(sendq)]
        /\ pc[t].at = "lock" /\ pc[t].op \in Receiving
        /\ sendq' = Tail(sendq) /\ recvq' = recvq /\ lock' = lock
        /\ lock = None /\ sendq # << >>
    BY DEF Recv, RecvDirect, Signal, At, Receiving
  <1>2. Rest' = Rest
    BY <1>1, ChannelAssumption DEF Rest
  <1>3. /\ Head(sendq) \in Threads /\ Head(sendq) \in Range(sendq)
        /\ Lists(Range(sendq) \ {Head(sendq)}, Range(recvq), Range(Rest))
    BY <1>0, <1>1, <1>2, ListShrinks DEF Lists, Queues, TypeOK
  <1>4. WakerOf(t, Head(sendq))
    BY <1>0, <1>1, ZenonT(30) DEF WakerOf, WakersOf, TypeOK
  <1>5. CallersSame
    BY <1>0, <1>1, ZenonT(30) DEF CallersSame, Callers, TypeOK
  <1> QED
    BY <1>2, <1>3, <1>4, <1>5

(* A sender that finds no room joins the list of senders.                  *)
LEMMA SendParksMoves ==
    ASSUME ChanBooks, NEW t \in Threads, Send(t), SendFull(t),
           ~InCall(t, "trysend")
    PROVE  /\ Lists(Range(sendq) \cup {t}, Range(recvq), Range(Rest))
           /\ UNCHANGED Rest /\ WakersSame /\ CallersSame
  <1>0. /\ CallBooks(t) /\ WaitBooks(t) /\ Queues /\ TypeOK
    BY Facts1
  <1>1. /\ pc' = [pc EXCEPT ![t].at = "parked"]
        /\ pc[t].at = "lock" /\ pc[t].op \in Sending
        /\ sendq' = Append(sendq, t) /\ recvq' = recvq /\ lock' = lock
        /\ lock = None
    BY DEF Send, SendFull, Park, Goto, At, InCall, Sending
  <1>2. Rest' = Rest
    BY <1>1, ChannelAssumption DEF Rest
  <1>3. t \notin Range(sendq)
    BY <1>0, <1>1 DEF WaitBooks, At
  <1>4. Lists(Range(sendq) \cup {t}, Range(recvq), Range(Rest))
    BY <1>0, <1>1, <1>2, <1>3, ListGrows DEF Lists, Queues, TypeOK
  <1>5. WakersSame
    BY <1>0, <1>1 DEF WakersSame, WakersOf, TypeOK
  <1>6. CallersSame
    BY <1>0, <1>1 DEF CallersSame, Callers, TypeOK
  <1> QED
    BY <1>2, <1>4, <1>5, <1>6

(* A receiver that finds nothing joins the list of receivers.              *)
LEMMA RecvParksMoves ==
    ASSUME ChanBooks, NEW t \in Threads, Recv(t), RecvNothing(t),
           ~InCall(t, "tryrecv")
    PROVE  /\ Lists(Range(sendq), Range(recvq) \cup {t}, Range(Rest))
           /\ UNCHANGED Rest /\ WakersSame /\ CallersSame
  <1>0. /\ CallBooks(t) /\ WaitBooks(t) /\ Queues /\ TypeOK
    BY Facts1
  <1>1. /\ pc' = [pc EXCEPT ![t].at = "parked"]
        /\ pc[t].at = "lock" /\ pc[t].op \in Receiving
        /\ sendq' = sendq /\ recvq' = Append(recvq, t) /\ lock' = lock
        /\ lock = None
    BY DEF Recv, RecvNothing, Park, Goto, At, InCall, Receiving
  <1>2. Rest' = Rest
    BY <1>1, ChannelAssumption DEF Rest
  <1>3. t \notin Range(recvq)
    BY <1>0, <1>1 DEF WaitBooks, At
  <1>4. Lists(Range(sendq), Range(recvq) \cup {t}, Range(Rest))
    BY <1>0, <1>1, <1>2, <1>3, ListGrows DEF Lists, Queues, TypeOK
  <1>5. WakersSame
    BY <1>0, <1>1 DEF WakersSame, WakersOf, TypeOK
  <1>6. CallersSame
    BY <1>0, <1>1 DEF CallersSame, Callers, TypeOK
  <1> QED
    BY <1>2, <1>4, <1>5, <1>6

(* thr_signal leaves the lists alone.                                      *)
LEMMA SignalMoves ==
    ASSUME ChanBooks, NEW t \in Threads, Register(t) \/ Post(t) \/ Clear(t)
    PROVE  /\ Lists(Range(sendq), Range(recvq), Range(Rest))
           /\ UNCHANGED Rest
           /\ Register(t) =>
                 WakersSame /\ \A v \in Threads :
                    Callers(v)' = IF v = pc[t].to THEN Callers(v) \cup {t}
                                                  ELSE Callers(v)
           /\ Post(t) =>
                 CallersSame /\ \A v \in Threads :
                    WakersOf(v)' = IF v = pc[t].to THEN WakersOf(v) \ {t}
                                                   ELSE WakersOf(v)
           /\ Clear(t) =>
                 WakersSame /\ \A v \in Threads :
                    Callers(v)' = IF v = pc[t].to THEN Callers(v) \ {t}
                                                  ELSE Callers(v)
  <1> USE DEF At, InCall, Goto, shared, ring, waiters, history
  <1>0. /\ CallBooks(t) /\ LockBooks(t) /\ Queues /\ TypeOK
    BY Facts1
  <1>1. /\ sendq' = sendq /\ recvq' = recvq /\ lock' = lock
        /\ \A v \in Threads : v # t => pc'[v] = pc[v]
    BY <1>0 DEF Register, Post, Clear, Answer, TypeOK
  <1>2. InCall(t, "close") => pc'[t].rest = pc[t].rest
    BY <1>0, SMTT(30) DEF Register, Post, Clear, TypeOK
  <1>3. Rest' = Rest
    BY <1>0, <1>1, <1>2 DEF Rest, TypeOK, LockBooks
  <1>4. Lists(Range(sendq), Range(recvq), Range(Rest))
    BY <1>0, <1>1, <1>3 DEF Lists, Queues
  <1>5. ASSUME Register(t)
        PROVE  WakersSame /\ \A v \in Threads :
                  Callers(v)' = IF v = pc[t].to THEN Callers(v) \cup {t}
                                                ELSE Callers(v)
    <2>1. /\ pc[t].at = "register" /\ pc'[t].at = "post"
          /\ pc'[t].to = pc[t].to
      BY <1>0, <1>5 DEF Register, TypeOK
    <2> QED
      BY <1>1, <2>1 DEF WakersSame, WakersOf, Callers
  <1>6. ASSUME Post(t)
        PROVE  CallersSame /\ \A v \in Threads :
                  WakersOf(v)' = IF v = pc[t].to THEN WakersOf(v) \ {t}
                                                 ELSE WakersOf(v)
    <2>1. /\ pc[t].at = "post" /\ pc'[t].at = "clear"
          /\ pc'[t].to = pc[t].to
      BY <1>0, <1>6 DEF Post, TypeOK
    <2> QED
      BY <1>1, <2>1 DEF CallersSame, WakersOf, Callers
  <1>7. ASSUME Clear(t)
        PROVE  WakersSame /\ \A v \in Threads :
                  Callers(v)' = IF v = pc[t].to THEN Callers(v) \ {t}
                                                ELSE Callers(v)
    <2>1. pc[t].at = "clear" /\ pc'[t].at \in {"cancel", "idle"}
      BY <1>0, <1>7 DEF Clear, Answer, Idle, TypeOK
    <2> QED
      BY <1>1, <2>1 DEF WakersSame, WakersOf, Callers
  <1> QED
    BY <1>3, <1>4, <1>5, <1>6, <1>7

(* The closer's walk.                                                      *)
LEMMA CloseMoves ==
    ASSUME ChanBooks, NEW t \in Threads,
           Close(t) \/ Detach(t) \/ Cancel(t) \/ CancelDone(t)
    PROVE  /\ Close(t) => Lists(Range(sendq), Range(recvq), {}) /\ Rest' = << >>
           /\ Detach(t) /\ At(t, "detachRecvq") =>
                 Lists(Range(sendq), {}, Range(recvq)) /\ Range(Rest) = {}
           /\ Detach(t) /\ At(t, "detachSendq") =>
                 Lists({}, Range(recvq), Range(sendq)) /\ Range(Rest) = {}
           /\ Cancel(t) =>
                 /\ Rest = pc[t].rest /\ Head(Rest) \in Threads
                 /\ Head(Rest) \in Range(Rest) /\ WakerOf(t, Head(Rest))
                 /\ Lists(Range(sendq), Range(recvq), Range(Rest) \ {Head(Rest)})
           /\ CancelDone(t) =>
                 Lists(Range(sendq), Range(recvq), {}) /\ Range(Rest) = {}
           /\ ~Cancel(t) => WakersSame
           /\ CallersSame
  <1> USE ChannelAssumption, EmptyList
      DEF At, InCall, Goto, shared, ring, waiters, history
  <1>0. /\ CallBooks(t) /\ LockBooks(t) /\ Queues /\ TypeOK
    BY Facts1
  <1>1. ASSUME Close(t)
        PROVE  /\ Lists(Range(sendq), Range(recvq), {}) /\ Rest' = << >>
               /\ WakersSame /\ CallersSame
    <2>1. /\ sendq' = sendq /\ recvq' = recvq /\ lock' = t
          /\ pc' = [pc EXCEPT ![t].at = "detachRecvq"]
          /\ pc[t].at = "lock" /\ pc[t].rest = << >>
      BY <1>0, <1>1 DEF Close, CallBooks, Signalling
    <2>2. Rest' = << >>
      BY <1>0, <2>1 DEF Rest, TypeOK
    <2>3. WakersSame /\ CallersSame
      BY <1>0, <2>1, SMTT(30) DEF WakersSame, WakersOf, CallersSame, Callers, TypeOK
    <2> QED
      BY <1>0, <2>1, <2>2, <2>3 DEF Lists, Queues
  <1>2. ASSUME Detach(t)
        PROVE  /\ Range(Rest) = {} /\ WakersSame /\ CallersSame
               /\ At(t, "detachRecvq") =>
                     Lists(Range(sendq), {}, Range(recvq))
               /\ At(t, "detachSendq") =>
                     Lists({}, Range(recvq), Range(sendq))
    <2>1. /\ lock = t /\ lock' = t /\ pc[t].rest = << >>
          /\ pc[t].at \in {"detachRecvq", "detachSendq"}
          /\ pc'[t].at = "cancel"
          /\ \A v \in Threads : v # t => pc'[v] = pc[v]
      <3>1. /\ pc[t].at \in {"detachRecvq", "detachSendq"} /\ lock' = lock
        BY <1>2 DEF Detach
      <3>2. lock = t /\ pc[t].rest = << >>
        BY <1>0, <3>1 DEF CallBooks, LockBooks, Signalling, Closing
      <3>3. pc'[t].at = "cancel" /\ \A v \in Threads : v # t => pc'[v] = pc[v]
        BY <1>0, <1>2 DEF Detach, TypeOK
      <3> QED
        BY <3>1, <3>2, <3>3
    <2>2. Rest = << >> /\ Rest' = pc'[t].rest
      BY <2>1 DEF Rest
    <2>3. WakersSame /\ CallersSame
      BY <2>1 DEF WakersSame, WakersOf, CallersSame, Callers
    <2>4. ASSUME At(t, "detachRecvq")
          PROVE  Lists(Range(sendq), {}, Range(recvq))
      <3>1. sendq' = sendq /\ recvq' = << >> /\ Rest' = recvq
        BY <1>0, <1>2, <2>2, <2>4 DEF Detach, TypeOK
      <3> QED
        BY <1>0, <3>1 DEF Lists, Queues
    <2>5. ASSUME At(t, "detachSendq")
          PROVE  Lists({}, Range(recvq), Range(sendq))
      <3>1. recvq' = recvq /\ sendq' = << >> /\ Rest' = sendq
        BY <1>0, <1>2, <2>2, <2>5 DEF Detach, TypeOK
      <3> QED
        BY <1>0, <3>1 DEF Lists, Queues
    <2> QED
      BY <2>2, <2>3, <2>4, <2>5
  <1>3. ASSUME Cancel(t)
        PROVE  /\ Rest = pc[t].rest /\ Head(Rest) \in Threads
               /\ Head(Rest) \in Range(Rest) /\ WakerOf(t, Head(Rest))
               /\ Lists(Range(sendq), Range(recvq), Range(Rest) \ {Head(Rest)})
               /\ CallersSame
    <2>1. /\ lock = t /\ lock' = t /\ sendq' = sendq /\ recvq' = recvq
          /\ pc[t].at = "cancel" /\ pc[t].rest # << >>
      BY <1>0, <1>3 DEF Cancel, CallBooks, LockBooks, Closing
    <2>2. /\ pc'[t].at = "register" /\ pc'[t].to = Head(pc[t].rest)
          /\ pc'[t].rest = Tail(pc[t].rest)
          /\ \A v \in Threads : v # t => pc'[v] = pc[v]
      BY <1>0, <1>3 DEF Cancel, TypeOK
    <2>3. Rest = pc[t].rest /\ Rest' = Tail(pc[t].rest)
      BY <2>1, <2>2 DEF Rest
    <2>4. /\ Head(Rest) \in Threads /\ Head(Rest) \in Range(Rest)
          /\ Lists(Range(sendq), Range(recvq), Range(Rest) \ {Head(Rest)})
      BY <1>0, <2>1, <2>3, ListShrinks, RestType DEF Lists, Queues
    <2>5. WakerOf(t, Head(Rest)) /\ CallersSame
      BY <2>1, <2>2, <2>3 DEF WakerOf, WakersOf, CallersSame, Callers
    <2> QED
      BY <2>3, <2>4, <2>5
  <1>4. ASSUME CancelDone(t)
        PROVE  /\ Lists(Range(sendq), Range(recvq), {}) /\ Range(Rest) = {}
               /\ WakersSame /\ CallersSame
    <2>1. /\ lock = t /\ sendq' = sendq /\ recvq' = recvq
          /\ pc[t].at = "cancel" /\ pc[t].rest = << >>
      BY <1>0, <1>4 DEF CancelDone, CallBooks, LockBooks, Closing
    <2>2. /\ pc'[t].at \in {"detachSendq", "idle"} /\ pc'[t].rest = << >>
          /\ \A v \in Threads : v # t => pc'[v] = pc[v]
          /\ lock' \in {t, None}
      <3>1. CASE sendq # << >>
        <4>1. pc' = [pc EXCEPT ![t].at = "detachSendq"] /\ lock' = lock
          BY <1>4, <3>1 DEF CancelDone
        <4> QED
          BY <1>0, <2>1, <4>1 DEF TypeOK
      <3>2. CASE sendq = << >>
        <4>1. pc' = [pc EXCEPT ![t] = Idle] /\ lock' = None
          BY <1>4, <3>2 DEF CancelDone, Answer
        <4> QED
          BY <1>0, <2>1, <4>1 DEF TypeOK, Idle
      <3> QED
        BY <3>1, <3>2
    <2>3. Rest = << >> /\ Rest' = << >>
      BY <2>1, <2>2 DEF Rest
    <2>4. WakersSame /\ CallersSame
      BY <2>1, <2>2 DEF WakersSame, WakersOf, CallersSame, Callers
    <2> QED
      BY <1>0, <2>1, <2>3, <2>4 DEF Lists, Queues
  <1>5. Close(t) => ~Cancel(t) /\ ~Detach(t) /\ ~CancelDone(t)
    BY DEF Close, Cancel, Detach, CancelDone
  <1>6. Detach(t) => ~Cancel(t) /\ ~CancelDone(t)
    BY DEF Cancel, Detach, CancelDone
  <1>7. CancelDone(t) => ~Cancel(t)
    BY DEF Cancel, CancelDone
  <1> QED
    BY <1>1, <1>2, <1>3, <1>4, <1>5, <1>6, <1>7

-----------------------------------------------------------------------------
(* What a step does to the thread that takes it: it goes on, its call ends *)
(* or it calls the thread it served.                                       *)
Others(t) ==
    \A v \in Threads \ {t} :
       pc'[v] = pc[v] /\ answer'[v] = answer[v] /\ calls'[v] = calls[v]
Goes(t, at) ==
    /\ pc'[t].at = at /\ pc'[t].op = pc[t].op
    /\ pc'[t].to = pc[t].to /\ pc'[t].rest = pc[t].rest
    /\ answer'[t] = answer[t]
Ends(t, a) ==
    /\ pc'[t].at = "idle" /\ pc'[t].op = None
    /\ pc'[t].to = None /\ pc'[t].rest = << >>
    /\ answer'[t] = a
Calls(t, u) ==
    /\ pc'[t].at = "register" /\ pc'[t].op = pc[t].op
    /\ pc'[t].to = u /\ answer'[t] = answer[t]

(* The ways in which a thread moves on, in the terms of its place.         *)
LEMMA Turns ==
    ASSUME TypeOK, NEW t \in Threads
    PROVE  /\ \A at : Goto(t, at) /\ UNCHANGED <<answer, calls>> =>
                 Goes(t, at) /\ Others(t)
           /\ \A a : Answer(t, a) /\ UNCHANGED calls =>
                 Ends(t, a) /\ Others(t)
           /\ \A u : Signal(t, u) /\ UNCHANGED <<answer, calls>> =>
                 Calls(t, u) /\ Others(t) /\ pc'[t].rest = pc[t].rest
           /\ UNCHANGED <<pc, answer, calls>> => Goes(t, pc[t].at) /\ Others(t)
  <1> USE DEF TypeOK, Others
  <1>1. ASSUME NEW at, Goto(t, at), UNCHANGED <<answer, calls>>
        PROVE  Goes(t, at) /\ Others(t)
    BY <1>1 DEF Goto, Goes
  <1>2. ASSUME NEW a, Answer(t, a), UNCHANGED calls
        PROVE  Ends(t, a) /\ Others(t)
    BY <1>2 DEF Answer, Idle, Ends
  <1>3. ASSUME NEW u, Signal(t, u), UNCHANGED <<answer, calls>>
        PROVE  Calls(t, u) /\ Others(t) /\ pc'[t].rest = pc[t].rest
    BY <1>3 DEF Signal, Calls
  <1>4. UNCHANGED <<pc, answer, calls>> => Goes(t, pc[t].at) /\ Others(t)
    BY DEF Goes
  <1> QED
    BY <1>1, <1>2, <1>3, <1>4

(* What each step does, thread by thread.                                  *)
LEMMA BeginDoes ==
    ASSUME ChanBooks, NEW t \in Threads, NEW op \in Ops[t], Begin(t, op)
    PROVE  /\ Others(t)
           /\ pc[t].at = "idle"
           /\ op \in OpNames
           /\ op \in {"close", "send"} => ~closed
           /\ op = "close" => \A v \in Threads : pc[v].op # "close"
           /\ pc'[t].at = IF op \in {"trysend", "tryrecv"} THEN "probe" ELSE "lock"
           /\ pc'[t].op = op /\ pc'[t].to = None /\ pc'[t].rest = << >>
           /\ answer'[t] = "none"
           /\ calls'[t] = calls[t] + 1
           /\ \A v \in Threads \ {t} : slot'[v] = slot[v]
           /\ slot'[t] = IF op \in Sending THEN <<t, calls[t] + 1>> ELSE None
           /\ UNCHANGED <<qcap, buf, qlen, sendx, recvx, accepted, received,
                         sendq, recvq, closed, lock, tclosed, sema, signals,
                         fault>>
  <1>0. TypeOK
    BY Facts1
  <1>1. /\ pc[t].at = "idle" /\ op \in OpNames
        /\ op \in {"close", "send"} => ~closed
        /\ op = "close" => \A v \in Threads : pc[v].op # "close"
    BY ChannelAssumption DEF Begin, At, InCall
  <1> DEFINE r == [Idle EXCEPT !.op = op,
                    !.at = IF op \in {"trysend", "tryrecv"} THEN "probe"
                                                            ELSE "lock"]
  <1>2. pc' = [pc EXCEPT ![t] = r]
    BY Zenon DEF Begin
  <1>r. /\ r.at = IF op \in {"trysend", "tryrecv"} THEN "probe" ELSE "lock"
        /\ r.op = op /\ r.to = None /\ r.rest = << >>
    BY DEF Idle
  <1> HIDE DEF r
  <1>3. /\ answer' = [answer EXCEPT ![t] = "none"]
        /\ calls' = [calls EXCEPT ![t] = @ + 1]
        /\ slot' = [slot EXCEPT ![t] = IF op \in Sending
                                      THEN <<t, calls[t] + 1>> ELSE None]
        /\ UNCHANGED <<shared, tclosed, sema, signals, fault>>
    BY DEF Begin, Sending
  <1>4. Others(t)
    BY <1>0, <1>2, <1>3 DEF Others, TypeOK
  <1>5. /\ pc'[t].at = IF op \in {"trysend", "tryrecv"} THEN "probe" ELSE "lock"
        /\ pc'[t].op = op /\ pc'[t].to = None /\ pc'[t].rest = << >>
    BY <1>0, <1>2, <1>r DEF TypeOK
  <1>6. answer'[t] = "none" /\ calls'[t] = calls[t] + 1
    BY <1>0, <1>3 DEF TypeOK
  <1>7. /\ \A v \in Threads \ {t} : slot'[v] = slot[v]
        /\ slot'[t] = IF op \in Sending THEN <<t, calls[t] + 1>> ELSE None
    BY <1>0, <1>3 DEF TypeOK
  <1> QED
    BY <1>1, <1>3, <1>4, <1>5, <1>6, <1>7 DEF shared, ring, history

(* What each step does, as a guard and what it changes of its thread, of   *)
(* the others and of the channel; one lemma for each. chan_trysend, first  *)
(* look.                                                                   *)
LEMMA TrySendProbeDoes ==
    ASSUME ChanBooks, NEW t \in Threads, TrySendProbe(t)
    PROVE  /\ Others(t)
           /\ pc[t].at = "probe" /\ pc[t].op = "trysend"
           /\ \/ Goes(t, "lock")
              \/ Goes(t, "sawOpen") /\ ~closed
              \/ Goes(t, "sawFull") /\ full
           /\ UNCHANGED <<qcap, buf, qlen, sendx, recvx, accepted, received,
                         sendq, recvq, closed, lock, calls, slot, tclosed,
                         sema, signals, fault>>
  <1> USE DEF TrySendProbe, At, InCall
  <1>1. pc[t].at = "probe" /\ pc[t].op = "trysend"
    OBVIOUS
  <1>2. \/ Goto(t, "lock") /\ UNCHANGED answer
        \/ Goto(t, "sawOpen") /\ ~closed /\ UNCHANGED answer
        \/ Goto(t, "sawFull") /\ full /\ UNCHANGED answer
    OBVIOUS
  <1>3. UNCHANGED <<qcap, buf, qlen, sendx, recvx, accepted, received,
                   sendq, recvq, closed, lock, calls, slot, tclosed,
                   sema, signals, fault>>
    BY DEF shared, ring, waiters, history
  <1> HIDE DEF TrySendProbe, At, InCall
  <1> QED
    BY <1>1, <1>2, <1>3, Facts1, Turns

(* chan_trysend, second look.                                              *)
LEMMA TrySendSecondDoes ==
    ASSUME ChanBooks, NEW t \in Threads, TrySendSecond(t)
    PROVE  /\ Others(t)
           /\ pc[t].at \in {"sawOpen", "sawFull"} /\ pc[t].op = "trysend"
           /\ \/ Goes(t, "lock")
              \/ Ends(t, "full") /\ pc[t].at = "sawOpen" /\ full
              \/ Ends(t, "full") /\ pc[t].at = "sawFull" /\ ~closed
           /\ UNCHANGED <<qcap, buf, qlen, sendx, recvx, accepted, received,
                         sendq, recvq, closed, lock, calls, slot, tclosed,
                         sema, signals, fault>>
  BY Facts1, Turns
     DEF TrySendSecond, At, InCall, shared, ring, waiters, history, TypeOK

(* chan_tryrecv, first look.                                               *)
LEMMA TryRecvProbeDoes ==
    ASSUME ChanBooks, NEW t \in Threads, TryRecvProbe(t)
    PROVE  /\ Others(t)
           /\ pc[t].at = "probe" /\ pc[t].op = "tryrecv"
           /\ Goes(t, "lock") \/ (Goes(t, "sawEmpty") /\ empty)
           /\ UNCHANGED <<qcap, buf, qlen, sendx, recvx, accepted, received,
                         sendq, recvq, closed, lock, calls, slot, tclosed,
                         sema, signals, fault>>
  <1> USE DEF TryRecvProbe, At, InCall
  <1>1. pc[t].at = "probe" /\ pc[t].op = "tryrecv"
    OBVIOUS
  <1>2. \/ Goto(t, "lock") /\ UNCHANGED answer
        \/ Goto(t, "sawEmpty") /\ empty /\ UNCHANGED answer
    OBVIOUS
  <1>3. UNCHANGED <<qcap, buf, qlen, sendx, recvx, accepted, received,
                   sendq, recvq, closed, lock, calls, slot, tclosed,
                   sema, signals, fault>>
    BY DEF shared, ring, waiters, history
  <1> HIDE DEF TryRecvProbe, At, InCall
  <1> QED
    BY <1>1, <1>2, <1>3, Facts1, Turns

(* chan_tryrecv, second look.                                              *)
LEMMA TryRecvSecondDoes ==
    ASSUME ChanBooks, NEW t \in Threads, TryRecvSecond(t)
    PROVE  /\ Others(t)
           /\ pc[t].at = "sawEmpty"
           /\ (Goes(t, "sawClosed") /\ closed) \/ (Ends(t, "empty") /\ ~closed)
           /\ UNCHANGED <<qcap, buf, qlen, sendx, recvx, accepted, received,
                         sendq, recvq, closed, lock, calls, slot, tclosed,
                         sema, signals, fault>>
  <1> USE DEF TryRecvSecond, At, InCall
  <1>1. pc[t].at = "sawEmpty"
    OBVIOUS
  <1>2. \/ Goto(t, "sawClosed") /\ closed /\ UNCHANGED answer
        \/ Answer(t, "empty") /\ ~closed
    OBVIOUS
  <1>3. UNCHANGED <<qcap, buf, qlen, sendx, recvx, accepted, received,
                   sendq, recvq, closed, lock, calls, slot, tclosed,
                   sema, signals, fault>>
    BY DEF shared, ring, waiters, history
  <1> HIDE DEF TryRecvSecond, At, InCall
  <1> QED
    BY <1>1, <1>2, <1>3, Facts1, Turns

(* chan_tryrecv, third look.                                               *)
LEMMA TryRecvThirdDoes ==
    ASSUME ChanBooks, NEW t \in Threads, TryRecvThird(t)
    PROVE  /\ Others(t)
           /\ pc[t].at = "sawClosed"
           /\ Goes(t, "lock") \/ (Ends(t, "drained") /\ empty)
           /\ UNCHANGED <<qcap, buf, qlen, sendx, recvx, accepted, received,
                         sendq, recvq, closed, lock, calls, slot, tclosed,
                         sema, signals, fault>>
  <1> USE DEF TryRecvThird, At, InCall
  <1>1. pc[t].at = "sawClosed"
    OBVIOUS
  <1>2. \/ Goto(t, "lock") /\ UNCHANGED answer
        \/ Answer(t, "drained") /\ empty
    OBVIOUS
  <1>3. UNCHANGED <<qcap, buf, qlen, sendx, recvx, accepted, received,
                   sendq, recvq, closed, lock, calls, slot, tclosed,
                   sema, signals, fault>>
    BY DEF shared, ring, waiters, history
  <1> HIDE DEF TryRecvThird, At, InCall
  <1> QED
    BY <1>1, <1>2, <1>3, Facts1, Turns

(* A sender finds the channel closed.                                      *)
LEMMA SendClosedDoes ==
    ASSUME ChanBooks, NEW t \in Threads, Send(t), SendClosed(t)
    PROVE  /\ Others(t)
           /\ pc[t].at = "lock" /\ pc[t].op \in Sending
           /\ closed
           /\ Goes(t, "lock") \/ Ends(t, "closed")
           /\ UNCHANGED <<qcap, buf, qlen, sendx, recvx, accepted, received,
                         sendq, recvq, closed, lock, calls, slot, tclosed,
                         sema, signals, fault>>
  BY Facts1, Turns
     DEF Send, SendClosed, At, InCall, shared, ring, waiters, history,
         Sending, TypeOK

(* A sender finds a receiver waiting.                                      *)
LEMMA SendDirectDoes ==
    ASSUME ChanBooks, NEW t \in Threads, Send(t), SendDirect(t)
    PROVE  /\ Others(t)
           /\ pc[t].at = "lock" /\ pc[t].op \in Sending
           /\ ~closed /\ lock = None /\ recvq # << >>
           /\ Calls(t, Head(recvq)) /\ pc'[t].rest = pc[t].rest
           /\ recvq' = Tail(recvq)
           /\ \A v \in Threads :
              slot'[v] = IF v = Head(recvq) THEN slot[t] ELSE slot[v]
           /\ accepted' = Append(accepted, slot[t])
           /\ received' = Append(received, slot[t])
           /\ UNCHANGED <<qcap, buf, qlen, sendx, recvx, sendq, closed, lock,
                         calls, tclosed, sema, signals>>
  BY Facts1, Turns
     DEF Send, SendDirect, At, InCall, shared, ring, waiters, history,
         Sending, TypeOK

(* A sender finds room.                                                    *)
LEMMA SendEnqueueDoes ==
    ASSUME ChanBooks, NEW t \in Threads, Send(t), SendEnqueue(t)
    PROVE  /\ Others(t)
           /\ pc[t].at = "lock" /\ pc[t].op \in Sending
           /\ ~closed /\ lock = None /\ recvq = << >> /\ qlen < qcap
           /\ Ends(t, "sent")
           /\ buf' = [buf EXCEPT ![sendx] = slot[t]]
           /\ sendx' = NextSlot(sendx) /\ qlen' = qlen + 1
           /\ accepted' = Append(accepted, slot[t])
           /\ UNCHANGED <<qcap, recvx, received, sendq, recvq, closed, lock,
                         calls, slot, tclosed, sema, signals, fault>>
  BY Facts1, Turns
     DEF Send, SendEnqueue, At, InCall, shared, ring, waiters, history,
         Sending, TypeOK

(* A sender that does not wait finds none.                                 *)
LEMMA SendRefusedDoes ==
    ASSUME ChanBooks, NEW t \in Threads, Send(t), SendFull(t), InCall(t,
           "trysend")
    PROVE  /\ Others(t)
           /\ pc[t].at = "lock" /\ pc[t].op \in Sending
           /\ ~closed /\ lock = None /\ recvq = << >> /\ qlen = qcap
           /\ Ends(t, "full")
           /\ UNCHANGED <<qcap, buf, qlen, sendx, recvx, accepted, received,
                         sendq, recvq, closed, lock, calls, slot, tclosed,
                         sema, signals, fault>>
  BY Facts1, Turns
     DEF Send, SendFull, At, InCall, shared, ring, waiters, history, Sending,
         TypeOK

(* A sender that waits finds none.                                         *)
LEMMA SendParksDoes ==
    ASSUME ChanBooks, NEW t \in Threads, Send(t), SendFull(t), ~InCall(t,
           "trysend")
    PROVE  /\ Others(t)
           /\ pc[t].at = "lock" /\ pc[t].op = "send"
           /\ ~closed /\ lock = None /\ recvq = << >> /\ qlen = qcap
           /\ Goes(t, "parked")
           /\ sendq' = Append(sendq, t)
           /\ \A v \in Threads : tclosed'[v] = IF v = t THEN FALSE ELSE tclosed[v]
           /\ UNCHANGED <<qcap, buf, qlen, sendx, recvx, accepted, received,
                         recvq, closed, lock, calls, slot, sema, signals,
                         fault>>
  BY Facts1, Turns
     DEF Send, SendFull, Park, At, InCall, shared, ring, waiters, history,
         TypeOK

(* A receiver finds the channel closed and empty.                          *)
LEMMA RecvClosedDoes ==
    ASSUME ChanBooks, NEW t \in Threads, Recv(t), RecvClosed(t)
    PROVE  /\ Others(t)
           /\ pc[t].at = "lock" /\ pc[t].op \in Receiving
           /\ closed /\ lock = None /\ qlen = 0
           /\ Ends(t, "drained")
           /\ UNCHANGED <<qcap, buf, qlen, sendx, recvx, accepted, received,
                         sendq, recvq, closed, lock, calls, slot, tclosed,
                         sema, signals, fault>>
  BY Facts1, Turns
     DEF Recv, RecvClosed, At, InCall, shared, ring, waiters, history,
         Receiving, TypeOK

(* A receiver finds a sender waiting.                                      *)
LEMMA RecvDirectDoes ==
    ASSUME ChanBooks, NEW t \in Threads, Recv(t), RecvDirect(t)
    PROVE  /\ Others(t)
           /\ pc[t].at = "lock" /\ pc[t].op \in Receiving
           /\ lock = None /\ sendq # << >>
           /\ Calls(t, Head(sendq)) /\ pc'[t].rest = pc[t].rest
           /\ sendq' = Tail(sendq)
           /\ \A v \in Threads : slot'[v] = IF v # t THEN slot[v] ELSE
              IF qlen = 0 THEN slot[Head(sendq)] ELSE buf[recvx]
           /\ accepted' = Append(accepted, slot[Head(sendq)])
           /\ received' = Append(received, slot'[t])
           /\ UNCHANGED <<qcap, qlen, recvq, closed, lock, calls, tclosed,
                         sema, signals>>
  BY Facts1, Turns
     DEF Recv, RecvDirect, At, InCall, shared, ring, waiters, history,
         Receiving, TypeOK

(* A receiver finds a message.                                             *)
LEMMA RecvDequeueDoes ==
    ASSUME ChanBooks, NEW t \in Threads, Recv(t), RecvDequeue(t)
    PROVE  /\ Others(t)
           /\ pc[t].at = "lock" /\ pc[t].op \in Receiving
           /\ lock = None /\ sendq = << >> /\ qlen > 0
           /\ Ends(t, "got")
           /\ \A v \in Threads : slot'[v] = IF v = t THEN buf[recvx] ELSE slot[v]
           /\ received' = Append(received, buf[recvx])
           /\ recvx' = NextSlot(recvx) /\ qlen' = qlen - 1
           /\ UNCHANGED <<qcap, buf, sendx, accepted, sendq, recvq, closed,
                         lock, calls, tclosed, sema, signals, fault>>
  BY Facts1, Turns
     DEF Recv, RecvDequeue, At, InCall, shared, ring, waiters, history,
         Receiving, TypeOK

(* A receiver that does not wait finds none.                               *)
LEMMA RecvRefusedDoes ==
    ASSUME ChanBooks, NEW t \in Threads, Recv(t), RecvNothing(t), InCall(t,
           "tryrecv")
    PROVE  /\ Others(t)
           /\ pc[t].at = "lock" /\ pc[t].op \in Receiving
           /\ ~closed /\ lock = None /\ sendq = << >> /\ qlen = 0
           /\ Ends(t, "empty")
           /\ UNCHANGED <<qcap, buf, qlen, sendx, recvx, accepted, received,
                         sendq, recvq, closed, lock, calls, slot, tclosed,
                         sema, signals, fault>>
  BY Facts1, Turns
     DEF Recv, RecvNothing, At, InCall, shared, ring, waiters, history,
         Receiving, TypeOK

(* A receiver that waits finds none.                                       *)
LEMMA RecvParksDoes ==
    ASSUME ChanBooks, NEW t \in Threads, Recv(t), RecvNothing(t), ~InCall(t,
           "tryrecv")
    PROVE  /\ Others(t)
           /\ pc[t].at = "lock" /\ pc[t].op = "recv"
           /\ ~closed /\ lock = None /\ sendq = << >> /\ qlen = 0
           /\ Goes(t, "parked")
           /\ recvq' = Append(recvq, t)
           /\ \A v \in Threads : tclosed'[v] = IF v = t THEN FALSE ELSE tclosed[v]
           /\ UNCHANGED <<qcap, buf, qlen, sendx, recvx, accepted, received,
                         sendq, closed, lock, calls, slot, sema, signals,
                         fault>>
  BY Facts1, Turns
     DEF Recv, RecvNothing, Park, At, InCall, shared, ring, waiters, history,
         TypeOK

(* A parked thread is woken.                                               *)
LEMMA WakeDoes ==
    ASSUME ChanBooks, NEW t \in Threads, Wake(t)
    PROVE  /\ Others(t)
           /\ pc[t].at = "parked"
           /\ sema[t] = 1
           /\ CASE tclosed[t] /\ pc[t].op = "send" -> Ends(t, "cancelled")
                [] tclosed[t] /\ pc[t].op = "recv" -> Ends(t, "drained")
                [] ~tclosed[t] /\ pc[t].op = "send" -> Ends(t, "sent")
                [] OTHER -> Ends(t, "got")
           /\ \A v \in Threads : sema'[v] = IF v = t THEN 0 ELSE sema[v]
           /\ UNCHANGED <<qcap, buf, qlen, sendx, recvx, accepted, received,
                         sendq, recvq, closed, lock, calls, slot, tclosed,
                         signals, fault>>
  BY Facts1, Turns, ChannelAssumption, SMTT(30)
     DEF Wake, At, InCall, shared, ring, waiters, history, CallBooks,
         Signalling, Outside, OpNames, TypeOK

(* A thread that wakes another enters its Thr,                             *)
LEMMA RegisterDoes ==
    ASSUME ChanBooks, NEW t \in Threads, Register(t)
    PROVE  /\ Others(t)
           /\ pc[t].at = "register"
           /\ Goes(t, "post")
           /\ \A v \in Threads :
              signals'[v] = IF v = pc[t].to THEN signals[v] + 1 ELSE signals[v]
           /\ UNCHANGED <<qcap, buf, qlen, sendx, recvx, accepted, received,
                         sendq, recvq, closed, lock, calls, slot, tclosed,
                         sema>>
  BY Facts1, Turns
     DEF Register, At, InCall, shared, ring, waiters, history, TypeOK

(* posts its semaphore,                                                    *)
LEMMA PostDoes ==
    ASSUME ChanBooks, NEW t \in Threads, Post(t)
    PROVE  /\ Others(t)
           /\ pc[t].at = "post"
           /\ Goes(t, "clear")
           /\ \A v \in Threads :
              sema'[v] = IF v = pc[t].to THEN sema[v] + 1 ELSE sema[v]
           /\ UNCHANGED <<qcap, buf, qlen, sendx, recvx, accepted, received,
                         sendq, recvq, closed, lock, calls, slot, tclosed,
                         signals>>
  BY Facts1, Turns
     DEF Post, At, InCall, shared, ring, waiters, history, TypeOK

(* and leaves its Thr.                                                     *)
LEMMA ClearDoes ==
    ASSUME ChanBooks, NEW t \in Threads, Clear(t)
    PROVE  /\ Others(t)
           /\ pc[t].at = "clear"
           /\ \/ pc[t].op = "close" /\ Goes(t, "cancel")
              \/ pc[t].op \in Sending /\ Ends(t, "sent")
              \/ pc[t].op \in Receiving /\ Ends(t, "got")
           /\ \A v \in Threads :
              signals'[v] = IF v = pc[t].to THEN signals[v] - 1 ELSE signals[v]
           /\ UNCHANGED <<qcap, buf, qlen, sendx, recvx, accepted, received,
                         sendq, recvq, closed, lock, calls, slot, tclosed,
                         sema>>
  BY Facts1, Turns, ChannelAssumption, ZenonT(30)
     DEF Clear, At, InCall, shared, ring, waiters, history, Sending,
         Receiving, CallBooks, Signalling, Outside, OpNames, TypeOK

(* The channel is closed.                                                  *)
LEMMA CloseDoes ==
    ASSUME ChanBooks, NEW t \in Threads, Close(t)
    PROVE  /\ Others(t)
           /\ pc[t].at = "lock" /\ pc[t].op = "close"
           /\ lock = None
           /\ Goes(t, "detachRecvq")
           /\ closed' = TRUE /\ lock' = t
           /\ UNCHANGED <<qcap, buf, qlen, sendx, recvx, accepted, received,
                         sendq, recvq, calls, slot, tclosed, sema, signals,
                         fault>>
  BY Facts1, Turns
     DEF Close, At, InCall, shared, ring, waiters, history, TypeOK

(* The closer takes the list of receivers,                                 *)
LEMMA DetachRecvDoes ==
    ASSUME ChanBooks, NEW t \in Threads, Detach(t), At(t, "detachRecvq")
    PROVE  /\ Others(t)
           /\ pc[t].at = "detachRecvq"
           /\ pc'[t].at = "cancel" /\ pc'[t].rest = recvq
           /\ pc'[t].op = pc[t].op /\ answer'[t] = answer[t]
           /\ recvq' = << >>
           /\ UNCHANGED <<qcap, buf, qlen, sendx, recvx, accepted, received,
                         sendq, closed, lock, calls, slot, tclosed, sema,
                         signals, fault>>
  <1>0. TypeOK
    BY Facts1
  <1>1. /\ pc[t].at = "detachRecvq" /\ recvq' = << >> /\ sendq' = sendq
        /\ pc' = [pc EXCEPT ![t].at = "cancel", ![t].rest = recvq]
        /\ UNCHANGED <<qcap, ring, closed, lock, history, calls, waiters,
                       answer, fault>>
    BY DEF Detach, At
  <1>2. Others(t)
    BY <1>0, <1>1 DEF Others, TypeOK
  <1>3. /\ pc'[t].at = "cancel" /\ pc'[t].rest = recvq /\ pc'[t].op = pc[t].op
    BY <1>0, <1>1 DEF TypeOK
  <1> QED
    BY <1>1, <1>2, <1>3 DEF ring, waiters, history

(* and then the list of senders.                                           *)
LEMMA DetachSendDoes ==
    ASSUME ChanBooks, NEW t \in Threads, Detach(t), At(t, "detachSendq")
    PROVE  /\ Others(t)
           /\ pc[t].at = "detachSendq"
           /\ pc'[t].at = "cancel" /\ pc'[t].rest = sendq
           /\ pc'[t].op = pc[t].op /\ answer'[t] = answer[t]
           /\ sendq' = << >>
           /\ UNCHANGED <<qcap, buf, qlen, sendx, recvx, accepted, received,
                         recvq, closed, lock, calls, slot, tclosed, sema,
                         signals, fault>>
  <1>0. TypeOK
    BY Facts1
  <1>1. /\ pc[t].at = "detachSendq" /\ sendq' = << >> /\ recvq' = recvq
        /\ pc' = [pc EXCEPT ![t].at = "cancel", ![t].rest = sendq]
        /\ UNCHANGED <<qcap, ring, closed, lock, history, calls, waiters,
                       answer, fault>>
    BY DEF Detach, At
  <1>2. Others(t)
    BY <1>0, <1>1 DEF Others, TypeOK
  <1>3. /\ pc'[t].at = "cancel" /\ pc'[t].rest = sendq /\ pc'[t].op = pc[t].op
    BY <1>0, <1>1 DEF TypeOK
  <1> QED
    BY <1>1, <1>2, <1>3 DEF ring, waiters, history

(* It wakes those who are in the list.                                     *)
LEMMA CancelDoes ==
    ASSUME ChanBooks, NEW t \in Threads, Cancel(t)
    PROVE  /\ Others(t)
           /\ pc[t].at = "cancel" /\ pc[t].rest # << >>
           /\ Calls(t, Head(pc[t].rest)) /\ pc'[t].rest = Tail(pc[t].rest)
           /\ \A v \in Threads :
              tclosed'[v] = IF v = Head(pc[t].rest) THEN TRUE ELSE tclosed[v]
           /\ fault' = FALSE
           /\ UNCHANGED <<qcap, buf, qlen, sendx, recvx, accepted, received,
                         sendq, recvq, closed, lock, calls, slot, sema,
                         signals>>
  <1>0. TypeOK
    BY Facts1
  <1>1. /\ pc[t].at = "cancel" /\ pc[t].rest # << >>
        /\ pc' = [pc EXCEPT ![t].at = "register", ![t].to = Head(pc[t].rest),
                            ![t].rest = Tail(@)]
        /\ tclosed' = [tclosed EXCEPT ![Head(pc[t].rest)] = TRUE]
        /\ UNCHANGED <<shared, calls, slot, sema, signals, answer>>
    BY DEF Cancel, At
  <1>2. Others(t)
    BY <1>0, <1>1 DEF Others, TypeOK
  <1>3. Calls(t, Head(pc[t].rest)) /\ pc'[t].rest = Tail(pc[t].rest)
    BY <1>0, <1>1 DEF Calls, TypeOK
  <1>4. \A v \in Threads :
           tclosed'[v] = IF v = Head(pc[t].rest) THEN TRUE ELSE tclosed[v]
    BY <1>0, <1>1 DEF TypeOK
  <1>5. fault' = FALSE
    <2>1. Rest = pc[t].rest /\ Head(Rest) \in Range(Rest) /\ Head(Rest) \in Threads
      BY CloseMoves
    <2>2. WaitBooks(Head(Rest)) /\ ~fault
      BY <2>1, Facts1 DEF ChanBooks
    <2> QED
      BY <1>0, <2>1, <2>2 DEF Cancel, Parked, At, WaitBooks, Called, TypeOK
  <1> QED
    BY <1>1, <1>2, <1>3, <1>4, <1>5 DEF shared, ring, history

(* One list is done and there is another.                                  *)
LEMMA CancelGoesOnDoes ==
    ASSUME ChanBooks, NEW t \in Threads, CancelDone(t), sendq # << >>
    PROVE  /\ Others(t)
           /\ pc[t].at = "cancel" /\ pc[t].rest = << >>
           /\ sendq # << >>
           /\ Goes(t, "detachSendq")
           /\ UNCHANGED <<qcap, buf, qlen, sendx, recvx, accepted, received,
                         sendq, recvq, closed, lock, calls, slot, tclosed,
                         sema, signals, fault>>
  BY Facts1, Turns
     DEF CancelDone, At, InCall, shared, ring, waiters, history, TypeOK

(* Both lists are done.                                                    *)
LEMMA CancelEndsDoes ==
    ASSUME ChanBooks, NEW t \in Threads, CancelDone(t), sendq = << >>
    PROVE  /\ Others(t)
           /\ pc[t].at = "cancel" /\ pc[t].rest = << >>
           /\ sendq = << >>
           /\ Ends(t, "done")
           /\ lock' = None
           /\ UNCHANGED <<qcap, buf, qlen, sendx, recvx, accepted, received,
                         sendq, recvq, closed, calls, slot, tclosed, sema,
                         signals, fault>>
  BY Facts1, Turns
     DEF CancelDone, At, InCall, shared, ring, waiters, history, TypeOK

(* A thread ends.                                                          *)
LEMMA ExitDoes ==
    ASSUME ChanBooks, NEW t \in Threads, Exit(t)
    PROVE  /\ Others(t)
           /\ pc[t].at = "idle" /\ signals[t] = 0
           /\ Goes(t, "dead")
           /\ UNCHANGED <<qcap, buf, qlen, sendx, recvx, accepted, received,
                         sendq, recvq, closed, lock, calls, slot, tclosed,
                         sema, signals, fault>>
  BY Facts1, Turns
     DEF Exit, At, InCall, shared, ring, waiters, history, TypeOK

-----------------------------------------------------------------------------
(* Where a thread stands.                                                  *)
LEMMA CallKept ==
    ASSUME ChanBooks, NEW t \in Threads,
           Step(t) \/ Exit(t) \/ \E op \in Ops[t] : Begin(t, op)
    PROVE  CallBooks(t)' /\ Others(t)
  <1>0. CallBooks(t)
    BY Facts1
  <1>1. ASSUME NEW op \in Ops[t], Begin(t, op)
        PROVE  CallBooks(t)' /\ Others(t)
    <2>1. /\ pc'[t].at \in {"probe", "lock"} /\ pc'[t].op = op
          /\ pc'[t].at = "probe" => op \in {"trysend", "tryrecv"}
          /\ pc'[t].rest = << >> /\ answer'[t] = "none" /\ op # None
          /\ op = "close" => pc'[t].at = "lock"
          /\ Others(t)
      <3>1. /\ op \in OpNames /\ Others(t)
            /\ pc'[t].at = IF op \in {"trysend", "tryrecv"} THEN "probe"
                                                           ELSE "lock"
            /\ pc'[t].op = op /\ pc'[t].rest = << >> /\ answer'[t] = "none"
        BY <1>1, BeginDoes, Zenon
      <3> QED
        BY <3>1, ChannelAssumption
    <2> QED
      BY <2>1 DEF CallBooks, At, InCall, Outside, Signalling, Closing
  <1>2. ASSUME TrySendProbe(t) PROVE CallBooks(t)' /\ Others(t)
    BY <1>0, ChannelAssumption, <1>2, TrySendProbeDoes
       DEF Others, Goes, Ends, Calls, At, InCall, CallBooks, Outside,
           Signalling, Closing, Sending, Receiving, OpNames
  <1>3. ASSUME TrySendSecond(t) PROVE CallBooks(t)' /\ Others(t)
    BY <1>0, ChannelAssumption, <1>3, TrySendSecondDoes
       DEF Others, Goes, Ends, Calls, At, InCall, CallBooks, Outside,
           Signalling, Closing, Sending, Receiving, OpNames
  <1>4. ASSUME TryRecvProbe(t) PROVE CallBooks(t)' /\ Others(t)
    BY <1>0, ChannelAssumption, <1>4, TryRecvProbeDoes
       DEF Others, Goes, Ends, Calls, At, InCall, CallBooks, Outside,
           Signalling, Closing, Sending, Receiving, OpNames
  <1>5. ASSUME TryRecvSecond(t) PROVE CallBooks(t)' /\ Others(t)
    BY <1>0, ChannelAssumption, <1>5, TryRecvSecondDoes
       DEF Others, Goes, Ends, Calls, At, InCall, CallBooks, Outside,
           Signalling, Closing, Sending, Receiving, OpNames
  <1>6. ASSUME TryRecvThird(t) PROVE CallBooks(t)' /\ Others(t)
    BY <1>0, ChannelAssumption, <1>6, TryRecvThirdDoes
       DEF Others, Goes, Ends, Calls, At, InCall, CallBooks, Outside,
           Signalling, Closing, Sending, Receiving, OpNames
  <1>7. ASSUME Send(t), SendClosed(t) PROVE CallBooks(t)' /\ Others(t)
    BY <1>0, ChannelAssumption, <1>7, SendClosedDoes
       DEF Others, Goes, Ends, Calls, At, InCall, CallBooks, Outside,
           Signalling, Closing, Sending, Receiving, OpNames
  <1>8. ASSUME Send(t), SendDirect(t) PROVE CallBooks(t)' /\ Others(t)
    BY <1>0, ChannelAssumption, <1>8, SendDirectDoes, SendDirectMoves
       DEF Others, Goes, Ends, Calls, At, InCall, CallBooks, Outside,
           Signalling, Closing, Sending, Receiving, OpNames
  <1>9. ASSUME Send(t), SendEnqueue(t) PROVE CallBooks(t)' /\ Others(t)
    BY <1>0, ChannelAssumption, <1>9, SendEnqueueDoes
       DEF Others, Goes, Ends, Calls, At, InCall, CallBooks, Outside,
           Signalling, Closing, Sending, Receiving, OpNames
  <1>10. ASSUME Send(t), SendFull(t), InCall(t, "trysend")
        PROVE  CallBooks(t)' /\ Others(t)
    BY <1>0, ChannelAssumption, <1>10, SendRefusedDoes
       DEF Others, Goes, Ends, Calls, At, InCall, CallBooks, Outside,
           Signalling, Closing, Sending, Receiving, OpNames
  <1>11. ASSUME Send(t), SendFull(t), ~InCall(t, "trysend")
        PROVE  CallBooks(t)' /\ Others(t)
    BY <1>0, ChannelAssumption, <1>11, SendParksDoes
       DEF Others, Goes, Ends, Calls, At, InCall, CallBooks, Outside,
           Signalling, Closing, Sending, Receiving, OpNames
  <1>12. ASSUME Recv(t), RecvClosed(t) PROVE CallBooks(t)' /\ Others(t)
    BY <1>0, ChannelAssumption, <1>12, RecvClosedDoes
       DEF Others, Goes, Ends, Calls, At, InCall, CallBooks, Outside,
           Signalling, Closing, Sending, Receiving, OpNames
  <1>13. ASSUME Recv(t), RecvDirect(t) PROVE CallBooks(t)' /\ Others(t)
    BY <1>0, ChannelAssumption, <1>13, RecvDirectDoes, RecvDirectMoves
       DEF Others, Goes, Ends, Calls, At, InCall, CallBooks, Outside,
           Signalling, Closing, Sending, Receiving, OpNames
  <1>14. ASSUME Recv(t), RecvDequeue(t) PROVE CallBooks(t)' /\ Others(t)
    BY <1>0, ChannelAssumption, <1>14, RecvDequeueDoes
       DEF Others, Goes, Ends, Calls, At, InCall, CallBooks, Outside,
           Signalling, Closing, Sending, Receiving, OpNames
  <1>15. ASSUME Recv(t), RecvNothing(t), InCall(t, "tryrecv")
        PROVE  CallBooks(t)' /\ Others(t)
    BY <1>0, ChannelAssumption, <1>15, RecvRefusedDoes
       DEF Others, Goes, Ends, Calls, At, InCall, CallBooks, Outside,
           Signalling, Closing, Sending, Receiving, OpNames
  <1>16. ASSUME Recv(t), RecvNothing(t), ~InCall(t, "tryrecv")
        PROVE  CallBooks(t)' /\ Others(t)
    BY <1>0, ChannelAssumption, <1>16, RecvParksDoes
       DEF Others, Goes, Ends, Calls, At, InCall, CallBooks, Outside,
           Signalling, Closing, Sending, Receiving, OpNames
  <1>17. ASSUME Wake(t) PROVE CallBooks(t)' /\ Others(t)
    BY <1>0, ChannelAssumption, <1>17, WakeDoes
       DEF Others, Goes, Ends, Calls, At, InCall, CallBooks, Outside,
           Signalling, Closing, Sending, Receiving, OpNames
  <1>18. ASSUME Register(t) PROVE CallBooks(t)' /\ Others(t)
    BY <1>0, ChannelAssumption, <1>18, RegisterDoes
       DEF Others, Goes, Ends, Calls, At, InCall, CallBooks, Outside,
           Signalling, Closing, Sending, Receiving, OpNames
  <1>19. ASSUME Post(t) PROVE CallBooks(t)' /\ Others(t)
    BY <1>0, ChannelAssumption, <1>19, PostDoes
       DEF Others, Goes, Ends, Calls, At, InCall, CallBooks, Outside,
           Signalling, Closing, Sending, Receiving, OpNames
  <1>20. ASSUME Clear(t) PROVE CallBooks(t)' /\ Others(t)
    BY <1>0, ChannelAssumption, <1>20, ClearDoes
       DEF Others, Goes, Ends, Calls, At, InCall, CallBooks, Outside,
           Signalling, Closing, Sending, Receiving, OpNames
  <1>21. ASSUME Close(t) PROVE CallBooks(t)' /\ Others(t)
    BY <1>0, ChannelAssumption, <1>21, CloseDoes
       DEF Others, Goes, Ends, Calls, At, InCall, CallBooks, Outside,
           Signalling, Closing, Sending, Receiving, OpNames
  <1>22. ASSUME Detach(t), At(t, "detachRecvq")
        PROVE  CallBooks(t)' /\ Others(t)
    BY <1>0, ChannelAssumption, <1>22, DetachRecvDoes
       DEF Others, Goes, Ends, Calls, At, InCall, CallBooks, Outside,
           Signalling, Closing, Sending, Receiving, OpNames
  <1>23. ASSUME Detach(t), At(t, "detachSendq")
        PROVE  CallBooks(t)' /\ Others(t)
    BY <1>0, ChannelAssumption, <1>23, DetachSendDoes
       DEF Others, Goes, Ends, Calls, At, InCall, CallBooks, Outside,
           Signalling, Closing, Sending, Receiving, OpNames
  <1>24. ASSUME Cancel(t) PROVE CallBooks(t)' /\ Others(t)
    <2>1. Head(pc[t].rest) \in Threads
      <3>1. Rest = pc[t].rest /\ Head(Rest) \in Threads
        BY <1>24, CloseMoves
      <3> QED
        BY <3>1
    <2>2. /\ pc[t].at = "cancel" /\ Others(t) /\ pc'[t].at = "register"
          /\ pc'[t].op = pc[t].op /\ pc'[t].to \in Threads
          /\ answer'[t] = answer[t]
      BY <1>24, <2>1, CancelDoes DEF Calls
    <2> QED
      BY <1>0, <2>2, ChannelAssumption
         DEF CallBooks, At, InCall, Outside, Signalling, Closing, OpNames
  <1>25. ASSUME CancelDone(t), sendq # << >> PROVE CallBooks(t)' /\ Others(t)
    BY <1>0, ChannelAssumption, <1>25, CancelGoesOnDoes
       DEF Others, Goes, Ends, Calls, At, InCall, CallBooks, Outside,
           Signalling, Closing, Sending, Receiving, OpNames
  <1>26. ASSUME CancelDone(t), sendq = << >> PROVE CallBooks(t)' /\ Others(t)
    BY <1>0, ChannelAssumption, <1>26, CancelEndsDoes
       DEF Others, Goes, Ends, Calls, At, InCall, CallBooks, Outside,
           Signalling, Closing, Sending, Receiving, OpNames
  <1>27. ASSUME Exit(t) PROVE CallBooks(t)' /\ Others(t)
    BY <1>0, ChannelAssumption, <1>27, ExitDoes
       DEF Others, Goes, Ends, Calls, At, InCall, CallBooks, Outside,
           Signalling, Closing, Sending, Receiving, OpNames
  <1> QED
    BY <1>1, <1>2, <1>3, <1>4, <1>5, <1>6, <1>7, <1>8, <1>9, <1>10, <1>11,
       <1>12, <1>13, <1>14, <1>15, <1>16, <1>17, <1>18, <1>19, <1>20, <1>21,
       <1>22, <1>23, <1>24, <1>25, <1>26, <1>27
       DEF Step, Send, Recv, Detach, CancelDone

(* Most steps have nothing to do with the close.                           *)
Calm(t) ==
    /\ Others(t) /\ pc[t].op # "close" /\ pc'[t].op # "close"
    /\ lock' = lock /\ closed' = closed /\ (lock = None \/ recvq' = recvq)

(* A step of another call than a close, which leaves the lock alone.       *)
LEMMA CalmKeeps ==
    ASSUME NEW t \in Threads, NEW u \in Threads, Calm(t),
           LockBooks(t), LockBooks(u)
    PROVE  LockBooks(u)'
  <1>1. \A v \in Threads : pc'[v].op = "close" <=> pc[v].op = "close"
    BY DEF Calm, Others
  <1>2. pc[u].op = "close" => pc'[u] = pc[u]
    BY DEF Calm, Others
  <1>3. lock' = u => recvq' = recvq
    BY ChannelAssumption DEF Calm
  <1> QED
    BY <1>1, <1>2, <1>3 DEF Calm, LockBooks, At, InCall

(* The lock and the closer.                                                *)
LEMMA LockKept ==
    ASSUME ChanBooks, NEW t \in Threads, NEW u \in Threads,
           Step(t) \/ Exit(t) \/ \E op \in Ops[t] : Begin(t, op)
    PROVE  LockBooks(u)'
  <1>0. CallBooks(t) /\ LockBooks(t) /\ LockBooks(u)
    BY Facts1
  <1>1. ASSUME NEW op \in Ops[t], Begin(t, op) PROVE LockBooks(u)'
    <2>1. /\ Others(t) /\ pc'[t].op = op /\ pc[t].op # "close"
          /\ UNCHANGED <<lock, closed, recvq>>
      <3>1. /\ Others(t) /\ pc'[t].op = op /\ pc[t].at = "idle"
            /\ UNCHANGED <<lock, closed, recvq>>
        BY <1>1, BeginDoes, Zenon
      <3> QED
        BY <1>0, <3>1, ChannelAssumption DEF CallBooks, Outside, OpNames
    <2>2. CASE op # "close"
      BY <1>0, <2>1, <2>2, CalmKeeps DEF Calm
    <2>3. CASE op = "close"
      <3>1. /\ pc'[t].at = "lock" /\ ~closed
            /\ \A v \in Threads : pc[v].op # "close"
        BY <1>1, <2>3, BeginDoes
      <3>2. \A v \in Threads : pc'[v].op = "close" => v = t
        BY <2>1, <3>1 DEF Others
      <3> QED
        BY <1>0, <2>1, <2>3, <3>1, <3>2 DEF LockBooks, At, InCall
    <2> QED
      BY <2>2, <2>3
  <1>2. ASSUME TrySendProbe(t) PROVE LockBooks(u)'
    <2>1. Calm(t)
      BY <1>0, <1>2, TrySendProbeDoes, ChannelAssumption
         DEF Calm, CallBooks, At, InCall, Goes, Ends, Calls, Signalling,
             Closing, Sending, Receiving, OpNames
    <2> QED
      BY <1>0, <2>1, CalmKeeps
  <1>3. ASSUME TrySendSecond(t) PROVE LockBooks(u)'
    <2>1. Calm(t)
      BY <1>0, <1>3, TrySendSecondDoes, ChannelAssumption
         DEF Calm, CallBooks, At, InCall, Goes, Ends, Calls, Signalling,
             Closing, Sending, Receiving, OpNames
    <2> QED
      BY <1>0, <2>1, CalmKeeps
  <1>4. ASSUME TryRecvProbe(t) PROVE LockBooks(u)'
    <2>1. Calm(t)
      BY <1>0, <1>4, TryRecvProbeDoes, ChannelAssumption
         DEF Calm, CallBooks, At, InCall, Goes, Ends, Calls, Signalling,
             Closing, Sending, Receiving, OpNames
    <2> QED
      BY <1>0, <2>1, CalmKeeps
  <1>5. ASSUME TryRecvSecond(t) PROVE LockBooks(u)'
    <2>1. Calm(t)
      BY <1>0, <1>5, TryRecvSecondDoes, ChannelAssumption
         DEF Calm, CallBooks, At, InCall, Goes, Ends, Calls, Signalling,
             Closing, Sending, Receiving, OpNames
    <2> QED
      BY <1>0, <2>1, CalmKeeps
  <1>6. ASSUME TryRecvThird(t) PROVE LockBooks(u)'
    <2>1. Calm(t)
      BY <1>0, <1>6, TryRecvThirdDoes, ChannelAssumption
         DEF Calm, CallBooks, At, InCall, Goes, Ends, Calls, Signalling,
             Closing, Sending, Receiving, OpNames
    <2> QED
      BY <1>0, <2>1, CalmKeeps
  <1>7. ASSUME Send(t), SendClosed(t) PROVE LockBooks(u)'
    <2>1. Calm(t)
      BY <1>0, <1>7, SendClosedDoes, ChannelAssumption
         DEF Calm, CallBooks, At, InCall, Goes, Ends, Calls, Signalling,
             Closing, Sending, Receiving, OpNames
    <2> QED
      BY <1>0, <2>1, CalmKeeps
  <1>8. ASSUME Send(t), SendDirect(t) PROVE LockBooks(u)'
    <2>1. Calm(t)
      BY <1>0, <1>8, SendDirectDoes, ChannelAssumption
         DEF Calm, CallBooks, At, InCall, Goes, Ends, Calls, Signalling,
             Closing, Sending, Receiving, OpNames
    <2> QED
      BY <1>0, <2>1, CalmKeeps
  <1>9. ASSUME Send(t), SendEnqueue(t) PROVE LockBooks(u)'
    <2>1. Calm(t)
      BY <1>0, <1>9, SendEnqueueDoes, ChannelAssumption
         DEF Calm, CallBooks, At, InCall, Goes, Ends, Calls, Signalling,
             Closing, Sending, Receiving, OpNames
    <2> QED
      BY <1>0, <2>1, CalmKeeps
  <1>10. ASSUME Send(t), SendFull(t), InCall(t, "trysend") PROVE LockBooks(u)'
    <2>1. Calm(t)
      BY <1>0, <1>10, SendRefusedDoes, ChannelAssumption
         DEF Calm, CallBooks, At, InCall, Goes, Ends, Calls, Signalling,
             Closing, Sending, Receiving, OpNames
    <2> QED
      BY <1>0, <2>1, CalmKeeps
  <1>11. ASSUME Send(t), SendFull(t), ~InCall(t, "trysend")
        PROVE  LockBooks(u)'
    <2>1. Calm(t)
      BY <1>0, <1>11, SendParksDoes, ChannelAssumption
         DEF Calm, CallBooks, At, InCall, Goes, Ends, Calls, Signalling,
             Closing, Sending, Receiving, OpNames
    <2> QED
      BY <1>0, <2>1, CalmKeeps
  <1>12. ASSUME Recv(t), RecvClosed(t) PROVE LockBooks(u)'
    <2>1. Calm(t)
      BY <1>0, <1>12, RecvClosedDoes, ChannelAssumption
         DEF Calm, CallBooks, At, InCall, Goes, Ends, Calls, Signalling,
             Closing, Sending, Receiving, OpNames
    <2> QED
      BY <1>0, <2>1, CalmKeeps
  <1>13. ASSUME Recv(t), RecvDirect(t) PROVE LockBooks(u)'
    <2>1. Calm(t)
      BY <1>0, <1>13, RecvDirectDoes, ChannelAssumption
         DEF Calm, CallBooks, At, InCall, Goes, Ends, Calls, Signalling,
             Closing, Sending, Receiving, OpNames
    <2> QED
      BY <1>0, <2>1, CalmKeeps
  <1>14. ASSUME Recv(t), RecvDequeue(t) PROVE LockBooks(u)'
    <2>1. Calm(t)
      BY <1>0, <1>14, RecvDequeueDoes, ChannelAssumption
         DEF Calm, CallBooks, At, InCall, Goes, Ends, Calls, Signalling,
             Closing, Sending, Receiving, OpNames
    <2> QED
      BY <1>0, <2>1, CalmKeeps
  <1>15. ASSUME Recv(t), RecvNothing(t), InCall(t, "tryrecv")
        PROVE  LockBooks(u)'
    <2>1. Calm(t)
      BY <1>0, <1>15, RecvRefusedDoes, ChannelAssumption
         DEF Calm, CallBooks, At, InCall, Goes, Ends, Calls, Signalling,
             Closing, Sending, Receiving, OpNames
    <2> QED
      BY <1>0, <2>1, CalmKeeps
  <1>16. ASSUME Recv(t), RecvNothing(t), ~InCall(t, "tryrecv")
        PROVE  LockBooks(u)'
    <2>1. Calm(t)
      BY <1>0, <1>16, RecvParksDoes, ChannelAssumption
         DEF Calm, CallBooks, At, InCall, Goes, Ends, Calls, Signalling,
             Closing, Sending, Receiving, OpNames
    <2> QED
      BY <1>0, <2>1, CalmKeeps
  <1>17. ASSUME Wake(t) PROVE LockBooks(u)'
    <2>1. Calm(t)
      BY <1>0, <1>17, WakeDoes, ChannelAssumption
         DEF Calm, CallBooks, At, InCall, Goes, Ends, Calls, Signalling,
             Closing, Sending, Receiving, OpNames
    <2> QED
      BY <1>0, <2>1, CalmKeeps
  <1>18. ASSUME Register(t) PROVE LockBooks(u)'
    BY <1>0, ChannelAssumption, <1>18, RegisterDoes
       DEF Others, Goes, Ends, Calls, At, InCall, LockBooks, CallBooks,
           Outside, Signalling, Closing, Sending, Receiving
  <1>19. ASSUME Post(t) PROVE LockBooks(u)'
    BY <1>0, ChannelAssumption, <1>19, PostDoes
       DEF Others, Goes, Ends, Calls, At, InCall, LockBooks, CallBooks,
           Outside, Signalling, Closing, Sending, Receiving
  <1>20. ASSUME Clear(t) PROVE LockBooks(u)'
    <2>1. /\ Others(t) /\ UNCHANGED <<lock, closed, recvq>>
          /\ pc[t].at = "clear"
      BY <1>20, ClearDoes
    <2>2. CASE pc[t].op # "close"
      BY <1>0, <1>20, <2>1, <2>2, CalmKeeps, ClearDoes, ChannelAssumption
         DEF Calm, Goes, Ends, OpNames
    <2>3. CASE pc[t].op = "close"
      <3>1. pc'[t].op = "close" /\ pc'[t].at = "cancel"
        BY <1>20, <2>3, ClearDoes DEF Goes, Sending, Receiving
      <3>2. \A v \in Threads : pc'[v].op = pc[v].op
        BY <2>1, <2>3, <3>1 DEF Others
      <3> QED
        BY <1>0, <2>1, <2>3, <3>1, <3>2 DEF LockBooks, At, InCall, Others
    <2> QED
      BY <2>2, <2>3
  <1>21. ASSUME Close(t) PROVE LockBooks(u)'
    <2>1. /\ Others(t) /\ pc[t].op = "close" /\ pc'[t].op = "close"
          /\ pc[t].at = "lock" /\ pc'[t].at = "detachRecvq"
          /\ lock = None /\ lock' = t /\ closed' = TRUE
      BY <1>0, <1>21, CloseDoes DEF CallBooks, Closing, Goes, Calls, At, InCall
    <2>2. \A v \in Threads : pc'[v].op = pc[v].op
      BY <2>1 DEF Others
    <2> QED
      BY <1>0, <2>1, <2>2 DEF LockBooks, At, InCall, Others
  <1>22. ASSUME Detach(t), At(t, "detachRecvq") PROVE LockBooks(u)'
    BY <1>0, ChannelAssumption, <1>22, DetachRecvDoes
       DEF Others, Goes, Ends, Calls, At, InCall, LockBooks, CallBooks,
           Outside, Signalling, Closing, Sending, Receiving
  <1>23. ASSUME Detach(t), At(t, "detachSendq") PROVE LockBooks(u)'
    BY <1>0, ChannelAssumption, <1>23, DetachSendDoes
       DEF Others, Goes, Ends, Calls, At, InCall, LockBooks, CallBooks,
           Outside, Signalling, Closing, Sending, Receiving
  <1>24. ASSUME Cancel(t) PROVE LockBooks(u)'
    <2>1. /\ Others(t) /\ pc[t].op = "close" /\ pc'[t].op = "close"
          /\ pc[t].at = "cancel" /\ pc'[t].at = "register"
          /\ UNCHANGED <<lock, closed, recvq>>
      BY <1>0, <1>24, CancelDoes
         DEF CallBooks, Closing, Goes, Calls, At, InCall
    <2>2. \A v \in Threads : pc'[v].op = pc[v].op
      BY <2>1 DEF Others
    <2> QED
      BY <1>0, <2>1, <2>2 DEF LockBooks, At, InCall, Others
  <1>25. ASSUME CancelDone(t), sendq # << >> PROVE LockBooks(u)'
    BY <1>0, ChannelAssumption, <1>25, CancelGoesOnDoes
       DEF Others, Goes, Ends, Calls, At, InCall, LockBooks, CallBooks,
           Outside, Signalling, Closing, Sending, Receiving
  <1>26. ASSUME CancelDone(t), sendq = << >> PROVE LockBooks(u)'
    BY <1>0, ChannelAssumption, <1>26, CancelEndsDoes
       DEF Others, Goes, Ends, Calls, At, InCall, LockBooks, CallBooks,
           Outside, Signalling, Closing, Sending, Receiving
  <1>27. ASSUME Exit(t) PROVE LockBooks(u)'
    <2>1. Calm(t)
      BY <1>0, <1>27, ExitDoes, ChannelAssumption
         DEF Calm, CallBooks, At, InCall, Goes, Ends, Calls, Signalling,
             Closing, Sending, Receiving, OpNames
    <2> QED
      BY <1>0, <2>1, CalmKeeps
  <1> QED
    BY <1>1, <1>2, <1>3, <1>4, <1>5, <1>6, <1>7, <1>8, <1>9, <1>10, <1>11,
       <1>12, <1>13, <1>14, <1>15, <1>16, <1>17, <1>18, <1>19, <1>20, <1>21,
       <1>22, <1>23, <1>24, <1>25, <1>26, <1>27
       DEF Step, Send, Recv, Detach, CancelDone

(* A thread the step does not touch, or that does not wait.                *)
LEMMA WaitSame ==
    ASSUME NEW u \in Threads, WaitBooks(u),
           u \in Range(sendq)' <=> u \in Range(sendq),
           u \in Range(recvq)' <=> u \in Range(recvq),
           u \in Range(Rest)' <=> u \in Range(Rest),
           WakersOf(u)' = WakersOf(u), sema'[u] = sema[u],
           \/ pc'[u] = pc[u]
           \/ pc[u].at # "parked" /\ pc'[u].at # "parked"
    PROVE  WaitBooks(u)'
  <1>1. Called(u)' <=> Called(u)
    BY DEF Called
  <1> QED
    BY <1>1 DEF WaitBooks, At, InCall

(* The thread that was first in a queue is called instead.                 *)
LEMMA WaitCalled ==
    ASSUME NEW u \in Threads, WaitBooks(u), NEW t,
           u \in Range(sendq) \cup Range(recvq) \cup Range(Rest),
           u \notin Range(sendq)', u \notin Range(recvq)',
           u \notin Range(Rest)',
           WakersOf(u)' = WakersOf(u) \cup {t}, sema'[u] = sema[u],
           pc'[u] = pc[u], TypeOK
    PROVE  WaitBooks(u)'
  <1>1. At(u, "parked") /\ ~Called(u)
    BY DEF WaitBooks
  <1>2. WakersOf(u)' = {t} /\ sema'[u] = 0
    BY <1>1 DEF Called, TypeOK
  <1>3. At(u, "parked")' /\ Called(u)'
    BY <1>1, <1>2 DEF At, Called
  <1> QED
    BY <1>2, <1>3 DEF WaitBooks

(* A thread that was nowhere parks in one of the queues.                   *)
LEMMA WaitParks ==
    ASSUME NEW u \in Threads, WaitBooks(u), pc[u].at # "parked",
           pc'[u].at = "parked", WakersOf(u)' = WakersOf(u),
           sema'[u] = sema[u], u \notin Range(Rest)',
           \/ /\ u \in Range(sendq)' /\ pc'[u].op = "send"
              /\ u \notin Range(recvq)'
           \/ /\ u \in Range(recvq)' /\ pc'[u].op = "recv"
              /\ u \notin Range(sendq)'
    PROVE  WaitBooks(u)'
  <1>1. ~Called(u) /\ WakersOf(u) = {}
    BY DEF WaitBooks, At, Called
  <1>2. ~Called(u)' /\ WakersOf(u)' = {}
    BY <1>1 DEF Called
  <1> QED
    BY <1>2 DEF WaitBooks, At, InCall

(* Who waits, and who was called.                                          *)
LEMMA WaitKept ==
    ASSUME ChanBooks, NEW t \in Threads, NEW u \in Threads,
           Step(t) \/ Exit(t) \/ \E op \in Ops[t] : Begin(t, op)
    PROVE  WaitBooks(u)'
  <1>0. WaitBooks(t) /\ WaitBooks(u)
    BY Facts1
  <1>1. ASSUME NEW op \in Ops[t], Begin(t, op) PROVE WaitBooks(u)'
    <2>1. Quiet
      BY <1>1, QuietMoves DEF QuietStep
    <2>2. /\ sema'[u] = sema[u]
          /\ \/ pc'[u] = pc[u]
             \/ pc[u].at # "parked" /\ pc'[u].at # "parked"
      BY <1>1, BeginDoes DEF Others, Goes, Ends
    <2> QED
      BY <1>0, <2>1, <2>2, WaitSame DEF Quiet, Lists, WakersSame
  <1>2. ASSUME TrySendProbe(t) PROVE WaitBooks(u)'
    <2>1. Quiet
      BY <1>2, QuietMoves DEF QuietStep
    <2>2. /\ sema'[u] = sema[u]
          /\ \/ pc'[u] = pc[u]
             \/ pc[u].at # "parked" /\ pc'[u].at # "parked"
      BY <1>2, TrySendProbeDoes DEF Others, Goes, Ends
    <2> QED
      BY <1>0, <2>1, <2>2, WaitSame DEF Quiet, Lists, WakersSame
  <1>3. ASSUME TrySendSecond(t) PROVE WaitBooks(u)'
    <2>1. Quiet
      BY <1>3, QuietMoves DEF QuietStep
    <2>2. /\ sema'[u] = sema[u]
          /\ \/ pc'[u] = pc[u]
             \/ pc[u].at # "parked" /\ pc'[u].at # "parked"
      BY <1>3, TrySendSecondDoes DEF Others, Goes, Ends
    <2> QED
      BY <1>0, <2>1, <2>2, WaitSame DEF Quiet, Lists, WakersSame
  <1>4. ASSUME TryRecvProbe(t) PROVE WaitBooks(u)'
    <2>1. Quiet
      BY <1>4, QuietMoves DEF QuietStep
    <2>2. /\ sema'[u] = sema[u]
          /\ \/ pc'[u] = pc[u]
             \/ pc[u].at # "parked" /\ pc'[u].at # "parked"
      BY <1>4, TryRecvProbeDoes DEF Others, Goes, Ends
    <2> QED
      BY <1>0, <2>1, <2>2, WaitSame DEF Quiet, Lists, WakersSame
  <1>5. ASSUME TryRecvSecond(t) PROVE WaitBooks(u)'
    <2>1. Quiet
      BY <1>5, QuietMoves DEF QuietStep
    <2>2. /\ sema'[u] = sema[u]
          /\ \/ pc'[u] = pc[u]
             \/ pc[u].at # "parked" /\ pc'[u].at # "parked"
      BY <1>5, TryRecvSecondDoes DEF Others, Goes, Ends
    <2> QED
      BY <1>0, <2>1, <2>2, WaitSame DEF Quiet, Lists, WakersSame
  <1>6. ASSUME TryRecvThird(t) PROVE WaitBooks(u)'
    <2>1. Quiet
      BY <1>6, QuietMoves DEF QuietStep
    <2>2. /\ sema'[u] = sema[u]
          /\ \/ pc'[u] = pc[u]
             \/ pc[u].at # "parked" /\ pc'[u].at # "parked"
      BY <1>6, TryRecvThirdDoes DEF Others, Goes, Ends
    <2> QED
      BY <1>0, <2>1, <2>2, WaitSame DEF Quiet, Lists, WakersSame
  <1>7. ASSUME Send(t), SendClosed(t) PROVE WaitBooks(u)'
    <2>1. Quiet
      BY <1>7, QuietMoves DEF QuietStep
    <2>2. /\ sema'[u] = sema[u]
          /\ \/ pc'[u] = pc[u]
             \/ pc[u].at # "parked" /\ pc'[u].at # "parked"
      BY <1>7, SendClosedDoes DEF Others, Goes, Ends
    <2> QED
      BY <1>0, <2>1, <2>2, WaitSame DEF Quiet, Lists, WakersSame
  <1>8. ASSUME Send(t), SendDirect(t) PROVE WaitBooks(u)'
    <2> DEFINE h == Head(recvq)
    <2>1. /\ h \in Threads /\ h \in Range(recvq)
          /\ Lists(Range(sendq), Range(recvq) \ {h}, Range(Rest))
          /\ WakerOf(t, h)
      BY <1>8, SendDirectMoves
    <2>2. /\ Others(t) /\ pc[t].at # "parked" /\ pc'[t].at # "parked"
          /\ sema' = sema
      BY <1>8, SendDirectDoes DEF Calls
    <2> HIDE DEF h
    <2>3. WaitBooks(h) /\ TypeOK
      BY <2>1, Facts1
    <2>4. CASE u = h
      <3>1. /\ u \notin Range(sendq)' /\ u \notin Range(recvq)'
            /\ u \notin Range(Rest)' /\ At(u, "parked")
        BY <2>1, <2>3, <2>4 DEF Lists, WaitBooks
      <3>2. u # t
        BY <2>2, <3>1 DEF At
      <3> QED
        BY <1>0, <2>1, <2>2, <2>3, <2>4, <3>1, <3>2, WaitCalled
           DEF Others, WakerOf
    <2>5. CASE u # h
      BY <1>0, <2>1, <2>2, <2>5, WaitSame DEF Others, WakerOf, Lists
    <2> QED
      BY <2>4, <2>5
  <1>9. ASSUME Send(t), SendEnqueue(t) PROVE WaitBooks(u)'
    <2>1. Quiet
      BY <1>9, QuietMoves DEF QuietStep
    <2>2. /\ sema'[u] = sema[u]
          /\ \/ pc'[u] = pc[u]
             \/ pc[u].at # "parked" /\ pc'[u].at # "parked"
      BY <1>9, SendEnqueueDoes DEF Others, Goes, Ends
    <2> QED
      BY <1>0, <2>1, <2>2, WaitSame DEF Quiet, Lists, WakersSame
  <1>10. ASSUME Send(t), SendFull(t), InCall(t, "trysend") PROVE WaitBooks(u)'
    <2>1. Quiet
      BY <1>10, QuietMoves DEF QuietStep
    <2>2. /\ sema'[u] = sema[u]
          /\ \/ pc'[u] = pc[u]
             \/ pc[u].at # "parked" /\ pc'[u].at # "parked"
      BY <1>10, SendRefusedDoes DEF Others, Goes, Ends
    <2> QED
      BY <1>0, <2>1, <2>2, WaitSame DEF Quiet, Lists, WakersSame
  <1>11. ASSUME Send(t), SendFull(t), ~InCall(t, "trysend")
        PROVE  WaitBooks(u)'
    <2>1. /\ Lists(Range(sendq) \cup {t}, Range(recvq), Range(Rest))
          /\ WakersSame
      BY <1>11, SendParksMoves
    <2>2. /\ Others(t) /\ pc[t].at # "parked" /\ pc'[t].at = "parked"
          /\ pc'[t].op = "send" /\ sema' = sema
      BY <1>11, SendParksDoes DEF Goes
    <2>3. CASE u # t
      BY <1>0, <2>1, <2>2, <2>3, WaitSame DEF Others, WakersSame, Lists
    <2>4. CASE u = t
      <3>1. t \notin Range(sendq) /\ t \notin Range(recvq) /\ t \notin Range(Rest)
        BY <1>0, <2>2 DEF WaitBooks, At
      <3> QED
        BY <1>0, <2>1, <2>2, <2>4, <3>1, WaitParks DEF WakersSame, Lists
    <2> QED
      BY <2>3, <2>4
  <1>12. ASSUME Recv(t), RecvClosed(t) PROVE WaitBooks(u)'
    <2>1. Quiet
      BY <1>12, QuietMoves DEF QuietStep
    <2>2. /\ sema'[u] = sema[u]
          /\ \/ pc'[u] = pc[u]
             \/ pc[u].at # "parked" /\ pc'[u].at # "parked"
      BY <1>12, RecvClosedDoes DEF Others, Goes, Ends
    <2> QED
      BY <1>0, <2>1, <2>2, WaitSame DEF Quiet, Lists, WakersSame
  <1>13. ASSUME Recv(t), RecvDirect(t) PROVE WaitBooks(u)'
    <2> DEFINE h == Head(sendq)
    <2>1. /\ h \in Threads /\ h \in Range(sendq)
          /\ Lists(Range(sendq) \ {h}, Range(recvq), Range(Rest))
          /\ WakerOf(t, h)
      BY <1>13, RecvDirectMoves
    <2>2. /\ Others(t) /\ pc[t].at # "parked" /\ pc'[t].at # "parked"
          /\ sema' = sema
      BY <1>13, RecvDirectDoes DEF Calls
    <2> HIDE DEF h
    <2>3. WaitBooks(h) /\ TypeOK
      BY <2>1, Facts1
    <2>4. CASE u = h
      <3>1. /\ u \notin Range(sendq)' /\ u \notin Range(recvq)'
            /\ u \notin Range(Rest)' /\ At(u, "parked")
        BY <2>1, <2>3, <2>4 DEF Lists, WaitBooks
      <3>2. u # t
        BY <2>2, <3>1 DEF At
      <3> QED
        BY <1>0, <2>1, <2>2, <2>3, <2>4, <3>1, <3>2, WaitCalled
           DEF Others, WakerOf
    <2>5. CASE u # h
      BY <1>0, <2>1, <2>2, <2>5, WaitSame DEF Others, WakerOf, Lists
    <2> QED
      BY <2>4, <2>5
  <1>14. ASSUME Recv(t), RecvDequeue(t) PROVE WaitBooks(u)'
    <2>1. Quiet
      BY <1>14, QuietMoves DEF QuietStep
    <2>2. /\ sema'[u] = sema[u]
          /\ \/ pc'[u] = pc[u]
             \/ pc[u].at # "parked" /\ pc'[u].at # "parked"
      BY <1>14, RecvDequeueDoes DEF Others, Goes, Ends
    <2> QED
      BY <1>0, <2>1, <2>2, WaitSame DEF Quiet, Lists, WakersSame
  <1>15. ASSUME Recv(t), RecvNothing(t), InCall(t, "tryrecv")
        PROVE  WaitBooks(u)'
    <2>1. Quiet
      BY <1>15, QuietMoves DEF QuietStep
    <2>2. /\ sema'[u] = sema[u]
          /\ \/ pc'[u] = pc[u]
             \/ pc[u].at # "parked" /\ pc'[u].at # "parked"
      BY <1>15, RecvRefusedDoes DEF Others, Goes, Ends
    <2> QED
      BY <1>0, <2>1, <2>2, WaitSame DEF Quiet, Lists, WakersSame
  <1>16. ASSUME Recv(t), RecvNothing(t), ~InCall(t, "tryrecv")
        PROVE  WaitBooks(u)'
    <2>1. /\ Lists(Range(sendq), Range(recvq) \cup {t}, Range(Rest))
          /\ WakersSame
      BY <1>16, RecvParksMoves
    <2>2. /\ Others(t) /\ pc[t].at # "parked" /\ pc'[t].at = "parked"
          /\ pc'[t].op = "recv" /\ sema' = sema
      BY <1>16, RecvParksDoes DEF Goes
    <2>3. CASE u # t
      BY <1>0, <2>1, <2>2, <2>3, WaitSame DEF Others, WakersSame, Lists
    <2>4. CASE u = t
      <3>1. t \notin Range(sendq) /\ t \notin Range(recvq) /\ t \notin Range(Rest)
        BY <1>0, <2>2 DEF WaitBooks, At
      <3> QED
        BY <1>0, <2>1, <2>2, <2>4, <3>1, WaitParks DEF WakersSame, Lists
    <2> QED
      BY <2>3, <2>4
  <1>17. ASSUME Wake(t) PROVE WaitBooks(u)'
    <2>1. Quiet
      BY <1>17, QuietMoves DEF QuietStep
    <2>2. /\ pc[t].at = "parked" /\ pc'[t].at = "idle" /\ Others(t)
          /\ sema[t] = 1 /\ sema'[t] = 0 /\ (u # t => sema'[u] = sema[u])
      BY <1>17, WakeDoes DEF Ends
    <2>3. CASE u # t
      BY <1>0, <2>1, <2>2, <2>3, WaitSame DEF Quiet, Lists, WakersSame, Others
    <2>4. CASE u = t
      <3>1. /\ ~(t \in Range(sendq)') /\ ~(t \in Range(recvq)')
            /\ ~(t \in Range(Rest)') /\ WakersOf(t)' = {}
        BY <1>0, <2>1, <2>2 DEF Quiet, Lists, WakersSame, WaitBooks, Called
      <3>2. ~Called(t)'
        BY <2>2, <3>1 DEF Called
      <3> QED
        BY <2>2, <2>4, <3>1, <3>2 DEF WaitBooks, At
    <2> QED
      BY <2>3, <2>4
  <1>18. ASSUME Register(t) PROVE WaitBooks(u)'
    <2>1. Lists(Range(sendq), Range(recvq), Range(Rest)) /\ WakersSame
      BY <1>18, SignalMoves
    <2>2. /\ sema'[u] = sema[u]
          /\ \/ pc'[u] = pc[u]
             \/ pc[u].at # "parked" /\ pc'[u].at # "parked"
      BY <1>18, RegisterDoes DEF Others, Goes, Ends
    <2> QED
      BY <1>0, <2>1, <2>2, WaitSame DEF Lists, WakersSame
  <1>19. ASSUME Post(t) PROVE WaitBooks(u)'
    <2> DEFINE h == pc[t].to
    <2>1. /\ Lists(Range(sendq), Range(recvq), Range(Rest))
          /\ \A v \in Threads : WakersOf(v)' =
                IF v = h THEN WakersOf(v) \ {t} ELSE WakersOf(v)
      BY <1>19, SignalMoves
    <2>2. /\ Others(t) /\ pc[t].at = "post" /\ pc'[t].at # "parked"
          /\ \A v \in Threads :
                sema'[v] = IF v = h THEN sema[v] + 1 ELSE sema[v]
      BY <1>19, PostDoes DEF Goes
    <2>3. t \in WakersOf(h)
      BY <2>2 DEF WakersOf
    <2> HIDE DEF h
    <2>4. CASE u = h
      <3>1. /\ sema[u] = 0 /\ WakersOf(u) = {t} /\ At(u, "parked") /\ Called(u)
        BY <1>0, <2>3, <2>4 DEF WaitBooks, Called
      <3>2. sema'[u] = 1 /\ WakersOf(u)' = {}
        BY <2>1, <2>2, <2>4, <3>1
      <3>3. u # t /\ At(u, "parked")'
        BY <2>2, <3>1 DEF At, Others
      <3>4. Called(u)'
        BY <3>2 DEF Called
      <3>5. /\ u \notin Range(sendq)' /\ u \notin Range(recvq)'
            /\ u \notin Range(Rest)'
        BY <1>0, <2>1, <3>1 DEF WaitBooks, Lists
      <3> QED
        BY <3>2, <3>3, <3>4, <3>5 DEF WaitBooks
    <2>5. CASE u # h
      BY <1>0, <2>1, <2>2, <2>5, WaitSame DEF Others, Lists
    <2> QED
      BY <2>4, <2>5
  <1>20. ASSUME Clear(t) PROVE WaitBooks(u)'
    <2>1. Lists(Range(sendq), Range(recvq), Range(Rest)) /\ WakersSame
      BY <1>20, SignalMoves
    <2>2. /\ sema'[u] = sema[u]
          /\ \/ pc'[u] = pc[u]
             \/ pc[u].at # "parked" /\ pc'[u].at # "parked"
      BY <1>20, ClearDoes DEF Others, Goes, Ends
    <2> QED
      BY <1>0, <2>1, <2>2, WaitSame DEF Lists, WakersSame
  <1>21. ASSUME Close(t) PROVE WaitBooks(u)'
    <2>1. /\ Lists(Range(sendq), Range(recvq), {}) /\ WakersSame
          /\ Range(Rest) = {}
      BY <1>21, CloseMoves, CloseDoes, EmptyList DEF Rest, At, Close, Cancel
    <2>2. /\ Others(t) /\ pc[t].at # "parked" /\ pc'[t].at # "parked"
          /\ sema' = sema
      BY <1>21, CloseDoes DEF Goes, Ends
    <2> QED
      BY <1>0, <2>1, <2>2, WaitSame DEF Others, WakersSame, Lists
  <1>22. ASSUME Detach(t), At(t, "detachRecvq") PROVE WaitBooks(u)'
    <2>1. /\ Lists(Range(sendq), {}, Range(recvq)) /\ Range(Rest) = {}
          /\ WakersSame /\ CallersSame
      BY <1>22, CloseMoves DEF At, Cancel, Close, Detach, CancelDone
    <2> QED
      BY <1>0, ChannelAssumption, <1>22, <2>1, DetachRecvDoes
         DEF Others, Goes, Calls, At, InCall, WaitBooks, Called, Lists,
             WakersSame, WakerOf
  <1>23. ASSUME Detach(t), At(t, "detachSendq") PROVE WaitBooks(u)'
    <2>1. /\ Lists({}, Range(recvq), Range(sendq)) /\ Range(Rest) = {}
          /\ WakersSame /\ CallersSame
      BY <1>23, CloseMoves DEF At, Cancel, Close, Detach, CancelDone
    <2> QED
      BY <1>0, ChannelAssumption, <1>23, <2>1, DetachSendDoes
         DEF Others, Goes, Calls, At, InCall, WaitBooks, Called, Lists,
             WakersSame, WakerOf
  <1>24. ASSUME Cancel(t) PROVE WaitBooks(u)'
    <2> DEFINE h == Head(Rest)
    <2>1. /\ h \in Threads /\ h \in Range(Rest)
          /\ Lists(Range(sendq), Range(recvq), Range(Rest) \ {h})
          /\ WakerOf(t, h)
      BY <1>24, CloseMoves
    <2>2. /\ Others(t) /\ pc[t].at # "parked" /\ pc'[t].at # "parked"
          /\ sema' = sema
      BY <1>24, CancelDoes DEF Calls
    <2> HIDE DEF h
    <2>3. WaitBooks(h) /\ TypeOK
      BY <2>1, Facts1
    <2>4. CASE u = h
      <3>1. /\ u \notin Range(sendq)' /\ u \notin Range(recvq)'
            /\ u \notin Range(Rest)' /\ At(u, "parked")
        BY <2>1, <2>3, <2>4 DEF Lists, WaitBooks
      <3>2. u # t
        BY <2>2, <3>1 DEF At
      <3> QED
        BY <1>0, <2>1, <2>2, <2>3, <2>4, <3>1, <3>2, WaitCalled
           DEF Others, WakerOf
    <2>5. CASE u # h
      BY <1>0, <2>1, <2>2, <2>5, WaitSame DEF Others, WakerOf, Lists
    <2> QED
      BY <2>4, <2>5
  <1>25. ASSUME CancelDone(t), sendq # << >> PROVE WaitBooks(u)'
    <2>1. /\ Lists(Range(sendq), Range(recvq), {}) /\ WakersSame
          /\ Range(Rest) = {}
      BY <1>25, CloseMoves DEF At, CancelDone, Cancel
    <2>2. /\ Others(t) /\ pc[t].at # "parked" /\ pc'[t].at # "parked"
          /\ sema' = sema
      BY <1>25, CancelGoesOnDoes DEF Goes, Ends
    <2> QED
      BY <1>0, <2>1, <2>2, WaitSame DEF Others, WakersSame, Lists
  <1>26. ASSUME CancelDone(t), sendq = << >> PROVE WaitBooks(u)'
    <2>1. /\ Lists(Range(sendq), Range(recvq), {}) /\ WakersSame
          /\ Range(Rest) = {}
      BY <1>26, CloseMoves DEF At, CancelDone, Cancel
    <2>2. /\ Others(t) /\ pc[t].at # "parked" /\ pc'[t].at # "parked"
          /\ sema' = sema
      BY <1>26, CancelEndsDoes DEF Goes, Ends
    <2> QED
      BY <1>0, <2>1, <2>2, WaitSame DEF Others, WakersSame, Lists
  <1>27. ASSUME Exit(t) PROVE WaitBooks(u)'
    <2>1. Quiet
      BY <1>27, QuietMoves DEF QuietStep
    <2>2. /\ sema'[u] = sema[u]
          /\ \/ pc'[u] = pc[u]
             \/ pc[u].at # "parked" /\ pc'[u].at # "parked"
      BY <1>27, ExitDoes DEF Others, Goes, Ends
    <2> QED
      BY <1>0, <2>1, <2>2, WaitSame DEF Quiet, Lists, WakersSame
  <1> QED
    BY <1>1, <1>2, <1>3, <1>4, <1>5, <1>6, <1>7, <1>8, <1>9, <1>10, <1>11,
       <1>12, <1>13, <1>14, <1>15, <1>16, <1>17, <1>18, <1>19, <1>20, <1>21,
       <1>22, <1>23, <1>24, <1>25, <1>26, <1>27
       DEF Step, Send, Recv, Detach, CancelDone

(* A thread whose callers stay keeps its count of signals.                 *)
LEMMA SignalSame ==
    ASSUME NEW u \in Threads, SignalBooks(u), Callers(u)' = Callers(u),
           signals'[u] = signals[u], pc'[u].at = "dead" => pc[u].at = "dead"
    PROVE  SignalBooks(u)'
  BY DEF SignalBooks, At

(* Who is still in thr_signal, and for whom.                               *)
LEMMA SignalKept ==
    ASSUME ChanBooks, NEW t \in Threads, NEW u \in Threads,
           Step(t) \/ Exit(t) \/ \E op \in Ops[t] : Begin(t, op)
    PROVE  SignalBooks(u)'
  <1>0. /\ WaitBooks(u) /\ SignalBooks(t) /\ SignalBooks(u)
    BY Facts1
  <1>1. ASSUME NEW op \in Ops[t], Begin(t, op) PROVE SignalBooks(u)'
    <2>1. CallersSame
      BY <1>1, QuietMoves DEF QuietStep, Quiet
    <2>2. signals'[u] = signals[u] /\ (pc'[u].at = "dead" => pc[u].at = "dead")
      BY <1>1, BeginDoes DEF Others, Goes, Ends, Calls
    <2> QED
      BY <1>0, <2>1, <2>2, SignalSame DEF CallersSame
  <1>2. ASSUME TrySendProbe(t) PROVE SignalBooks(u)'
    <2>1. CallersSame
      BY <1>2, QuietMoves DEF QuietStep, Quiet
    <2>2. signals'[u] = signals[u] /\ (pc'[u].at = "dead" => pc[u].at = "dead")
      BY <1>2, TrySendProbeDoes DEF Others, Goes, Ends, Calls
    <2> QED
      BY <1>0, <2>1, <2>2, SignalSame DEF CallersSame
  <1>3. ASSUME TrySendSecond(t) PROVE SignalBooks(u)'
    <2>1. CallersSame
      BY <1>3, QuietMoves DEF QuietStep, Quiet
    <2>2. signals'[u] = signals[u] /\ (pc'[u].at = "dead" => pc[u].at = "dead")
      BY <1>3, TrySendSecondDoes DEF Others, Goes, Ends, Calls
    <2> QED
      BY <1>0, <2>1, <2>2, SignalSame DEF CallersSame
  <1>4. ASSUME TryRecvProbe(t) PROVE SignalBooks(u)'
    <2>1. CallersSame
      BY <1>4, QuietMoves DEF QuietStep, Quiet
    <2>2. signals'[u] = signals[u] /\ (pc'[u].at = "dead" => pc[u].at = "dead")
      BY <1>4, TryRecvProbeDoes DEF Others, Goes, Ends, Calls
    <2> QED
      BY <1>0, <2>1, <2>2, SignalSame DEF CallersSame
  <1>5. ASSUME TryRecvSecond(t) PROVE SignalBooks(u)'
    <2>1. CallersSame
      BY <1>5, QuietMoves DEF QuietStep, Quiet
    <2>2. signals'[u] = signals[u] /\ (pc'[u].at = "dead" => pc[u].at = "dead")
      BY <1>5, TryRecvSecondDoes DEF Others, Goes, Ends, Calls
    <2> QED
      BY <1>0, <2>1, <2>2, SignalSame DEF CallersSame
  <1>6. ASSUME TryRecvThird(t) PROVE SignalBooks(u)'
    <2>1. CallersSame
      BY <1>6, QuietMoves DEF QuietStep, Quiet
    <2>2. signals'[u] = signals[u] /\ (pc'[u].at = "dead" => pc[u].at = "dead")
      BY <1>6, TryRecvThirdDoes DEF Others, Goes, Ends, Calls
    <2> QED
      BY <1>0, <2>1, <2>2, SignalSame DEF CallersSame
  <1>7. ASSUME Send(t), SendClosed(t) PROVE SignalBooks(u)'
    <2>1. CallersSame
      BY <1>7, QuietMoves DEF QuietStep, Quiet
    <2>2. signals'[u] = signals[u] /\ (pc'[u].at = "dead" => pc[u].at = "dead")
      BY <1>7, SendClosedDoes DEF Others, Goes, Ends, Calls
    <2> QED
      BY <1>0, <2>1, <2>2, SignalSame DEF CallersSame
  <1>8. ASSUME Send(t), SendDirect(t) PROVE SignalBooks(u)'
    <2>1. CallersSame
      BY <1>8, SendDirectMoves
    <2>2. signals'[u] = signals[u] /\ (pc'[u].at = "dead" => pc[u].at = "dead")
      BY <1>8, SendDirectDoes DEF Others, Goes, Ends, Calls
    <2> QED
      BY <1>0, <2>1, <2>2, SignalSame DEF CallersSame
  <1>9. ASSUME Send(t), SendEnqueue(t) PROVE SignalBooks(u)'
    <2>1. CallersSame
      BY <1>9, QuietMoves DEF QuietStep, Quiet
    <2>2. signals'[u] = signals[u] /\ (pc'[u].at = "dead" => pc[u].at = "dead")
      BY <1>9, SendEnqueueDoes DEF Others, Goes, Ends, Calls
    <2> QED
      BY <1>0, <2>1, <2>2, SignalSame DEF CallersSame
  <1>10. ASSUME Send(t), SendFull(t), InCall(t, "trysend")
        PROVE  SignalBooks(u)'
    <2>1. CallersSame
      BY <1>10, QuietMoves DEF QuietStep, Quiet
    <2>2. signals'[u] = signals[u] /\ (pc'[u].at = "dead" => pc[u].at = "dead")
      BY <1>10, SendRefusedDoes DEF Others, Goes, Ends, Calls
    <2> QED
      BY <1>0, <2>1, <2>2, SignalSame DEF CallersSame
  <1>11. ASSUME Send(t), SendFull(t), ~InCall(t, "trysend")
        PROVE  SignalBooks(u)'
    <2>1. CallersSame
      BY <1>11, SendParksMoves
    <2>2. signals'[u] = signals[u] /\ (pc'[u].at = "dead" => pc[u].at = "dead")
      BY <1>11, SendParksDoes DEF Others, Goes, Ends, Calls
    <2> QED
      BY <1>0, <2>1, <2>2, SignalSame DEF CallersSame
  <1>12. ASSUME Recv(t), RecvClosed(t) PROVE SignalBooks(u)'
    <2>1. CallersSame
      BY <1>12, QuietMoves DEF QuietStep, Quiet
    <2>2. signals'[u] = signals[u] /\ (pc'[u].at = "dead" => pc[u].at = "dead")
      BY <1>12, RecvClosedDoes DEF Others, Goes, Ends, Calls
    <2> QED
      BY <1>0, <2>1, <2>2, SignalSame DEF CallersSame
  <1>13. ASSUME Recv(t), RecvDirect(t) PROVE SignalBooks(u)'
    <2>1. CallersSame
      BY <1>13, RecvDirectMoves
    <2>2. signals'[u] = signals[u] /\ (pc'[u].at = "dead" => pc[u].at = "dead")
      BY <1>13, RecvDirectDoes DEF Others, Goes, Ends, Calls
    <2> QED
      BY <1>0, <2>1, <2>2, SignalSame DEF CallersSame
  <1>14. ASSUME Recv(t), RecvDequeue(t) PROVE SignalBooks(u)'
    <2>1. CallersSame
      BY <1>14, QuietMoves DEF QuietStep, Quiet
    <2>2. signals'[u] = signals[u] /\ (pc'[u].at = "dead" => pc[u].at = "dead")
      BY <1>14, RecvDequeueDoes DEF Others, Goes, Ends, Calls
    <2> QED
      BY <1>0, <2>1, <2>2, SignalSame DEF CallersSame
  <1>15. ASSUME Recv(t), RecvNothing(t), InCall(t, "tryrecv")
        PROVE  SignalBooks(u)'
    <2>1. CallersSame
      BY <1>15, QuietMoves DEF QuietStep, Quiet
    <2>2. signals'[u] = signals[u] /\ (pc'[u].at = "dead" => pc[u].at = "dead")
      BY <1>15, RecvRefusedDoes DEF Others, Goes, Ends, Calls
    <2> QED
      BY <1>0, <2>1, <2>2, SignalSame DEF CallersSame
  <1>16. ASSUME Recv(t), RecvNothing(t), ~InCall(t, "tryrecv")
        PROVE  SignalBooks(u)'
    <2>1. CallersSame
      BY <1>16, RecvParksMoves
    <2>2. signals'[u] = signals[u] /\ (pc'[u].at = "dead" => pc[u].at = "dead")
      BY <1>16, RecvParksDoes DEF Others, Goes, Ends, Calls
    <2> QED
      BY <1>0, <2>1, <2>2, SignalSame DEF CallersSame
  <1>17. ASSUME Wake(t) PROVE SignalBooks(u)'
    <2>1. CallersSame
      BY <1>17, QuietMoves DEF QuietStep, Quiet
    <2>2. signals'[u] = signals[u] /\ (pc'[u].at = "dead" => pc[u].at = "dead")
      BY <1>17, WakeDoes DEF Others, Goes, Ends, Calls
    <2> QED
      BY <1>0, <2>1, <2>2, SignalSame DEF CallersSame
  <1>18. ASSUME Register(t) PROVE SignalBooks(u)'
    <2> DEFINE h == pc[t].to
    <2>1. \A v \in Threads : Callers(v)' =
             IF v = h THEN Callers(v) \cup {t} ELSE Callers(v)
      BY <1>18, SignalMoves
    <2>2. /\ Others(t) /\ pc[t].at = "register" /\ pc'[t].at # "dead"
          /\ \A v \in Threads :
                signals'[v] = IF v = h THEN signals[v] + 1 ELSE signals[v]
      BY <1>18, RegisterDoes DEF Goes
    <2>3. t \in WakersOf(h) /\ \A v \in Threads : t \notin Callers(v)
      BY <2>2 DEF WakersOf, Callers
    <2> HIDE DEF h
    <2>4. CASE u = h
      <3>1. At(u, "parked") /\ u # t
        BY <1>0, <2>2, <2>3, <2>4 DEF WaitBooks, Called, At
      <3>2. ~At(u, "dead")'
        BY <2>2, <3>1 DEF At, Others
      <3>3. /\ IsFiniteSet(Callers(u) \cup {t})
            /\ Cardinality(Callers(u) \cup {t}) = Cardinality(Callers(u)) + 1
        BY <1>0, <2>3, FS_AddElement DEF SignalBooks
      <3> QED
        BY <1>0, <2>1, <2>2, <2>4, <3>2, <3>3 DEF SignalBooks
    <2>5. CASE u # h
      BY <1>0, <2>1, <2>2, <2>5, SignalSame DEF Others
    <2> QED
      BY <2>4, <2>5
  <1>19. ASSUME Post(t) PROVE SignalBooks(u)'
    <2>1. CallersSame
      BY <1>19, SignalMoves
    <2>2. signals'[u] = signals[u] /\ (pc'[u].at = "dead" => pc[u].at = "dead")
      BY <1>19, PostDoes DEF Others, Goes, Ends, Calls
    <2> QED
      BY <1>0, <2>1, <2>2, SignalSame DEF CallersSame
  <1>20. ASSUME Clear(t) PROVE SignalBooks(u)'
    <2> DEFINE h == pc[t].to
    <2>1. \A v \in Threads : Callers(v)' =
             IF v = h THEN Callers(v) \ {t} ELSE Callers(v)
      BY <1>20, SignalMoves
    <2>2. /\ Others(t) /\ pc[t].at = "clear" /\ pc'[t].at # "dead"
          /\ \A v \in Threads :
                signals'[v] = IF v = h THEN signals[v] - 1 ELSE signals[v]
      BY <1>20, ClearDoes DEF Goes, Ends
    <2>3. t \in Callers(h)
      BY <2>2 DEF Callers
    <2> HIDE DEF h
    <2>4. CASE u = h
      <3>1. ~At(u, "dead") /\ ~At(u, "dead")'
        BY <1>0, <2>2, <2>3, <2>4 DEF SignalBooks, At, Others
      <3>2. /\ IsFiniteSet(Callers(u) \ {t})
            /\ Cardinality(Callers(u) \ {t}) = Cardinality(Callers(u)) - 1
        BY <1>0, <2>3, <2>4, FS_RemoveElement DEF SignalBooks
      <3> QED
        BY <1>0, <2>1, <2>2, <2>4, <3>1, <3>2 DEF SignalBooks
    <2>5. CASE u # h
      BY <1>0, <2>1, <2>2, <2>5, SignalSame DEF Others
    <2> QED
      BY <2>4, <2>5
  <1>21. ASSUME Close(t) PROVE SignalBooks(u)'
    <2>1. CallersSame
      BY <1>21, CloseMoves
    <2>2. signals'[u] = signals[u] /\ (pc'[u].at = "dead" => pc[u].at = "dead")
      BY <1>21, CloseDoes DEF Others, Goes, Ends, Calls
    <2> QED
      BY <1>0, <2>1, <2>2, SignalSame DEF CallersSame
  <1>22. ASSUME Detach(t), At(t, "detachRecvq") PROVE SignalBooks(u)'
    <2>1. CallersSame
      BY <1>22, CloseMoves
    <2>2. signals'[u] = signals[u] /\ (pc'[u].at = "dead" => pc[u].at = "dead")
      BY <1>22, DetachRecvDoes DEF Others, Goes, Ends, Calls
    <2> QED
      BY <1>0, <2>1, <2>2, SignalSame DEF CallersSame
  <1>23. ASSUME Detach(t), At(t, "detachSendq") PROVE SignalBooks(u)'
    <2>1. CallersSame
      BY <1>23, CloseMoves
    <2>2. signals'[u] = signals[u] /\ (pc'[u].at = "dead" => pc[u].at = "dead")
      BY <1>23, DetachSendDoes DEF Others, Goes, Ends, Calls
    <2> QED
      BY <1>0, <2>1, <2>2, SignalSame DEF CallersSame
  <1>24. ASSUME Cancel(t) PROVE SignalBooks(u)'
    <2>1. CallersSame
      BY <1>24, CloseMoves
    <2>2. signals'[u] = signals[u] /\ (pc'[u].at = "dead" => pc[u].at = "dead")
      BY <1>24, CancelDoes DEF Others, Goes, Ends, Calls
    <2> QED
      BY <1>0, <2>1, <2>2, SignalSame DEF CallersSame
  <1>25. ASSUME CancelDone(t), sendq # << >> PROVE SignalBooks(u)'
    <2>1. CallersSame
      BY <1>25, CloseMoves
    <2>2. signals'[u] = signals[u] /\ (pc'[u].at = "dead" => pc[u].at = "dead")
      BY <1>25, CancelGoesOnDoes DEF Others, Goes, Ends, Calls
    <2> QED
      BY <1>0, <2>1, <2>2, SignalSame DEF CallersSame
  <1>26. ASSUME CancelDone(t), sendq = << >> PROVE SignalBooks(u)'
    <2>1. CallersSame
      BY <1>26, CloseMoves
    <2>2. signals'[u] = signals[u] /\ (pc'[u].at = "dead" => pc[u].at = "dead")
      BY <1>26, CancelEndsDoes DEF Others, Goes, Ends, Calls
    <2> QED
      BY <1>0, <2>1, <2>2, SignalSame DEF CallersSame
  <1>27. ASSUME Exit(t) PROVE SignalBooks(u)'
    <2>1. CallersSame
      BY <1>27, QuietMoves DEF QuietStep, Quiet
    <2>2. /\ signals' = signals /\ Others(t) /\ signals[t] = 0
          /\ pc'[t].at = "dead"
      BY <1>27, ExitDoes DEF Goes
    <2>3. Callers(t) = {}
      BY <1>0, <2>2, FS_EmptySet DEF SignalBooks
    <2> QED
      BY <1>0, <2>1, <2>2, <2>3 DEF SignalBooks, CallersSame, Others, At
  <1> QED
    BY <1>1, <1>2, <1>3, <1>4, <1>5, <1>6, <1>7, <1>8, <1>9, <1>10, <1>11,
       <1>12, <1>13, <1>14, <1>15, <1>16, <1>17, <1>18, <1>19, <1>20, <1>21,
       <1>22, <1>23, <1>24, <1>25, <1>26, <1>27
       DEF Step, Send, Recv, Detach, CancelDone

(* No Thr is used after its thread.                                        *)
LEMMA FaultKept ==
    ASSUME ChanBooks, NEW t \in Threads,
           Step(t) \/ Exit(t) \/ \E op \in Ops[t] : Begin(t, op)
    PROVE  ~fault'
  <1>0. CallBooks(t) /\ TypeOK /\ ~fault
    BY Facts1 DEF ChanBooks
  <1>1. ASSUME NEW op \in Ops[t], Begin(t, op) PROVE ~fault'
    BY <1>0, <1>1, BeginDoes
  <1>2. ASSUME TrySendProbe(t) PROVE ~fault'
    BY <1>0, <1>2, TrySendProbeDoes
  <1>3. ASSUME TrySendSecond(t) PROVE ~fault'
    BY <1>0, <1>3, TrySendSecondDoes
  <1>4. ASSUME TryRecvProbe(t) PROVE ~fault'
    BY <1>0, <1>4, TryRecvProbeDoes
  <1>5. ASSUME TryRecvSecond(t) PROVE ~fault'
    BY <1>0, <1>5, TryRecvSecondDoes
  <1>6. ASSUME TryRecvThird(t) PROVE ~fault'
    BY <1>0, <1>6, TryRecvThirdDoes
  <1>7. ASSUME Send(t), SendClosed(t) PROVE ~fault'
    BY <1>0, <1>7, SendClosedDoes
  <1>8. ASSUME Send(t), SendDirect(t) PROVE ~fault'
    <2>1. Head(recvq) \in Threads /\ Head(recvq) \in Range(recvq)
      BY <1>8, SendDirectMoves
    <2>2. WaitBooks(Head(recvq))
      BY <2>1, Facts1
    <2>3. At(Head(recvq), "parked") /\ sema[Head(recvq)] = 0
      BY <1>0, <2>1, <2>2 DEF WaitBooks, Called, TypeOK
    <2> QED
      BY <1>0, <1>8, <2>3 DEF SendDirect, Parked
  <1>9. ASSUME Send(t), SendEnqueue(t) PROVE ~fault'
    BY <1>0, <1>9, SendEnqueueDoes
  <1>10. ASSUME Send(t), SendFull(t), InCall(t, "trysend") PROVE ~fault'
    BY <1>0, <1>10, SendRefusedDoes
  <1>11. ASSUME Send(t), SendFull(t), ~InCall(t, "trysend") PROVE ~fault'
    BY <1>0, <1>11, SendParksDoes
  <1>12. ASSUME Recv(t), RecvClosed(t) PROVE ~fault'
    BY <1>0, <1>12, RecvClosedDoes
  <1>13. ASSUME Recv(t), RecvDirect(t) PROVE ~fault'
    <2>1. Head(sendq) \in Threads /\ Head(sendq) \in Range(sendq)
      BY <1>13, RecvDirectMoves
    <2>2. WaitBooks(Head(sendq))
      BY <2>1, Facts1
    <2>3. At(Head(sendq), "parked") /\ sema[Head(sendq)] = 0
      BY <1>0, <2>1, <2>2 DEF WaitBooks, Called, TypeOK
    <2> QED
      BY <1>0, <1>13, <2>3 DEF RecvDirect, Parked
  <1>14. ASSUME Recv(t), RecvDequeue(t) PROVE ~fault'
    BY <1>0, <1>14, RecvDequeueDoes
  <1>15. ASSUME Recv(t), RecvNothing(t), InCall(t, "tryrecv") PROVE ~fault'
    BY <1>0, <1>15, RecvRefusedDoes
  <1>16. ASSUME Recv(t), RecvNothing(t), ~InCall(t, "tryrecv") PROVE ~fault'
    BY <1>0, <1>16, RecvParksDoes
  <1>17. ASSUME Wake(t) PROVE ~fault'
    BY <1>0, <1>17, WakeDoes
  <1>18. ASSUME Register(t) PROVE ~fault'
    <2> DEFINE h == pc[t].to
    <2>1. h \in Threads /\ t \in WakersOf(h)
      BY <1>0, <1>18 DEF Register, At, CallBooks, WakersOf, Signalling
    <2>2. WaitBooks(h) /\ SignalBooks(h)
      BY <2>1, Facts1
    <2>3. ~Dead(h)
      BY <2>1, <2>2 DEF WaitBooks, SignalBooks, Called, At, Dead
    <2> QED
      BY <1>0, <1>18, <2>3 DEF Register
  <1>19. ASSUME Post(t) PROVE ~fault'
    <2> DEFINE h == pc[t].to
    <2>1. h \in Threads /\ t \in WakersOf(h)
      BY <1>0, <1>19 DEF Post, At, CallBooks, WakersOf, Signalling
    <2>2. WaitBooks(h) /\ SignalBooks(h)
      BY <2>1, Facts1
    <2>3. ~Dead(h)
      BY <2>1, <2>2 DEF WaitBooks, SignalBooks, Called, At, Dead
    <2> QED
      BY <1>0, <1>19, <2>3 DEF Post
  <1>20. ASSUME Clear(t) PROVE ~fault'
    <2> DEFINE h == pc[t].to
    <2>1. h \in Threads /\ t \in Callers(h)
      BY <1>0, <1>20 DEF Clear, At, CallBooks, Callers, Signalling
    <2>2. WaitBooks(h) /\ SignalBooks(h)
      BY <2>1, Facts1
    <2>3. ~Dead(h)
      BY <2>1, <2>2 DEF WaitBooks, SignalBooks, Called, At, Dead
    <2> QED
      BY <1>0, <1>20, <2>3 DEF Clear
  <1>21. ASSUME Close(t) PROVE ~fault'
    BY <1>0, <1>21, CloseDoes
  <1>22. ASSUME Detach(t), At(t, "detachRecvq") PROVE ~fault'
    BY <1>0, <1>22, DetachRecvDoes
  <1>23. ASSUME Detach(t), At(t, "detachSendq") PROVE ~fault'
    BY <1>0, <1>23, DetachSendDoes
  <1>24. ASSUME Cancel(t) PROVE ~fault'
    BY <1>0, <1>24, CancelDoes
  <1>25. ASSUME CancelDone(t), sendq # << >> PROVE ~fault'
    BY <1>0, <1>25, CancelGoesOnDoes
  <1>26. ASSUME CancelDone(t), sendq = << >> PROVE ~fault'
    BY <1>0, <1>26, CancelEndsDoes
  <1>27. ASSUME Exit(t) PROVE ~fault'
    BY <1>0, <1>27, ExitDoes
  <1> QED
    BY <1>1, <1>2, <1>3, <1>4, <1>5, <1>6, <1>7, <1>8, <1>9, <1>10, <1>11,
       <1>12, <1>13, <1>14, <1>15, <1>16, <1>17, <1>18, <1>19, <1>20, <1>21,
       <1>22, <1>23, <1>24, <1>25, <1>26, <1>27
       DEF Step, Send, Recv, Detach, CancelDone

(* Nobody waits for what is there.                                         *)
LEMMA VainKept ==
    ASSUME ChanBooks, NEW t \in Threads,
           Step(t) \/ Exit(t) \/ \E op \in Ops[t] : Begin(t, op)
    PROVE  NoneWaitsInVain'
  <1>0. CallBooks(t) /\ LockBooks(t) /\ NoneWaitsInVain /\ TypeOK
    BY Facts1 DEF ChanBooks
  <1>1. ASSUME NEW op \in Ops[t], Begin(t, op) PROVE NoneWaitsInVain'
    BY <1>0, ChannelAssumption, <1>1, BeginDoes
       DEF NoneWaitsInVain, LockBooks, CallBooks, At, InCall, Closing
  <1>2. ASSUME TrySendProbe(t) PROVE NoneWaitsInVain'
    BY <1>0, ChannelAssumption, <1>2, TrySendProbeDoes
       DEF NoneWaitsInVain, LockBooks, CallBooks, At, InCall, Closing
  <1>3. ASSUME TrySendSecond(t) PROVE NoneWaitsInVain'
    BY <1>0, ChannelAssumption, <1>3, TrySendSecondDoes
       DEF NoneWaitsInVain, LockBooks, CallBooks, At, InCall, Closing
  <1>4. ASSUME TryRecvProbe(t) PROVE NoneWaitsInVain'
    BY <1>0, ChannelAssumption, <1>4, TryRecvProbeDoes
       DEF NoneWaitsInVain, LockBooks, CallBooks, At, InCall, Closing
  <1>5. ASSUME TryRecvSecond(t) PROVE NoneWaitsInVain'
    BY <1>0, ChannelAssumption, <1>5, TryRecvSecondDoes
       DEF NoneWaitsInVain, LockBooks, CallBooks, At, InCall, Closing
  <1>6. ASSUME TryRecvThird(t) PROVE NoneWaitsInVain'
    BY <1>0, ChannelAssumption, <1>6, TryRecvThirdDoes
       DEF NoneWaitsInVain, LockBooks, CallBooks, At, InCall, Closing
  <1>7. ASSUME Send(t), SendClosed(t) PROVE NoneWaitsInVain'
    BY <1>0, ChannelAssumption, <1>7, SendClosedDoes
       DEF NoneWaitsInVain, LockBooks, CallBooks, At, InCall, Closing
  <1>8. ASSUME Send(t), SendDirect(t) PROVE NoneWaitsInVain'
    BY <1>0, ChannelAssumption, <1>8, SendDirectDoes
       DEF NoneWaitsInVain, LockBooks, CallBooks, At, InCall, Closing
  <1>9. ASSUME Send(t), SendEnqueue(t) PROVE NoneWaitsInVain'
    <2>1. /\ ~closed /\ recvq = << >> /\ qlen # qcap /\ recvq' = recvq
          /\ sendq' = sendq /\ closed' = closed
      BY <1>0, <1>9, SendEnqueueDoes DEF TypeOK
    <2> QED
      BY <1>0, <2>1 DEF NoneWaitsInVain
  <1>10. ASSUME Send(t), SendFull(t), InCall(t, "trysend")
        PROVE  NoneWaitsInVain'
    BY <1>0, ChannelAssumption, <1>10, SendRefusedDoes
       DEF NoneWaitsInVain, LockBooks, CallBooks, At, InCall, Closing
  <1>11. ASSUME Send(t), SendFull(t), ~InCall(t, "trysend")
        PROVE  NoneWaitsInVain'
    BY <1>0, ChannelAssumption, <1>11, SendParksDoes
       DEF NoneWaitsInVain, LockBooks, CallBooks, At, InCall, Closing
  <1>12. ASSUME Recv(t), RecvClosed(t) PROVE NoneWaitsInVain'
    BY <1>0, ChannelAssumption, <1>12, RecvClosedDoes
       DEF NoneWaitsInVain, LockBooks, CallBooks, At, InCall, Closing
  <1>13. ASSUME Recv(t), RecvDirect(t) PROVE NoneWaitsInVain'
    BY <1>0, ChannelAssumption, <1>13, RecvDirectDoes
       DEF NoneWaitsInVain, LockBooks, CallBooks, At, InCall, Closing
  <1>14. ASSUME Recv(t), RecvDequeue(t) PROVE NoneWaitsInVain'
    BY <1>0, ChannelAssumption, <1>14, RecvDequeueDoes
       DEF NoneWaitsInVain, LockBooks, CallBooks, At, InCall, Closing
  <1>15. ASSUME Recv(t), RecvNothing(t), InCall(t, "tryrecv")
        PROVE  NoneWaitsInVain'
    BY <1>0, ChannelAssumption, <1>15, RecvRefusedDoes
       DEF NoneWaitsInVain, LockBooks, CallBooks, At, InCall, Closing
  <1>16. ASSUME Recv(t), RecvNothing(t), ~InCall(t, "tryrecv")
        PROVE  NoneWaitsInVain'
    BY <1>0, ChannelAssumption, <1>16, RecvParksDoes
       DEF NoneWaitsInVain, LockBooks, CallBooks, At, InCall, Closing
  <1>17. ASSUME Wake(t) PROVE NoneWaitsInVain'
    BY <1>0, ChannelAssumption, <1>17, WakeDoes
       DEF NoneWaitsInVain, LockBooks, CallBooks, At, InCall, Closing
  <1>18. ASSUME Register(t) PROVE NoneWaitsInVain'
    BY <1>0, ChannelAssumption, <1>18, RegisterDoes
       DEF NoneWaitsInVain, LockBooks, CallBooks, At, InCall, Closing
  <1>19. ASSUME Post(t) PROVE NoneWaitsInVain'
    BY <1>0, ChannelAssumption, <1>19, PostDoes
       DEF NoneWaitsInVain, LockBooks, CallBooks, At, InCall, Closing
  <1>20. ASSUME Clear(t) PROVE NoneWaitsInVain'
    BY <1>0, ChannelAssumption, <1>20, ClearDoes
       DEF NoneWaitsInVain, LockBooks, CallBooks, At, InCall, Closing
  <1>21. ASSUME Close(t) PROVE NoneWaitsInVain'
    BY <1>0, ChannelAssumption, <1>21, CloseDoes
       DEF NoneWaitsInVain, LockBooks, CallBooks, At, InCall, Closing
  <1>22. ASSUME Detach(t), At(t, "detachRecvq") PROVE NoneWaitsInVain'
    BY <1>0, ChannelAssumption, <1>22, DetachRecvDoes
       DEF NoneWaitsInVain, LockBooks, CallBooks, At, InCall, Closing
  <1>23. ASSUME Detach(t), At(t, "detachSendq") PROVE NoneWaitsInVain'
    BY <1>0, ChannelAssumption, <1>23, DetachSendDoes
       DEF NoneWaitsInVain, LockBooks, CallBooks, At, InCall, Closing
  <1>24. ASSUME Cancel(t) PROVE NoneWaitsInVain'
    BY <1>0, ChannelAssumption, <1>24, CancelDoes
       DEF NoneWaitsInVain, LockBooks, CallBooks, At, InCall, Closing
  <1>25. ASSUME CancelDone(t), sendq # << >> PROVE NoneWaitsInVain'
    BY <1>0, ChannelAssumption, <1>25, CancelGoesOnDoes
       DEF NoneWaitsInVain, LockBooks, CallBooks, At, InCall, Closing
  <1>26. ASSUME CancelDone(t), sendq = << >> PROVE NoneWaitsInVain'
    BY <1>0, ChannelAssumption, <1>26, CancelEndsDoes
       DEF NoneWaitsInVain, LockBooks, CallBooks, At, InCall, Closing
  <1>27. ASSUME Exit(t) PROVE NoneWaitsInVain'
    BY <1>0, ChannelAssumption, <1>27, ExitDoes
       DEF NoneWaitsInVain, LockBooks, CallBooks, At, InCall, Closing
  <1> QED
    BY <1>1, <1>2, <1>3, <1>4, <1>5, <1>6, <1>7, <1>8, <1>9, <1>10, <1>11,
       <1>12, <1>13, <1>14, <1>15, <1>16, <1>17, <1>18, <1>19, <1>20, <1>21,
       <1>22, <1>23, <1>24, <1>25, <1>26, <1>27
       DEF Step, Send, Recv, Detach, CancelDone

(* Types: of the channel, of the threads, of where they stand.             *)
RingType ==
    /\ qcap \in Nat /\ qlen \in 0 .. qcap
    /\ buf \in [0 .. qcap - 1 -> Messages \cup {None}]
    /\ sendx \in Nat /\ recvx \in Nat
    /\ qcap > 0 => sendx < qcap /\ recvx < qcap
    /\ sendq \in Seq(Threads) /\ recvq \in Seq(Threads)
    /\ closed \in BOOLEAN /\ aborted \in BOOLEAN
    /\ lock \in Threads \cup {None}
    /\ accepted \in Seq(Messages) /\ received \in Seq(Messages)
ThreadType ==
    /\ calls \in [Threads -> Nat]
    /\ slot \in [Threads -> Messages \cup {None}]
    /\ tclosed \in [Threads -> BOOLEAN]
    /\ sema \in [Threads -> {0, 1}] /\ signals \in [Threads -> Nat]
    /\ answer \in [Threads -> Answers]
Ats ==
    Outside \cup Unlocked \cup {"parked"} \cup Signalling \cup Closing
Places ==
    [at : Ats, op : OpNames \cup {None}, to : Threads \cup {None},
     rest : Seq(Threads)]
PlaceType == pc \in [Threads -> Places]
SeenType == seen \in [Threads -> SUBSET Sights]

(* The type invariant, in parts.                                           *)
LEMMA TypeParts == TypeOK <=> RingType /\ ThreadType /\ PlaceType /\ SeenType
  BY DEF TypeOK, RingType, ThreadType, PlaceType, SeenType, Places, Ats

(* The same of the next state.                                             *)
LEMMA TypePartsNext ==
    ASSUME RingType', ThreadType', PlaceType', SeenType'
    PROVE  TypeOK'
  BY DEF TypeOK, RingType, ThreadType, PlaceType, SeenType, Places, Ats

(* However a thread moves on, its place keeps its type.                    *)
LEMMA Moved ==
    ASSUME PlaceType, NEW t \in Threads
    PROVE  /\ \A at \in Ats : Goto(t, at) => PlaceType'
           /\ \A a : Answer(t, a) => PlaceType'
           /\ \A u \in Threads : Signal(t, u) => PlaceType'
           /\ UNCHANGED pc => PlaceType'
  <1>1. ASSUME NEW at \in Ats, Goto(t, at) PROVE PlaceType'
    BY <1>1 DEF Goto, PlaceType, Places
  <1>2. ASSUME NEW a, Answer(t, a) PROVE PlaceType'
    <2>1. Idle \in Places
      BY DEF Idle, Places, Ats, Outside
    <2> QED
      BY <1>2, <2>1 DEF Answer, PlaceType
  <1>3. ASSUME NEW u \in Threads, Signal(t, u) PROVE PlaceType'
    <2>1. "register" \in Ats
      BY DEF Ats, Signalling
    <2> QED
      BY <1>3, <2>1 DEF Signal, PlaceType, Places
  <1>4. UNCHANGED pc => PlaceType'
    BY DEF PlaceType
  <1> QED
    BY <1>1, <1>2, <1>3, <1>4

(* So it does after every step.                                            *)
LEMMA PlaceKept ==
    ASSUME ChanBooks, NEW t \in Threads,
           Step(t) \/ Exit(t) \/ \E op \in Ops[t] : Begin(t, op)
    PROVE  PlaceType'
  <1>0. PlaceType /\ RingType
    BY Facts1, TypeParts
  <1>1. ASSUME NEW op \in Ops[t], Begin(t, op) PROVE PlaceType'
    <2> DEFINE at == IF op \in {"trysend", "tryrecv"} THEN "probe" ELSE "lock"
               r == [Idle EXCEPT !.op = op, !.at = at]
    <2>1. Idle \in Places /\ op \in OpNames /\ at \in Ats
      BY ChannelAssumption DEF Idle, Places, Ats, Outside, Unlocked
    <2> HIDE DEF at
    <2>2. r \in Places
      BY <2>1 DEF Places
    <2>3. pc' = [pc EXCEPT ![t] = r]
      BY <1>1, Zenon DEF Begin, at
    <2> QED
      BY <1>0, <2>2, <2>3 DEF PlaceType
  <1>2. ASSUME TrySendProbe(t) PROVE PlaceType'
    <2>1. \E at \in Unlocked : Goto(t, at)
      BY <1>2 DEF TrySendProbe, Unlocked
    <2> QED
      BY <1>0, <2>1, Moved DEF Ats
  <1>3. ASSUME TrySendSecond(t) PROVE PlaceType'
    BY <1>0, Moved, <1>3
       DEF TrySendSecond, Ats, Outside, Unlocked, Signalling, Closing
  <1>4. ASSUME TryRecvProbe(t) PROVE PlaceType'
    <2>1. \E at \in Unlocked : Goto(t, at)
      BY <1>4 DEF TryRecvProbe, Unlocked
    <2> QED
      BY <1>0, <2>1, Moved DEF Ats
  <1>5. ASSUME TryRecvSecond(t) PROVE PlaceType'
    BY <1>0, Moved, <1>5
       DEF TryRecvSecond, Ats, Outside, Unlocked, Signalling, Closing
  <1>6. ASSUME TryRecvThird(t) PROVE PlaceType'
    BY <1>0, Moved, <1>6
       DEF TryRecvThird, Ats, Outside, Unlocked, Signalling, Closing
  <1>7. ASSUME Send(t), SendClosed(t) PROVE PlaceType'
    BY <1>0, Moved, <1>7
       DEF Send, SendClosed, Ats, Outside, Unlocked, Signalling, Closing
  <1>8. ASSUME Send(t), SendDirect(t) PROVE PlaceType'
    <2>1. Signal(t, Head(recvq)) /\ Head(recvq) \in Threads
      BY <1>8, SendDirectMoves DEF SendDirect
    <2> QED
      BY <1>0, <2>1, Moved
  <1>9. ASSUME Send(t), SendEnqueue(t) PROVE PlaceType'
    BY <1>0, Moved, <1>9
       DEF Send, SendEnqueue, Ats, Outside, Unlocked, Signalling, Closing
  <1>10. ASSUME Send(t), SendFull(t), InCall(t, "trysend") PROVE PlaceType'
    BY <1>0, Moved, <1>10
       DEF Send, SendFull, Ats, Outside, Unlocked, Signalling, Closing
  <1>11. ASSUME Send(t), SendFull(t), ~InCall(t, "trysend") PROVE PlaceType'
    BY <1>0, Moved, <1>11
       DEF Send, SendFull, Park, Ats, Outside, Unlocked, Signalling, Closing
  <1>12. ASSUME Recv(t), RecvClosed(t) PROVE PlaceType'
    BY <1>0, Moved, <1>12
       DEF Recv, RecvClosed, Ats, Outside, Unlocked, Signalling, Closing
  <1>13. ASSUME Recv(t), RecvDirect(t) PROVE PlaceType'
    <2>1. Signal(t, Head(sendq)) /\ Head(sendq) \in Threads
      BY <1>13, RecvDirectMoves DEF RecvDirect
    <2> QED
      BY <1>0, <2>1, Moved
  <1>14. ASSUME Recv(t), RecvDequeue(t) PROVE PlaceType'
    BY <1>0, Moved, <1>14
       DEF Recv, RecvDequeue, Ats, Outside, Unlocked, Signalling, Closing
  <1>15. ASSUME Recv(t), RecvNothing(t), InCall(t, "tryrecv") PROVE PlaceType'
    BY <1>0, Moved, <1>15
       DEF Recv, RecvNothing, Ats, Outside, Unlocked, Signalling, Closing
  <1>16. ASSUME Recv(t), RecvNothing(t), ~InCall(t, "tryrecv")
        PROVE  PlaceType'
    BY <1>0, Moved, <1>16
       DEF Recv, RecvNothing, Park, Ats, Outside, Unlocked, Signalling,
           Closing
  <1>17. ASSUME Wake(t) PROVE PlaceType'
    BY <1>0, Moved, <1>17
       DEF Wake, Ats, Outside, Unlocked, Signalling, Closing
  <1>18. ASSUME Register(t) PROVE PlaceType'
    BY <1>0, Moved, <1>18
       DEF Register, Ats, Outside, Unlocked, Signalling, Closing
  <1>19. ASSUME Post(t) PROVE PlaceType'
    BY <1>0, Moved, <1>19
       DEF Post, Ats, Outside, Unlocked, Signalling, Closing
  <1>20. ASSUME Clear(t) PROVE PlaceType'
    BY <1>0, Moved, <1>20
       DEF Clear, Ats, Outside, Unlocked, Signalling, Closing
  <1>21. ASSUME Close(t) PROVE PlaceType'
    BY <1>0, Moved, <1>21
       DEF Close, Ats, Outside, Unlocked, Signalling, Closing
  <1>22. ASSUME Detach(t), At(t, "detachRecvq") PROVE PlaceType'
    <2>1. /\ pc' = [pc EXCEPT ![t].at = "cancel", ![t].rest = recvq]
          /\ recvq \in Seq(Threads) /\ "cancel" \in Ats
      BY <1>0, <1>22 DEF Detach, At, Ats, Closing, RingType
    <2> QED
      BY <1>0, <2>1 DEF PlaceType, Places
  <1>23. ASSUME Detach(t), At(t, "detachSendq") PROVE PlaceType'
    <2>1. /\ pc' = [pc EXCEPT ![t].at = "cancel", ![t].rest = sendq]
          /\ sendq \in Seq(Threads) /\ "cancel" \in Ats
      BY <1>0, <1>23 DEF Detach, At, Ats, Closing, RingType
    <2> QED
      BY <1>0, <2>1 DEF PlaceType, Places
  <1>24. ASSUME Cancel(t) PROVE PlaceType'
    <2>1. Head(pc[t].rest) \in Threads
      <3>1. Rest = pc[t].rest /\ Head(Rest) \in Threads
        BY <1>24, CloseMoves
      <3> QED
        BY <3>1
    <2>2. /\ pc' = [pc EXCEPT ![t].at = "register", ![t].to = Head(pc[t].rest),
                               ![t].rest = Tail(@)]
          /\ pc[t].rest # << >> /\ "register" \in Ats
      BY <1>24 DEF Cancel, Ats, Signalling
    <2>3. Tail(pc[t].rest) \in Seq(Threads)
      BY <1>0, <2>2 DEF PlaceType, Places
    <2> QED
      BY <1>0, <2>1, <2>2, <2>3 DEF PlaceType, Places
  <1>25. ASSUME CancelDone(t), sendq # << >> PROVE PlaceType'
    BY <1>0, Moved, <1>25
       DEF CancelDone, Ats, Outside, Unlocked, Signalling, Closing
  <1>26. ASSUME CancelDone(t), sendq = << >> PROVE PlaceType'
    BY <1>0, Moved, <1>26
       DEF CancelDone, Ats, Outside, Unlocked, Signalling, Closing
  <1>27. ASSUME Exit(t) PROVE PlaceType'
    BY <1>0, Moved, <1>27
       DEF Exit, Ats, Outside, Unlocked, Signalling, Closing
  <1> QED
    BY <1>1, <1>2, <1>3, <1>4, <1>5, <1>6, <1>7, <1>8, <1>9, <1>10, <1>11,
       <1>12, <1>13, <1>14, <1>15, <1>16, <1>17, <1>18, <1>19, <1>20, <1>21,
       <1>22, <1>23, <1>24, <1>25, <1>26, <1>27
       DEF Step, Send, Recv, Detach, CancelDone

(* The ring, for any capacity c, buffer b, length l and first place x: a   *)
(* sequence that grows at its end and gives up its head.                   *)
Cells == Messages \cup {None}
RingOf(c, b, l, x) == [n \in 1 .. l |-> b[(x + n - 1) % c]]
IsRing(R, c, b, l, x) ==
    /\ R \in Seq(Cells) /\ Len(R) = l
    /\ \A n \in 1 .. l :
          /\ (x + n - 1) % c \in 0 .. c - 1
          /\ (x + n - 1) % c = IF x + n <= c THEN x + n - 1 ELSE x + n - 1 - c
          /\ R[n] = b[(x + n - 1) % c]
Succ(c, x) == IF x = c - 1 THEN 0 ELSE x + 1
Grows(c, b, l, x, m) ==
    RingOf(c, [b EXCEPT ![(x + l) % c] = m], l + 1, x) =
       Append(RingOf(c, b, l, x), m)

(* The cells of the ring in the order in which they are received.          *)
LEMMA RingPlaces ==
    ASSUME NEW c \in Nat \ {0}, NEW x \in 0 .. c - 1,
           NEW b \in [0 .. c - 1 -> Cells], NEW l \in 0 .. c
    PROVE  IsRing(RingOf(c, b, l, x), c, b, l, x)
  <1> DEFINE R == RingOf(c, b, l, x)
  <1>1. ASSUME NEW n \in 1 .. l
        PROVE  /\ (x + n - 1) % c = IF x + n <= c THEN x + n - 1
                                                  ELSE x + n - 1 - c
               /\ (x + n - 1) % c \in 0 .. c - 1
    <2>1. n - 1 \in 0 .. c /\ x + (n - 1) = x + n - 1 /\ n \in Int
      BY <1>1
    <2>2. (x + (n - 1)) % c = IF x + (n - 1) < c THEN x + (n - 1)
                                                 ELSE x + (n - 1) - c
      BY <2>1, Wraps
    <2> DEFINE p == (x + n - 1) % c
    <2>3. p = IF x + (n - 1) < c THEN x + (n - 1) ELSE x + (n - 1) - c
      BY <2>1, <2>2
    <2> HIDE DEF p
    <2>4. p = IF x + n <= c THEN x + n - 1 ELSE x + n - 1 - c
      BY <1>1, <2>3
    <2>5. p \in 0 .. c - 1
      BY <1>1, <2>4
    <2> QED
      BY <2>4, <2>5 DEF p
  <1>2. \A n \in 1 .. l : R[n] = b[(x + n - 1) % c]
    BY Zenon DEF RingOf
  <1>3. \A n \in 1 .. l : R[n] \in Cells
    BY <1>1, <1>2
  <1>4. R = [n \in 1 .. l |-> R[n]]
    BY Zenon DEF RingOf
  <1> HIDE DEF R
  <1>5. R \in [1 .. l -> Cells]
    BY <1>3, <1>4
  <1>6. R \in Seq(Cells) /\ Len(R) = l
    BY <1>5
  <1> QED
    BY <1>1, <1>2, <1>6 DEF R, IsRing

(* A message put behind the last,                                          *)
LEMMA RingGrows ==
    ASSUME NEW c \in Nat \ {0}, NEW x \in 0 .. c - 1,
           NEW b \in [0 .. c - 1 -> Cells], NEW l \in 0 .. c - 1, NEW m \in Cells
    PROVE  Grows(c, b, l, x, m)
  <1> DEFINE y == (x + l) % c
             d == [b EXCEPT ![y] = m]
             R == RingOf(c, b, l, x)
             Q == RingOf(c, d, l + 1, x)
  <1>1. /\ l \in 0 .. c /\ l + 1 \in 0 .. c /\ l \in Nat
        /\ l + 1 \in 1 .. l + 1 /\ x + (l + 1) - 1 = x + l
    OBVIOUS
  <1>2. y = IF x + l < c THEN x + l ELSE x + l - c
    BY <1>1, Wraps
  <1>3. d \in [0 .. c - 1 -> Cells]
    OBVIOUS
  <1>4. /\ R \in Seq(Cells) /\ Len(R) = l
        /\ \A n \in 1 .. l :
              /\ (x + n - 1) % c \in 0 .. c - 1
              /\ (x + n - 1) % c = IF x + n <= c THEN x + n - 1
                                                 ELSE x + n - 1 - c
              /\ R[n] = b[(x + n - 1) % c]
    <2>1. IsRing(R, c, b, l, x)
      BY <1>1, RingPlaces
    <2> QED
      BY <2>1 DEF IsRing
  <1> HIDE DEF d
  <1>5. /\ Q \in Seq(Cells) /\ Len(Q) = l + 1
        /\ \A n \in 1 .. l + 1 :
              /\ (x + n - 1) % c \in 0 .. c - 1
              /\ Q[n] = d[(x + n - 1) % c]
    <2>1. IsRing(Q, c, d, l + 1, x)
      BY <1>1, <1>3, RingPlaces
    <2> QED
      BY <2>1 DEF IsRing
  <1>6. ASSUME NEW n \in 1 .. l PROVE Q[n] = R[n]
    <2> DEFINE p == (x + n - 1) % c
    <2>1. p \in 0 .. c - 1 /\ p = IF x + n <= c THEN x + n - 1
                                               ELSE x + n - 1 - c
      BY <1>4, <1>6
    <2>2. Q[n] = d[p] /\ R[n] = b[p]
      BY <1>1, <1>4, <1>5, <1>6
    <2> HIDE DEF p, y
    <2>3. p # y
      BY <1>2, <1>6, <2>1
    <2> QED
      BY <2>1, <2>2, <2>3 DEF d
  <1>7. Q[l + 1] = m
    <2>1. Q[l + 1] = d[y] /\ y \in 0 .. c - 1
      BY <1>1, <1>5
    <2> HIDE DEF y
    <2> QED
      BY <2>1 DEF d
  <1> HIDE DEF Q, R
  <1>8. /\ Append(R, m) \in Seq(Cells) /\ Len(Append(R, m)) = l + 1
        /\ Append(R, m)[l + 1] = m
        /\ \A n \in 1 .. l : Append(R, m)[n] = R[n]
    BY <1>1, <1>4
  <1>9. \A n \in 1 .. l + 1 : Q[n] = Append(R, m)[n]
    BY <1>1, <1>6, <1>7, <1>8
  <1>10. Q = Append(R, m)
    BY <1>5, <1>8, <1>9
  <1> QED
    BY <1>10 DEF Q, R, d, Grows

(* and one taken from the front, across the end of the array.              *)
LEMMA RingDrops ==
    ASSUME NEW c \in Nat \ {0}, NEW x \in 0 .. c - 1,
           NEW b \in [0 .. c - 1 -> Cells], NEW l \in 1 .. c
    PROVE  /\ RingOf(c, b, l - 1, Succ(c, x)) = Tail(RingOf(c, b, l, x))
           /\ RingOf(c, b, l, x)[1] = b[x] /\ RingOf(c, b, l, x) # << >>
           /\ l < c => (Succ(c, x) + (l - 1)) % c = (x + l) % c
           /\ (Succ(c, x) + (c - 1)) % c = x
           /\ Succ(c, x) \in 0 .. c - 1
  <1> DEFINE z == Succ(c, x)
             R == RingOf(c, b, l, x)
             Q == RingOf(c, b, l - 1, z)
  <1>1. /\ z \in 0 .. c - 1 /\ l \in 0 .. c /\ l - 1 \in 0 .. c
        /\ c - 1 \in 0 .. c /\ 1 \in 1 .. l
    BY DEF Succ
  <1>2. z = IF x = c - 1 THEN 0 ELSE x + 1
    BY DEF Succ
  <1> HIDE DEF z
  <1>3. /\ R \in Seq(Cells) /\ Len(R) = l
        /\ \A n \in 1 .. l :
              /\ (x + n - 1) % c = IF x + n <= c THEN x + n - 1
                                                 ELSE x + n - 1 - c
              /\ R[n] = b[(x + n - 1) % c]
    <2>1. IsRing(R, c, b, l, x)
      BY <1>1, RingPlaces
    <2> QED
      BY <2>1 DEF IsRing
  <1>4. /\ Q \in Seq(Cells) /\ Len(Q) = l - 1
        /\ \A n \in 1 .. l - 1 :
              /\ (z + n - 1) % c = IF z + n <= c THEN z + n - 1
                                                 ELSE z + n - 1 - c
              /\ Q[n] = b[(z + n - 1) % c]
    <2>1. IsRing(Q, c, b, l - 1, z)
      BY <1>1, RingPlaces
    <2> QED
      BY <2>1 DEF IsRing
  <1> HIDE DEF R, Q
  <1>5. ASSUME NEW n \in 1 .. l - 1 PROVE Q[n] = R[n + 1]
    <2> DEFINE p == (z + n - 1) % c
               o == (x + (n + 1) - 1) % c
    <2>1. n + 1 \in 1 .. l
      BY <1>5
    <2>2. /\ p = (IF z + n <= c THEN z + n - 1 ELSE z + n - 1 - c)
          /\ Q[n] = b[p]
      BY <1>4, <1>5
    <2>3. /\ o = (IF x + (n + 1) <= c THEN x + (n + 1) - 1
                                      ELSE x + (n + 1) - 1 - c)
          /\ R[n + 1] = b[o]
      BY <1>3, <2>1
    <2> HIDE DEF p, o
    <2>4. p = o
      BY <1>1, <1>2, <1>5, <2>2, <2>3
    <2> QED
      BY <2>2, <2>3, <2>4
  <1>6. Q = Tail(R)
    <2>1. /\ Tail(R) \in Seq(Cells) /\ Len(Tail(R)) = l - 1
          /\ \A n \in 1 .. l - 1 : Tail(R)[n] = R[n + 1]
      BY <1>1, <1>3
    <2> QED
      BY <1>4, <1>5, <2>1
  <1>7. R[1] = b[x] /\ R # << >>
    <2> DEFINE o == (x + 1 - 1) % c
    <2>1. o = (IF x + 1 <= c THEN x + 1 - 1 ELSE x + 1 - 1 - c) /\ R[1] = b[o]
      BY <1>1, <1>3
    <2> HIDE DEF o
    <2>2. o = x
      BY <2>1
    <2> QED
      BY <1>1, <1>3, <2>1, <2>2
  <1>8. (z + (c - 1)) % c = x
    <2> DEFINE o == (z + (c - 1)) % c
    <2>1. o = IF z + (c - 1) < c THEN z + (c - 1) ELSE z + (c - 1) - c
      BY <1>1, Wraps
    <2> HIDE DEF o
    <2>2. o = x
      BY <1>1, <1>2, <2>1
    <2> QED
      BY <2>2 DEF o
  <1>9. (z + (l - 1)) % c = (x + l) % c
    <2> DEFINE o == (z + (l - 1)) % c
               p == (x + l) % c
    <2>1. o = IF z + (l - 1) < c THEN z + (l - 1) ELSE z + (l - 1) - c
      BY <1>1, Wraps
    <2>2. p = IF x + l < c THEN x + l ELSE x + l - c
      BY <1>1, Wraps
    <2> HIDE DEF o, p
    <2>3. o = p
      BY <1>1, <1>2, <2>1, <2>2
    <2> QED
      BY <2>3 DEF o, p
  <1> QED
    BY <1>1, <1>6, <1>7, <1>8, <1>9 DEF R, Q, z

(* What the ring holds are messages.                                       *)
LEMMA RingIs ==
    Ring = RingOf(qcap, buf, qlen, recvx)
      /\ Ring' = RingOf(qcap', buf', qlen', recvx')
  BY Zenon DEF Ring, RingOf

(* The ring holds as many messages as it says.                             *)
LEMMA RingHolds ==
    ASSUME ChanBooks
    PROVE  /\ Ring \in Seq(Messages) /\ Len(Ring) = qlen
           /\ qlen # 0 =>
                 /\ buf[recvx] \in Messages /\ Ring[1] = buf[recvx] /\ qcap > 0
                 /\ Ring # << >>
           /\ qlen = 0 => Ring = << >>
  <1>0. /\ accepted = received \o Ring /\ accepted \in Seq(Messages)
        /\ received \in Seq(Messages)
    BY DEF ChanBooks, Conserved, TypeOK
  <1>1. /\ qlen \in Nat /\ qcap \in Nat /\ qlen <= qcap /\ recvx \in Nat
        /\ qcap > 0 => recvx < qcap
        /\ buf \in [0 .. qcap - 1 -> Cells]
    BY DEF ChanBooks, TypeOK, Cells
  <1>2. CASE qlen = 0
    <2>1. Ring = << >>
      BY <1>2 DEF Ring
    <2> QED
      BY <1>2, <2>1
  <1>3. CASE qlen # 0
    <2>1. /\ qcap \in Nat \ {0} /\ recvx \in 0 .. qcap - 1 /\ qlen \in 0 .. qcap
          /\ qlen \in 1 .. qcap
      BY <1>1, <1>3
    <2>2. Ring \in Seq(Cells) /\ Len(Ring) = qlen
      BY <1>1, <2>1, RingIs, RingPlaces, ZenonT(30) DEF IsRing
    <2>3. Ring[1] = buf[recvx] /\ Ring # << >>
      BY <1>1, <2>1, RingIs, RingDrops, ZenonT(30)
    <2>4. ASSUME NEW n \in 1 .. qlen PROVE Ring[n] \in Messages
      <3>1. received \in Seq(Cells)
        BY <1>0 DEF Cells
      <3>2. accepted[Len(received) + n] = Ring[n]
        BY <1>0, <1>1, <2>2, <3>1
      <3>3. Len(received) + n \in 1 .. Len(accepted)
        BY <1>0, <1>1, <2>2, <3>1
      <3> QED
        BY <1>0, <3>2, <3>3
    <2>5. Ring \in Seq(Messages)
      BY <2>2, <2>4
    <2> QED
      BY <1>3, <2>1, <2>2, <2>3, <2>4, <2>5
  <1> QED
    BY <1>2, <1>3

(* A sender that was not served yet offers a message of its own.           *)
LEMMA Offered ==
    ASSUME ChanBooks, NEW t \in Threads,
           \/ pc[t].op \in Sending /\ pc[t].at = "lock"
           \/ t \in Range(sendq)
    PROVE  /\ slot[t] = Message(t) /\ slot[t] \in Messages
           /\ slot[t] \notin Range(accepted)
  <1>1. SendBooks(t) /\ TypeOK
    BY Facts1
  <1>2. slot[t] = Message(t) /\ ~Taken(t)
    BY <1>1 DEF SendBooks, Unlocked
  <1>3. Message(t) \in Messages
    BY <1>1 DEF Message, Messages, TypeOK
  <1> QED
    BY <1>2, <1>3 DEF Taken

(* The ring keeps its type,                                                *)
LEMMA RingTypeKept ==
    ASSUME ChanBooks, NEW t \in Threads,
           Step(t) \/ Exit(t) \/ \E op \in Ops[t] : Begin(t, op)
    PROVE  RingType'
  <1>0. /\ PlaceType /\ RingType /\ ThreadType /\ SendBooks(t)
    BY Facts1, TypeParts
  <1>1. ASSUME NEW op \in Ops[t], Begin(t, op) PROVE RingType'
    BY <1>0, ChannelAssumption, <1>1
       DEF Begin, shared, ring, waiters, history, RingType
  <1>2. ASSUME TrySendProbe(t) PROVE RingType'
    BY <1>0, ChannelAssumption, <1>2
       DEF TrySendProbe, shared, ring, waiters, history, RingType
  <1>3. ASSUME TrySendSecond(t) PROVE RingType'
    BY <1>0, ChannelAssumption, <1>3
       DEF TrySendSecond, shared, ring, waiters, history, RingType
  <1>4. ASSUME TryRecvProbe(t) PROVE RingType'
    BY <1>0, ChannelAssumption, <1>4
       DEF TryRecvProbe, shared, ring, waiters, history, RingType
  <1>5. ASSUME TryRecvSecond(t) PROVE RingType'
    BY <1>0, ChannelAssumption, <1>5
       DEF TryRecvSecond, shared, ring, waiters, history, RingType
  <1>6. ASSUME TryRecvThird(t) PROVE RingType'
    BY <1>0, ChannelAssumption, <1>6
       DEF TryRecvThird, shared, ring, waiters, history, RingType
  <1>7. ASSUME Send(t), SendClosed(t) PROVE RingType'
    BY <1>0, ChannelAssumption, <1>7
       DEF Send, SendClosed, shared, ring, waiters, history, RingType
  <1>8. ASSUME Send(t), SendDirect(t) PROVE RingType'
    <2>1. slot[t] \in Messages
      BY <1>8, SendDirectDoes, Offered
    <2> QED
      BY <1>0, <1>8, <2>1 DEF Send, SendDirect, RingType, ring
  <1>9. ASSUME Send(t), SendEnqueue(t) PROVE RingType'
    <2>1. slot[t] \in Messages
      BY <1>9, SendEnqueueDoes, Offered
    <2>2. /\ qlen < qcap /\ buf' = [buf EXCEPT ![sendx] = slot[t]]
          /\ sendx' = NextSlot(sendx) /\ qlen' = qlen + 1
          /\ accepted' = Append(accepted, slot[t])
          /\ UNCHANGED <<qcap, recvx, sendq, recvq, closed, lock, received,
                         aborted>>
      BY <1>9 DEF Send, SendEnqueue
    <2>3. sendx' \in Nat /\ sendx' < qcap /\ qlen' \in 0 .. qcap
      BY <1>0, <2>2 DEF RingType, NextSlot
    <2>4. buf' \in [0 .. qcap - 1 -> Messages \cup {None}]
      BY <1>0, <2>1, <2>2 DEF RingType
    <2>5. accepted' \in Seq(Messages)
      BY <1>0, <2>1, <2>2 DEF RingType
    <2> QED
      BY <1>0, <2>2, <2>3, <2>4, <2>5 DEF RingType
  <1>10. ASSUME Send(t), SendFull(t), InCall(t, "trysend") PROVE RingType'
    BY <1>0, ChannelAssumption, <1>10
       DEF Send, SendFull, shared, ring, waiters, history, RingType
  <1>11. ASSUME Send(t), SendFull(t), ~InCall(t, "trysend") PROVE RingType'
    <2>1. /\ sendq' = Append(sendq, t)
          /\ UNCHANGED <<qcap, buf, qlen, sendx, recvx, recvq, closed, lock,
                         accepted, received, aborted>>
      BY <1>11 DEF Send, SendFull, Park, ring, history, InCall
    <2> QED
      BY <1>0, <2>1 DEF RingType
  <1>12. ASSUME Recv(t), RecvClosed(t) PROVE RingType'
    BY <1>0, ChannelAssumption, <1>12
       DEF Recv, RecvClosed, shared, ring, waiters, history, RingType
  <1>13. ASSUME Recv(t), RecvDirect(t) PROVE RingType'
    <2> DEFINE h == Head(sendq)
               got == IF qlen = 0 THEN slot[h] ELSE buf[recvx]
    <2>1. h \in Threads /\ h \in Range(sendq) /\ Tail(sendq) \in Seq(Threads)
      BY <1>0, <1>13, RecvDirectMoves, RecvDirectDoes DEF RingType
    <2>2. slot[h] \in Messages
      BY <2>1, Offered
    <2>3. got \in Messages
      BY <1>0, <1>13, <2>2, RingHolds, RecvDirectDoes
    <2>4. /\ sendq' = Tail(sendq) /\ accepted' = Append(accepted, slot[h])
          /\ received' = Append(received, got)
          /\ UNCHANGED <<qcap, qlen, recvq, closed, lock, aborted>>
          /\ \/ UNCHANGED <<buf, sendx, recvx>>
             \/ /\ qlen # 0 /\ buf' = [buf EXCEPT ![recvx] = slot[h]]
                /\ recvx' = NextSlot(recvx) /\ sendx' = NextSlot(recvx)
      BY <1>13 DEF Recv, RecvDirect, ring
    <2> HIDE DEF h, got
    <2>5. accepted' \in Seq(Messages) /\ received' \in Seq(Messages)
      BY <1>0, <2>2, <2>3, <2>4 DEF RingType
    <2>6. /\ sendx' \in Nat /\ recvx' \in Nat
          /\ qcap > 0 => sendx' < qcap /\ recvx' < qcap
      BY <1>0, <2>4, SMTT(30) DEF RingType, NextSlot
    <2>7. buf' \in [0 .. qcap - 1 -> Messages \cup {None}]
      BY <1>0, <2>2, <2>4 DEF RingType
    <2> QED
      BY <1>0, <2>1, <2>4, <2>5, <2>6, <2>7 DEF RingType, h
  <1>14. ASSUME Recv(t), RecvDequeue(t) PROVE RingType'
    <2>1. buf[recvx] \in Messages
      BY <1>14, RingHolds, RecvDequeueDoes DEF TypeOK
    <2>2. /\ qlen > 0 /\ received' = Append(received, buf[recvx])
          /\ recvx' = NextSlot(recvx) /\ qlen' = qlen - 1
          /\ UNCHANGED <<qcap, buf, sendx, sendq, recvq, closed, lock, accepted,
                         aborted>>
      BY <1>14 DEF Recv, RecvDequeue
    <2>3. /\ qlen \in Nat /\ qcap \in Nat /\ qlen <= qcap /\ recvx \in Nat
          /\ recvx < qcap
      BY <1>0, <2>2 DEF RingType
    <2>4. recvx' \in Nat /\ recvx' < qcap
      BY <2>2, <2>3 DEF NextSlot
    <2>5. qlen' \in 0 .. qcap
      BY <2>2, <2>3
    <2> QED
      BY <1>0, <2>1, <2>2, <2>4, <2>5 DEF RingType
  <1>15. ASSUME Recv(t), RecvNothing(t), InCall(t, "tryrecv") PROVE RingType'
    BY <1>0, ChannelAssumption, <1>15
       DEF Recv, RecvNothing, shared, ring, waiters, history, RingType
  <1>16. ASSUME Recv(t), RecvNothing(t), ~InCall(t, "tryrecv") PROVE RingType'
    <2>1. /\ recvq' = Append(recvq, t)
          /\ UNCHANGED <<qcap, buf, qlen, sendx, recvx, sendq, closed, lock,
                         accepted, received, aborted>>
      BY <1>16 DEF Recv, RecvNothing, Park, ring, history, InCall
    <2> QED
      BY <1>0, <2>1 DEF RingType
  <1>17. ASSUME Wake(t) PROVE RingType'
    BY <1>0, ChannelAssumption, <1>17
       DEF Wake, shared, ring, waiters, history, RingType
  <1>18. ASSUME Register(t) PROVE RingType'
    BY <1>0, ChannelAssumption, <1>18
       DEF Register, shared, ring, waiters, history, RingType
  <1>19. ASSUME Post(t) PROVE RingType'
    BY <1>0, ChannelAssumption, <1>19
       DEF Post, shared, ring, waiters, history, RingType
  <1>20. ASSUME Clear(t) PROVE RingType'
    BY <1>0, ChannelAssumption, <1>20
       DEF Clear, shared, ring, waiters, history, RingType
  <1>21. ASSUME Close(t) PROVE RingType'
    BY <1>0, ChannelAssumption, <1>21
       DEF Close, shared, ring, waiters, history, RingType
  <1>22. ASSUME Detach(t), At(t, "detachRecvq") PROVE RingType'
    <2>1. /\ recvq' = << >>
          /\ UNCHANGED <<qcap, buf, qlen, sendx, recvx, sendq, closed, lock,
                         accepted, received, aborted>>
      BY <1>22 DEF Detach, ring, history, At
    <2> QED
      BY <1>0, <2>1 DEF RingType
  <1>23. ASSUME Detach(t), At(t, "detachSendq") PROVE RingType'
    <2>1. /\ sendq' = << >>
          /\ UNCHANGED <<qcap, buf, qlen, sendx, recvx, recvq, closed, lock,
                         accepted, received, aborted>>
      BY <1>23 DEF Detach, ring, history, At
    <2> QED
      BY <1>0, <2>1 DEF RingType
  <1>24. ASSUME Cancel(t) PROVE RingType'
    BY <1>0, ChannelAssumption, <1>24
       DEF Cancel, shared, ring, waiters, history, RingType
  <1>25. ASSUME CancelDone(t), sendq # << >> PROVE RingType'
    BY <1>0, ChannelAssumption, <1>25
       DEF CancelDone, shared, ring, waiters, history, RingType
  <1>26. ASSUME CancelDone(t), sendq = << >> PROVE RingType'
    BY <1>0, ChannelAssumption, <1>26
       DEF CancelDone, shared, ring, waiters, history, RingType
  <1>27. ASSUME Exit(t) PROVE RingType'
    BY <1>0, ChannelAssumption, <1>27
       DEF Exit, shared, ring, waiters, history, RingType
  <1> QED
    BY <1>1, <1>2, <1>3, <1>4, <1>5, <1>6, <1>7, <1>8, <1>9, <1>10, <1>11,
       <1>12, <1>13, <1>14, <1>15, <1>16, <1>17, <1>18, <1>19, <1>20, <1>21,
       <1>22, <1>23, <1>24, <1>25, <1>26, <1>27
       DEF Step, Send, Recv, Detach, CancelDone

(* so do the semaphores, slots and lists,                                  *)
LEMMA ThreadTypeKept ==
    ASSUME ChanBooks, NEW t \in Threads,
           Step(t) \/ Exit(t) \/ \E op \in Ops[t] : Begin(t, op)
    PROVE  ThreadType'
  <1>0. /\ PlaceType /\ RingType /\ ThreadType /\ CallBooks(t) /\ TypeOK
    BY Facts1, TypeParts
  <1>1. ASSUME NEW op \in Ops[t], Begin(t, op) PROVE ThreadType'
    <2>1. /\ calls' = [calls EXCEPT ![t] = @ + 1]
          /\ answer' = [answer EXCEPT ![t] = "none"]
          /\ UNCHANGED <<tclosed, sema, signals>>
          /\ \/ slot' = [slot EXCEPT ![t] = <<t, calls[t] + 1>>]
             \/ slot' = [slot EXCEPT ![t] = None]
      BY <1>1 DEF Begin
    <2>2. <<t, calls[t] + 1>> \in Messages /\ "none" \in Answers
      BY <1>0 DEF ThreadType, Messages, Answers
    <2> QED
      BY <1>0, <2>1, <2>2 DEF ThreadType
  <1>2. ASSUME TrySendProbe(t) PROVE ThreadType'
    BY <1>0, ChannelAssumption, <1>2
       DEF TrySendProbe, shared, ring, waiters, history, ThreadType, Answers
  <1>3. ASSUME TrySendSecond(t) PROVE ThreadType'
    BY <1>0, ChannelAssumption, <1>3
       DEF TrySendSecond, Answer, shared, ring, waiters, history, ThreadType,
           Answers
  <1>4. ASSUME TryRecvProbe(t) PROVE ThreadType'
    BY <1>0, ChannelAssumption, <1>4
       DEF TryRecvProbe, shared, ring, waiters, history, ThreadType, Answers
  <1>5. ASSUME TryRecvSecond(t) PROVE ThreadType'
    BY <1>0, ChannelAssumption, <1>5
       DEF TryRecvSecond, Answer, shared, ring, waiters, history, ThreadType,
           Answers
  <1>6. ASSUME TryRecvThird(t) PROVE ThreadType'
    BY <1>0, ChannelAssumption, <1>6
       DEF TryRecvThird, Answer, shared, ring, waiters, history, ThreadType,
           Answers
  <1>7. ASSUME Send(t), SendClosed(t) PROVE ThreadType'
    BY <1>0, ChannelAssumption, <1>7
       DEF Send, SendClosed, Answer, shared, ring, waiters, history,
           ThreadType, Answers
  <1>8. ASSUME Send(t), SendDirect(t) PROVE ThreadType'
    BY <1>0, ChannelAssumption, <1>8
       DEF Send, SendDirect, shared, ring, waiters, history, ThreadType,
           Answers
  <1>9. ASSUME Send(t), SendEnqueue(t) PROVE ThreadType'
    BY <1>0, ChannelAssumption, <1>9
       DEF Send, SendEnqueue, Answer, shared, ring, waiters, history,
           ThreadType, Answers
  <1>10. ASSUME Send(t), SendFull(t), InCall(t, "trysend") PROVE ThreadType'
    BY <1>0, ChannelAssumption, <1>10
       DEF Send, SendFull, Answer, shared, ring, waiters, history, ThreadType,
           Answers
  <1>11. ASSUME Send(t), SendFull(t), ~InCall(t, "trysend") PROVE ThreadType'
    BY <1>0, ChannelAssumption, <1>11
       DEF Send, SendFull, Park, shared, ring, waiters, history, ThreadType,
           Answers
  <1>12. ASSUME Recv(t), RecvClosed(t) PROVE ThreadType'
    BY <1>0, ChannelAssumption, <1>12
       DEF Recv, RecvClosed, Answer, shared, ring, waiters, history,
           ThreadType, Answers
  <1>13. ASSUME Recv(t), RecvDirect(t) PROVE ThreadType'
    <2> DEFINE got == IF qlen = 0 THEN slot[Head(sendq)] ELSE buf[recvx]
    <2>1. got \in Messages
      BY <1>0, <1>13, RecvDirectDoes, RecvDirectMoves, Offered, RingHolds
    <2>2. /\ slot' = [slot EXCEPT ![t] = got]
          /\ UNCHANGED <<calls, tclosed, sema, signals, answer>>
      BY <1>13 DEF Recv, RecvDirect
    <2> HIDE DEF got
    <2> QED
      BY <1>0, <2>1, <2>2 DEF ThreadType
  <1>14. ASSUME Recv(t), RecvDequeue(t) PROVE ThreadType'
    <2>1. buf[recvx] \in Messages
      BY <1>14, RecvDequeueDoes, RingHolds
    <2>2. /\ slot' = [slot EXCEPT ![t] = buf[recvx]]
          /\ answer' = [answer EXCEPT ![t] = "got"]
          /\ UNCHANGED <<calls, tclosed, sema, signals>>
      BY <1>14 DEF Recv, RecvDequeue, Answer
    <2> QED
      BY <1>0, <2>1, <2>2 DEF ThreadType, Answers
  <1>15. ASSUME Recv(t), RecvNothing(t), InCall(t, "tryrecv")
        PROVE  ThreadType'
    BY <1>0, ChannelAssumption, <1>15
       DEF Recv, RecvNothing, Answer, shared, ring, waiters, history,
           ThreadType, Answers
  <1>16. ASSUME Recv(t), RecvNothing(t), ~InCall(t, "tryrecv")
        PROVE  ThreadType'
    BY <1>0, ChannelAssumption, <1>16
       DEF Recv, RecvNothing, Park, shared, ring, waiters, history,
           ThreadType, Answers
  <1>17. ASSUME Wake(t) PROVE ThreadType'
    BY <1>0, ChannelAssumption, <1>17
       DEF Wake, Answer, shared, ring, waiters, history, ThreadType, Answers
  <1>18. ASSUME Register(t) PROVE ThreadType'
    <2> DEFINE h == pc[t].to
    <2>1. h \in Threads /\ t \in WakersOf(h)
      BY <1>0, <1>18, RegisterDoes DEF CallBooks, Signalling, WakersOf, Callers
    <2>2. WaitBooks(h) /\ SignalBooks(h)
      BY <2>1, Facts1
    <2>3. /\ signals' = [signals EXCEPT ![h] = @ + 1]
          /\ UNCHANGED <<calls, slot, tclosed, sema, answer>>
      BY <1>18 DEF Register
    <2> QED
      BY <1>0, <2>1, <2>3 DEF ThreadType
  <1>19. ASSUME Post(t) PROVE ThreadType'
    <2> DEFINE h == pc[t].to
    <2>1. h \in Threads /\ t \in WakersOf(h)
      BY <1>0, <1>19, PostDoes DEF CallBooks, Signalling, WakersOf, Callers
    <2>2. WaitBooks(h) /\ SignalBooks(h)
      BY <2>1, Facts1
    <2>3. sema[h] = 0
      BY <2>1, <2>2 DEF WaitBooks
    <2>4. /\ sema' = [sema EXCEPT ![h] = @ + 1]
          /\ UNCHANGED <<calls, slot, tclosed, signals, answer>>
      BY <1>19 DEF Post
    <2> QED
      BY <1>0, <2>1, <2>3, <2>4 DEF ThreadType
  <1>20. ASSUME Clear(t) PROVE ThreadType'
    <2> DEFINE h == pc[t].to
    <2>1. h \in Threads /\ t \in Callers(h)
      BY <1>0, <1>20, ClearDoes DEF CallBooks, Signalling, WakersOf, Callers
    <2>2. WaitBooks(h) /\ SignalBooks(h)
      BY <2>1, Facts1
    <2>3. signals[h] # 0
      BY <2>1, <2>2, FS_EmptySet DEF SignalBooks
    <2>4. /\ signals' = [signals EXCEPT ![h] = @ - 1]
          /\ UNCHANGED <<calls, slot, tclosed, sema>>
      BY <1>20 DEF Clear
    <2>5. answer' \in [Threads -> Answers]
      <3>1. \/ answer' = answer \/ answer' = [answer EXCEPT ![t] = "sent"]
            \/ answer' = [answer EXCEPT ![t] = "got"]
        BY <1>20 DEF Clear, Answer
      <3> QED
        BY <1>0, <3>1 DEF ThreadType, Answers
    <2> HIDE DEF h
    <2>6. signals[h] \in Nat /\ signals[h] - 1 \in Nat
      BY <1>0, <2>1, <2>3 DEF ThreadType
    <2>7. signals' \in [Threads -> Nat]
      BY <1>0, <2>1, <2>4, <2>6 DEF ThreadType
    <2> QED
      BY <1>0, <2>4, <2>5, <2>7 DEF ThreadType
  <1>21. ASSUME Close(t) PROVE ThreadType'
    BY <1>0, ChannelAssumption, <1>21
       DEF Close, shared, ring, waiters, history, ThreadType, Answers
  <1>22. ASSUME Detach(t), At(t, "detachRecvq") PROVE ThreadType'
    BY <1>0, ChannelAssumption, <1>22
       DEF Detach, shared, ring, waiters, history, ThreadType, Answers
  <1>23. ASSUME Detach(t), At(t, "detachSendq") PROVE ThreadType'
    BY <1>0, ChannelAssumption, <1>23
       DEF Detach, shared, ring, waiters, history, ThreadType, Answers
  <1>24. ASSUME Cancel(t) PROVE ThreadType'
    BY <1>0, ChannelAssumption, <1>24
       DEF Cancel, shared, ring, waiters, history, ThreadType, Answers
  <1>25. ASSUME CancelDone(t), sendq # << >> PROVE ThreadType'
    BY <1>0, ChannelAssumption, <1>25
       DEF CancelDone, shared, ring, waiters, history, ThreadType, Answers
  <1>26. ASSUME CancelDone(t), sendq = << >> PROVE ThreadType'
    BY <1>0, ChannelAssumption, <1>26
       DEF CancelDone, Answer, shared, ring, waiters, history, ThreadType,
           Answers
  <1>27. ASSUME Exit(t) PROVE ThreadType'
    BY <1>0, ChannelAssumption, <1>27
       DEF Exit, shared, ring, waiters, history, ThreadType, Answers
  <1> QED
    BY <1>1, <1>2, <1>3, <1>4, <1>5, <1>6, <1>7, <1>8, <1>9, <1>10, <1>11,
       <1>12, <1>13, <1>14, <1>15, <1>16, <1>17, <1>18, <1>19, <1>20, <1>21,
       <1>22, <1>23, <1>24, <1>25, <1>26, <1>27
       DEF Step, Send, Recv, Detach, CancelDone

(* and so does everything.                                                 *)
LEMMA TypeKept ==
    ASSUME ChanBooks, NEW t \in Threads,
           Step(t) \/ Exit(t) \/ \E op \in Ops[t] : Begin(t, op),
           Observe
    PROVE  TypeOK'
  <1>1. Facts' \subseteq Sights
    BY DEF Facts
  <1>2. SeenType'
    BY <1>1, Facts1, TypeParts DEF Observe, SeenType
  <1> QED
    BY <1>2, PlaceKept, RingTypeKept, ThreadTypeKept, TypePartsNext

(* A sequence cut in two: the second part grows, or gives its head to the  *)
(* first.                                                                  *)
LEMMA CutGrows ==
    ASSUME NEW r \in Seq(Messages), NEW g \in Seq(Messages),
           NEW m \in Messages
    PROVE  Append(r \o g, m) = r \o Append(g, m)
  OBVIOUS

(* The first of what is left becomes the last of what was received.        *)
LEMMA CutMoves ==
    ASSUME NEW r \in Seq(Messages), NEW g \in Seq(Messages), g # << >>
    PROVE  r \o g = Append(r, g[1]) \o Tail(g)
  OBVIOUS

(* A step that moves no message loses none.                                *)
LEMMA ConservedSame ==
    ASSUME Conserved,
           UNCHANGED <<qcap, buf, qlen, sendx, recvx, accepted, received>>
    PROVE  Conserved'
  <1>1. Ring' = Ring
    BY RingIs
  <1> QED
    BY <1>1, Zenon DEF Conserved

(* No message is lost, duplicated or reordered.                            *)
LEMMA ConservedKept ==
    ASSUME ChanBooks, NEW t \in Threads,
           Step(t) \/ Exit(t) \/ \E op \in Ops[t] : Begin(t, op)
    PROVE  Conserved'
  <1>0. Conserved /\ TypeOK /\ NoneWaitsInVain
    BY Facts1 DEF ChanBooks
  <1>1. ASSUME NEW op \in Ops[t], Begin(t, op) PROVE Conserved'
    BY <1>0, <1>1, ConservedSame, BeginDoes
  <1>2. ASSUME TrySendProbe(t) PROVE Conserved'
    BY <1>0, <1>2, ConservedSame, TrySendProbeDoes
  <1>3. ASSUME TrySendSecond(t) PROVE Conserved'
    BY <1>0, <1>3, ConservedSame, TrySendSecondDoes
  <1>4. ASSUME TryRecvProbe(t) PROVE Conserved'
    BY <1>0, <1>4, ConservedSame, TryRecvProbeDoes
  <1>5. ASSUME TryRecvSecond(t) PROVE Conserved'
    BY <1>0, <1>5, ConservedSame, TryRecvSecondDoes
  <1>6. ASSUME TryRecvThird(t) PROVE Conserved'
    BY <1>0, <1>6, ConservedSame, TryRecvThirdDoes
  <1>7. ASSUME Send(t), SendClosed(t) PROVE Conserved'
    BY <1>0, <1>7, ConservedSame, SendClosedDoes
  <1>8. ASSUME Send(t), SendDirect(t) PROVE Conserved'
    <2> DEFINE m == slot[t]
    <2>1. qlen = 0 /\ UNCHANGED <<qcap, buf, qlen, sendx, recvx>>
      BY <1>0, <1>8, SendDirectDoes DEF NoneWaitsInVain
    <2>2. m \in Messages /\ m \notin Range(accepted)
      BY <1>8, SendDirectDoes, Offered
    <2>3. accepted' = Append(accepted, m) /\ received' = Append(received, m)
      BY <1>8, SendDirectDoes
    <2> HIDE DEF m
    <2>4. Ring = << >> /\ Ring' = << >>
      BY <1>0, <2>1, <2>3 DEF Ring, TypeOK
    <2>5. accepted = received
      BY <1>0, <2>4 DEF Conserved, TypeOK
    <2>6. accepted' = received' \o Ring'
      BY <1>0, <2>2, <2>3, <2>4, <2>5 DEF TypeOK
    <2>7. IsInjective(accepted')
      BY <1>0, <2>2, <2>3, ListGrows DEF Conserved, TypeOK
    <2> QED
      BY <1>0, <2>1, <2>6, <2>7, <2>3 DEF Conserved
  <1>9. ASSUME Send(t), SendEnqueue(t) PROVE Conserved'
    <2> DEFINE m == slot[t]
    <2>1. /\ qcap \in Nat \ {0} /\ recvx \in 0 .. qcap - 1
          /\ qlen \in 0 .. qcap - 1 /\ buf \in [0 .. qcap - 1 -> Cells]
          /\ qlen \in 0 .. qcap /\ qcap > 0 /\ sendx \in 0 .. qcap - 1
      BY <1>0, <1>9, SendEnqueueDoes, SMTT(30) DEF TypeOK, Cells
    <2>e. sendx = (recvx + qlen) % qcap
      BY <1>0, <2>1 DEF Conserved
    <2>2. m \in Messages /\ m \in Cells /\ m \notin Range(accepted)
      BY <1>9, SendEnqueueDoes, Offered DEF Cells
    <2>3. /\ accepted' = Append(accepted, m) /\ received' = received
          /\ buf' = [buf EXCEPT ![sendx] = m] /\ sendx' = NextSlot(sendx)
          /\ qlen' = qlen + 1 /\ UNCHANGED <<qcap, recvx>>
      BY <1>9, SendEnqueueDoes
    <2> HIDE DEF m
    <2>4. Ring' = Append(Ring, m)
      <3>1. RingOf(qcap, [buf EXCEPT ![(recvx + qlen) % qcap] = m], qlen + 1,
                   recvx) = Append(RingOf(qcap, buf, qlen, recvx), m)
        <4>1. Grows(qcap, buf, qlen, recvx, m)
          BY <2>1, <2>2, RingGrows
        <4> QED
          BY <4>1 DEF Grows
      <3>2. buf' = [buf EXCEPT ![(recvx + qlen) % qcap] = m]
        BY <2>e, <2>3, Zenon
      <3> QED
        BY <2>3, <3>1, <3>2, RingIs, Zenon
    <2>5. accepted' = received' \o Ring'
      <3>1. /\ received \in Seq(Messages) /\ Ring \in Seq(Messages)
            /\ accepted = received \o Ring
        BY <1>0, RingHolds DEF Conserved, TypeOK
      <3>2. Append(received \o Ring, m) = received \o Append(Ring, m)
        BY <2>2, <3>1, CutGrows
      <3> QED
        BY <2>3, <2>4, <3>1, <3>2, Zenon
    <2>6. IsInjective(accepted')
      BY <1>0, <2>2, <2>3, ListGrows DEF Conserved, TypeOK
    <2>7. sendx' = (recvx' + qlen') % qcap'
      <3> DEFINE p == (recvx + (qlen + 1)) % qcap
      <3>1. qlen + 1 \in 0 .. qcap /\ qlen \in 0 .. qcap
        BY <2>1
      <3>2. p = IF recvx + (qlen + 1) < qcap THEN recvx + (qlen + 1)
                                             ELSE recvx + (qlen + 1) - qcap
        BY <2>1, <3>1, Wraps
      <3>3. sendx = IF recvx + qlen < qcap THEN recvx + qlen
                                           ELSE recvx + qlen - qcap
        BY <2>1, <2>e, <3>1, Wraps
      <3> HIDE DEF p
      <3>4. NextSlot(sendx) = p
        BY <2>1, <3>2, <3>3 DEF NextSlot
      <3> QED
        BY <2>3, <3>4 DEF p
    <2> QED
      BY <2>5, <2>6, <2>7 DEF Conserved
  <1>10. ASSUME Send(t), SendFull(t), InCall(t, "trysend") PROVE Conserved'
    BY <1>0, <1>10, ConservedSame, SendRefusedDoes
  <1>11. ASSUME Send(t), SendFull(t), ~InCall(t, "trysend") PROVE Conserved'
    BY <1>0, <1>11, ConservedSame, SendParksDoes
  <1>12. ASSUME Recv(t), RecvClosed(t) PROVE Conserved'
    BY <1>0, <1>12, ConservedSame, RecvClosedDoes
  <1>13. ASSUME Recv(t), RecvDirect(t) PROVE Conserved'
    <2> DEFINE s == Head(sendq)
               m == slot[s]
    <2>1. s \in Threads /\ s \in Range(sendq)
      BY <1>13, RecvDirectMoves
    <2>2. m \in Messages /\ m \in Cells /\ m \notin Range(accepted)
      BY <2>1, Offered DEF Cells
    <2>a. /\ qlen = qcap /\ accepted' = Append(accepted, m)
          /\ received' = Append(received, slot'[t]) /\ UNCHANGED <<qcap, qlen>>
          /\ slot'[t] = IF qlen = 0 THEN m ELSE buf[recvx]
      BY <1>0, <1>13, RecvDirectDoes DEF NoneWaitsInVain
    <2>b. /\ qlen = 0 => UNCHANGED <<buf, sendx, recvx>>
          /\ qlen # 0 => /\ buf' = [buf EXCEPT ![recvx] = m]
                         /\ recvx' = NextSlot(recvx) /\ sendx' = recvx'
      BY <1>13 DEF RecvDirect, ring
    <2> HIDE DEF m
    <2>c. CASE qlen = 0
      <3>1. UNCHANGED <<qcap, buf, qlen, sendx, recvx>>
        BY <2>a, <2>b, <2>c
      <3>3. accepted' = Append(accepted, m) /\ received' = Append(received, m)
        BY <2>a, <2>c
      <3>4. Ring = << >> /\ Ring' = << >>
        BY <1>0, <2>c, <3>1 DEF Ring, TypeOK
      <3>5. accepted = received
        BY <1>0, <3>4 DEF Conserved, TypeOK
      <3>6. accepted' = received' \o Ring'
        BY <1>0, <2>2, <3>3, <3>4, <3>5 DEF TypeOK
      <3>7. IsInjective(accepted')
        BY <1>0, <2>2, <3>3, ListGrows DEF Conserved, TypeOK
      <3> QED
        BY <1>0, <3>1, <3>6, <3>7 DEF Conserved
    <2>d. CASE qlen # 0
      <3> DEFINE g == buf[recvx]
      <3>1. /\ qcap \in Nat \ {0} /\ recvx \in 0 .. qcap - 1
            /\ qlen \in 1 .. qcap /\ buf \in [0 .. qcap - 1 -> Cells]
            /\ qcap - 1 \in 0 .. qcap - 1 /\ qcap - 1 + 1 = qcap
            /\ qcap \in 0 .. qcap
        BY <1>0, <2>a, <2>d DEF TypeOK, Cells
      <3>2. /\ received' = Append(received, g) /\ g = Ring[1] /\ Ring # << >>
            /\ Ring \in Seq(Messages) /\ g \in Messages
        BY <2>a, <2>d, RingHolds
      <3> DEFINE z == Succ(qcap, recvx)
      <3>3. recvx' = z /\ sendx' = z /\ buf' = [buf EXCEPT ![recvx] = m]
        BY <2>b, <2>d DEF NextSlot, Succ
      <3>4. /\ RingOf(qcap, buf, qlen - 1, z) = Tail(Ring)
            /\ (z + (qcap - 1)) % qcap = recvx /\ z \in 0 .. qcap - 1
        BY <3>1, RingDrops, RingIs
      <3> HIDE DEF z, g
      <3>5. RingOf(qcap, [buf EXCEPT ![(z + (qcap - 1)) % qcap] = m],
                   qcap - 1 + 1, z) = Append(RingOf(qcap, buf, qcap - 1, z), m)
        <4>1. Grows(qcap, buf, qcap - 1, z, m)
          BY <2>2, <3>1, <3>4, RingGrows
        <4> QED
          BY <4>1 DEF Grows
      <3>6. Ring' = Append(Tail(Ring), m)
        BY <2>a, <3>1, <3>3, <3>4, <3>5, RingIs, Zenon
      <3>7. Tail(Ring) \in Seq(Messages) /\ Append(received, g) \in Seq(Messages)
        BY <1>0, <3>2 DEF TypeOK
      <3>8. accepted = Append(received, g) \o Tail(Ring)
        BY <1>0, <3>2, CutMoves DEF Conserved, TypeOK
      <3>9. accepted' = received' \o Ring'
        <4>1. Append(Append(received, g) \o Tail(Ring), m) =
                 Append(received, g) \o Append(Tail(Ring), m)
          BY <2>2, <3>7, CutGrows
        <4> QED
          BY <2>a, <3>2, <3>6, <3>8, <4>1, Zenon
      <3>10. IsInjective(accepted')
        BY <1>0, <2>2, <2>a, ListGrows DEF Conserved, TypeOK
      <3>11. sendx' = (recvx' + qlen') % qcap'
        <4>1. (z + qcap) % qcap = IF z + qcap < qcap THEN z + qcap
                                                     ELSE z + qcap - qcap
          BY <3>1, <3>4, Wraps
        <4>2. ~(z + qcap < qcap) /\ z + qcap - qcap = z
          BY <3>1, <3>4
        <4>3. (z + qcap) % qcap = z
          BY <4>1, <4>2, Zenon
        <4> QED
          BY <2>a, <3>3, <4>3, Zenon
      <3> QED
        BY <3>9, <3>10, <3>11 DEF Conserved
    <2> QED
      BY <2>c, <2>d
  <1>14. ASSUME Recv(t), RecvDequeue(t) PROVE Conserved'
    <2> DEFINE g == buf[recvx]
               z == Succ(qcap, recvx)
    <2>1. /\ qcap \in Nat \ {0} /\ recvx \in 0 .. qcap - 1
          /\ qlen \in 1 .. qcap /\ buf \in [0 .. qcap - 1 -> Cells]
          /\ sendx = (recvx + qlen) % qcap /\ qlen # 0 /\ qcap \in 0 .. qcap
      <3>1. qlen > 0
        BY <1>14, RecvDequeueDoes
      <3>2. /\ qcap \in Nat /\ qlen \in 0 .. qcap /\ recvx \in Nat
            /\ qcap > 0 => recvx < qcap
            /\ buf \in [0 .. qcap - 1 -> Cells]
        BY <1>0 DEF TypeOK, Cells
      <3>3. qcap > 0 => sendx = (recvx + qlen) % qcap
        BY <1>0 DEF Conserved
      <3> QED
        BY <3>1, <3>2, <3>3
    <2>2. /\ received' = Append(received, g) /\ recvx' = z /\ qlen' = qlen - 1
          /\ UNCHANGED <<qcap, buf, sendx, accepted>>
      BY <1>14, RecvDequeueDoes DEF NextSlot, Succ
    <2>3. g = Ring[1] /\ Ring # << >> /\ Ring \in Seq(Messages)
      BY <2>1, RingHolds
    <2>4. /\ RingOf(qcap, buf, qlen - 1, z) = Tail(Ring)
          /\ qlen < qcap => (z + (qlen - 1)) % qcap = (recvx + qlen) % qcap
          /\ (z + (qcap - 1)) % qcap = recvx /\ z \in 0 .. qcap - 1
      BY <2>1, RingDrops, RingIs, ZenonT(30)
    <2> HIDE DEF z, g
    <2>5. Ring' = Tail(Ring)
      BY <2>2, <2>4, RingIs, Zenon
    <2>6. accepted' = received' \o Ring'
      BY <1>0, <2>2, <2>3, <2>5, CutMoves DEF Conserved, TypeOK
    <2>7. sendx' = (recvx' + qlen') % qcap'
      <3>1. CASE qlen < qcap
        BY <2>1, <2>2, <2>4, <3>1, Zenon
      <3>2. CASE qlen = qcap
        <4>1. (recvx + qcap) % qcap = IF recvx + qcap < qcap THEN recvx + qcap
                                                ELSE recvx + qcap - qcap
          BY <2>1, Wraps
        <4>2. ~(recvx + qcap < qcap) /\ recvx + qcap - qcap = recvx
          BY <2>1
        <4>3. (recvx + qcap) % qcap = recvx
          BY <4>1, <4>2, Zenon
        <4> QED
          BY <2>1, <2>2, <2>4, <3>2, <4>3, Zenon
      <3>3. qlen < qcap \/ qlen = qcap
        BY <2>1
      <3> QED
        BY <3>1, <3>2, <3>3
    <2> QED
      BY <1>0, <2>2, <2>6, <2>7 DEF Conserved
  <1>15. ASSUME Recv(t), RecvNothing(t), InCall(t, "tryrecv") PROVE Conserved'
    BY <1>0, <1>15, ConservedSame, RecvRefusedDoes
  <1>16. ASSUME Recv(t), RecvNothing(t), ~InCall(t, "tryrecv")
        PROVE  Conserved'
    BY <1>0, <1>16, ConservedSame, RecvParksDoes
  <1>17. ASSUME Wake(t) PROVE Conserved'
    BY <1>0, <1>17, ConservedSame, WakeDoes
  <1>18. ASSUME Register(t) PROVE Conserved'
    BY <1>0, <1>18, ConservedSame, RegisterDoes
  <1>19. ASSUME Post(t) PROVE Conserved'
    BY <1>0, <1>19, ConservedSame, PostDoes
  <1>20. ASSUME Clear(t) PROVE Conserved'
    BY <1>0, <1>20, ConservedSame, ClearDoes
  <1>21. ASSUME Close(t) PROVE Conserved'
    BY <1>0, <1>21, ConservedSame, CloseDoes
  <1>22. ASSUME Detach(t), At(t, "detachRecvq") PROVE Conserved'
    BY <1>0, <1>22, ConservedSame, DetachRecvDoes
  <1>23. ASSUME Detach(t), At(t, "detachSendq") PROVE Conserved'
    BY <1>0, <1>23, ConservedSame, DetachSendDoes
  <1>24. ASSUME Cancel(t) PROVE Conserved'
    BY <1>0, <1>24, ConservedSame, CancelDoes
  <1>25. ASSUME CancelDone(t), sendq # << >> PROVE Conserved'
    BY <1>0, <1>25, ConservedSame, CancelGoesOnDoes
  <1>26. ASSUME CancelDone(t), sendq = << >> PROVE Conserved'
    BY <1>0, <1>26, ConservedSame, CancelEndsDoes
  <1>27. ASSUME Exit(t) PROVE Conserved'
    BY <1>0, <1>27, ConservedSame, ExitDoes
  <1> QED
    BY <1>1, <1>2, <1>3, <1>4, <1>5, <1>6, <1>7, <1>8, <1>9, <1>10, <1>11,
       <1>12, <1>13, <1>14, <1>15, <1>16, <1>17, <1>18, <1>19, <1>20, <1>21,
       <1>22, <1>23, <1>24, <1>25, <1>26, <1>27
       DEF Step, Send, Recv, Detach, CancelDone

(* Nothing about the thread changes.                                       *)
Same(u) ==
    /\ calls'[u] = calls[u] /\ slot'[u] = slot[u] /\ tclosed'[u] = tclosed[u]
    /\ pc'[u] = pc[u] /\ answer'[u] = answer[u]
    /\ Called(u)' <=> Called(u)
    /\ u \in Range(sendq)' <=> u \in Range(sendq)
    /\ u \in Range(recvq)' <=> u \in Range(recvq)
    /\ u \in Range(Rest)' <=> u \in Range(Rest)
Elsewhere(t, u) == u # t /\ (pc'[t].at = "register" => u # pc'[t].to)
(* A step touches the thread that takes it and the one it calls.          *)
LEMMA Untouched ==
    ASSUME ChanBooks, NEW t \in Threads, NEW u \in Threads,
           Step(t) \/ Exit(t) \/ \E op \in Ops[t] : Begin(t, op),
           Elsewhere(t, u)
    PROVE  Detach(t) \/ Same(u)
  <1>0. Elsewhere(t, u)
    OBVIOUS
  <1>1. ASSUME NEW op \in Ops[t], Begin(t, op) PROVE Detach(t) \/ Same(u)
    <2>1. Quiet
      BY <1>1, QuietMoves DEF QuietStep
    <2>2. u # t
      BY <1>0 DEF Elsewhere
    <2>3. /\ calls'[u] = calls[u] /\ pc'[u] = pc[u] /\ answer'[u] = answer[u]
          /\ sema'[u] = sema[u]
      <3>1. Others(t) /\ sema' = sema
        BY <1>1, BeginDoes, Zenon
      <3> QED
        BY <2>2, <3>1 DEF Others
    <2>4. slot'[u] = slot[u]
      BY <1>1, <2>2, BeginDoes, ZenonT(30)
    <2>5. tclosed'[u] = tclosed[u]
      BY <1>1, <2>2, BeginDoes, Zenon
    <2> QED
      BY <2>1, <2>2, <2>3, <2>4, <2>5
         DEF Same, Called, Quiet, Lists, WakersSame
  <1>2. ASSUME TrySendProbe(t) PROVE Detach(t) \/ Same(u)
    <2>1. Quiet
      BY <1>2, QuietMoves DEF QuietStep
    <2>3. /\ calls'[u] = calls[u] /\ slot'[u] = slot[u]
          /\ tclosed'[u] = tclosed[u] /\ pc'[u] = pc[u]
          /\ answer'[u] = answer[u] /\ sema'[u] = sema[u]
      BY <1>0, <1>2, TrySendProbeDoes DEF Others, Elsewhere
    <2> QED
      BY <2>1, <2>3 DEF Same, Called, Quiet, Lists, WakersSame
  <1>3. ASSUME TrySendSecond(t) PROVE Detach(t) \/ Same(u)
    <2>1. Quiet
      BY <1>3, QuietMoves DEF QuietStep
    <2>3. /\ calls'[u] = calls[u] /\ slot'[u] = slot[u]
          /\ tclosed'[u] = tclosed[u] /\ pc'[u] = pc[u]
          /\ answer'[u] = answer[u] /\ sema'[u] = sema[u]
      BY <1>0, <1>3, TrySendSecondDoes DEF Others, Elsewhere
    <2> QED
      BY <2>1, <2>3 DEF Same, Called, Quiet, Lists, WakersSame
  <1>4. ASSUME TryRecvProbe(t) PROVE Detach(t) \/ Same(u)
    <2>1. Quiet
      BY <1>4, QuietMoves DEF QuietStep
    <2>3. /\ calls'[u] = calls[u] /\ slot'[u] = slot[u]
          /\ tclosed'[u] = tclosed[u] /\ pc'[u] = pc[u]
          /\ answer'[u] = answer[u] /\ sema'[u] = sema[u]
      BY <1>0, <1>4, TryRecvProbeDoes DEF Others, Elsewhere
    <2> QED
      BY <2>1, <2>3 DEF Same, Called, Quiet, Lists, WakersSame
  <1>5. ASSUME TryRecvSecond(t) PROVE Detach(t) \/ Same(u)
    <2>1. Quiet
      BY <1>5, QuietMoves DEF QuietStep
    <2>3. /\ calls'[u] = calls[u] /\ slot'[u] = slot[u]
          /\ tclosed'[u] = tclosed[u] /\ pc'[u] = pc[u]
          /\ answer'[u] = answer[u] /\ sema'[u] = sema[u]
      BY <1>0, <1>5, TryRecvSecondDoes DEF Others, Elsewhere
    <2> QED
      BY <2>1, <2>3 DEF Same, Called, Quiet, Lists, WakersSame
  <1>6. ASSUME TryRecvThird(t) PROVE Detach(t) \/ Same(u)
    <2>1. Quiet
      BY <1>6, QuietMoves DEF QuietStep
    <2>3. /\ calls'[u] = calls[u] /\ slot'[u] = slot[u]
          /\ tclosed'[u] = tclosed[u] /\ pc'[u] = pc[u]
          /\ answer'[u] = answer[u] /\ sema'[u] = sema[u]
      BY <1>0, <1>6, TryRecvThirdDoes DEF Others, Elsewhere
    <2> QED
      BY <2>1, <2>3 DEF Same, Called, Quiet, Lists, WakersSame
  <1>7. ASSUME Send(t), SendClosed(t) PROVE Detach(t) \/ Same(u)
    <2>1. Quiet
      BY <1>7, QuietMoves DEF QuietStep
    <2>3. /\ calls'[u] = calls[u] /\ slot'[u] = slot[u]
          /\ tclosed'[u] = tclosed[u] /\ pc'[u] = pc[u]
          /\ answer'[u] = answer[u] /\ sema'[u] = sema[u]
      BY <1>0, <1>7, SendClosedDoes DEF Others, Elsewhere
    <2> QED
      BY <2>1, <2>3 DEF Same, Called, Quiet, Lists, WakersSame
  <1>8. ASSUME Send(t), SendDirect(t) PROVE Detach(t) \/ Same(u)
    <2>1. /\ Head(recvq) \in Threads /\ Head(recvq) \in Range(recvq)
          /\ Lists(Range(sendq), Range(recvq) \ {Head(recvq)}, Range(Rest))
          /\ WakerOf(t, Head(recvq)) /\ CallersSame
      BY <1>8, SendDirectMoves
    <2>2. u # Head(recvq)
      BY <1>0, <1>8, <2>1, SendDirectDoes DEF Elsewhere, Calls
    <2>3. /\ calls'[u] = calls[u] /\ slot'[u] = slot[u]
          /\ tclosed'[u] = tclosed[u] /\ pc'[u] = pc[u]
          /\ answer'[u] = answer[u] /\ sema'[u] = sema[u]
      BY <1>0, <1>8, <2>1, <2>2, SendDirectDoes DEF Others, Elsewhere
    <2> QED
      BY <2>1, <2>2, <2>3 DEF Same, Called, Lists, WakersSame, WakerOf
  <1>9. ASSUME Send(t), SendEnqueue(t) PROVE Detach(t) \/ Same(u)
    <2>1. Quiet
      BY <1>9, QuietMoves DEF QuietStep
    <2>3. /\ calls'[u] = calls[u] /\ slot'[u] = slot[u]
          /\ tclosed'[u] = tclosed[u] /\ pc'[u] = pc[u]
          /\ answer'[u] = answer[u] /\ sema'[u] = sema[u]
      BY <1>0, <1>9, SendEnqueueDoes DEF Others, Elsewhere
    <2> QED
      BY <2>1, <2>3 DEF Same, Called, Quiet, Lists, WakersSame
  <1>10. ASSUME Send(t), SendFull(t), InCall(t, "trysend")
        PROVE  Detach(t) \/ Same(u)
    <2>1. Quiet
      BY <1>10, QuietMoves DEF QuietStep
    <2>3. /\ calls'[u] = calls[u] /\ slot'[u] = slot[u]
          /\ tclosed'[u] = tclosed[u] /\ pc'[u] = pc[u]
          /\ answer'[u] = answer[u] /\ sema'[u] = sema[u]
      BY <1>0, <1>10, SendRefusedDoes DEF Others, Elsewhere
    <2> QED
      BY <2>1, <2>3 DEF Same, Called, Quiet, Lists, WakersSame
  <1>11. ASSUME Send(t), SendFull(t), ~InCall(t, "trysend")
        PROVE  Detach(t) \/ Same(u)
    <2>1. /\ Lists(Range(sendq) \cup {t}, Range(recvq), Range(Rest))
          /\ WakersSame /\ CallersSame
      BY <1>11, SendParksMoves
    <2>2. u # t
      BY <1>0 DEF Elsewhere
    <2>3. /\ calls'[u] = calls[u] /\ pc'[u] = pc[u] /\ answer'[u] = answer[u]
          /\ sema'[u] = sema[u]
      <3>1. Others(t) /\ sema' = sema
        BY <1>11, SendParksDoes, Zenon
      <3> QED
        BY <2>2, <3>1 DEF Others
    <2>4. slot'[u] = slot[u]
      BY <1>11, <2>2, SendParksDoes, Zenon
    <2>5. tclosed'[u] = tclosed[u]
      BY <1>11, <2>2, SendParksDoes, Zenon
    <2> QED
      BY <2>1, <2>2, <2>3, <2>4, <2>5
         DEF Same, Called, Lists, WakersSame, WakerOf
  <1>12. ASSUME Recv(t), RecvClosed(t) PROVE Detach(t) \/ Same(u)
    <2>1. Quiet
      BY <1>12, QuietMoves DEF QuietStep
    <2>3. /\ calls'[u] = calls[u] /\ slot'[u] = slot[u]
          /\ tclosed'[u] = tclosed[u] /\ pc'[u] = pc[u]
          /\ answer'[u] = answer[u] /\ sema'[u] = sema[u]
      BY <1>0, <1>12, RecvClosedDoes DEF Others, Elsewhere
    <2> QED
      BY <2>1, <2>3 DEF Same, Called, Quiet, Lists, WakersSame
  <1>13. ASSUME Recv(t), RecvDirect(t) PROVE Detach(t) \/ Same(u)
    <2>1. /\ Head(sendq) \in Threads /\ Head(sendq) \in Range(sendq)
          /\ Lists(Range(sendq) \ {Head(sendq)}, Range(recvq), Range(Rest))
          /\ WakerOf(t, Head(sendq)) /\ CallersSame
      BY <1>13, RecvDirectMoves
    <2>2. u # Head(sendq)
      BY <1>0, <1>13, <2>1, RecvDirectDoes DEF Elsewhere, Calls
    <2>3. /\ calls'[u] = calls[u] /\ slot'[u] = slot[u]
          /\ tclosed'[u] = tclosed[u] /\ pc'[u] = pc[u]
          /\ answer'[u] = answer[u] /\ sema'[u] = sema[u]
      BY <1>0, <1>13, <2>1, <2>2, RecvDirectDoes DEF Others, Elsewhere
    <2> QED
      BY <2>1, <2>2, <2>3 DEF Same, Called, Lists, WakersSame, WakerOf
  <1>14. ASSUME Recv(t), RecvDequeue(t) PROVE Detach(t) \/ Same(u)
    <2>1. Quiet
      BY <1>14, QuietMoves DEF QuietStep
    <2>3. /\ calls'[u] = calls[u] /\ slot'[u] = slot[u]
          /\ tclosed'[u] = tclosed[u] /\ pc'[u] = pc[u]
          /\ answer'[u] = answer[u] /\ sema'[u] = sema[u]
      BY <1>0, <1>14, RecvDequeueDoes DEF Others, Elsewhere
    <2> QED
      BY <2>1, <2>3 DEF Same, Called, Quiet, Lists, WakersSame
  <1>15. ASSUME Recv(t), RecvNothing(t), InCall(t, "tryrecv")
        PROVE  Detach(t) \/ Same(u)
    <2>1. Quiet
      BY <1>15, QuietMoves DEF QuietStep
    <2>3. /\ calls'[u] = calls[u] /\ slot'[u] = slot[u]
          /\ tclosed'[u] = tclosed[u] /\ pc'[u] = pc[u]
          /\ answer'[u] = answer[u] /\ sema'[u] = sema[u]
      BY <1>0, <1>15, RecvRefusedDoes DEF Others, Elsewhere
    <2> QED
      BY <2>1, <2>3 DEF Same, Called, Quiet, Lists, WakersSame
  <1>16. ASSUME Recv(t), RecvNothing(t), ~InCall(t, "tryrecv")
        PROVE  Detach(t) \/ Same(u)
    <2>1. /\ Lists(Range(sendq), Range(recvq) \cup {t}, Range(Rest))
          /\ WakersSame /\ CallersSame
      BY <1>16, RecvParksMoves
    <2>2. u # t
      BY <1>0 DEF Elsewhere
    <2>3. /\ calls'[u] = calls[u] /\ pc'[u] = pc[u] /\ answer'[u] = answer[u]
          /\ sema'[u] = sema[u]
      <3>1. Others(t) /\ sema' = sema
        BY <1>16, RecvParksDoes, Zenon
      <3> QED
        BY <2>2, <3>1 DEF Others
    <2>4. slot'[u] = slot[u]
      BY <1>16, <2>2, RecvParksDoes, Zenon
    <2>5. tclosed'[u] = tclosed[u]
      BY <1>16, <2>2, RecvParksDoes, Zenon
    <2> QED
      BY <2>1, <2>2, <2>3, <2>4, <2>5
         DEF Same, Called, Lists, WakersSame, WakerOf
  <1>17. ASSUME Wake(t) PROVE Detach(t) \/ Same(u)
    <2>1. Quiet
      BY <1>17, QuietMoves DEF QuietStep
    <2>3. /\ calls'[u] = calls[u] /\ slot'[u] = slot[u]
          /\ tclosed'[u] = tclosed[u] /\ pc'[u] = pc[u]
          /\ answer'[u] = answer[u] /\ sema'[u] = sema[u]
      BY <1>0, <1>17, WakeDoes DEF Others, Elsewhere
    <2> QED
      BY <2>1, <2>3 DEF Same, Called, Quiet, Lists, WakersSame
  <1>18. ASSUME Register(t) PROVE Detach(t) \/ Same(u)
    <2>1. /\ Lists(Range(sendq), Range(recvq), Range(Rest)) /\ WakersSame
          /\ \A v \in Threads : Callers(v)' =
                IF v = pc[t].to THEN Callers(v) \cup {t} ELSE Callers(v)
      BY <1>18, SignalMoves
    <2>3. /\ calls'[u] = calls[u] /\ slot'[u] = slot[u]
          /\ tclosed'[u] = tclosed[u] /\ pc'[u] = pc[u]
          /\ answer'[u] = answer[u] /\ sema'[u] = sema[u]
      BY <1>0, <1>18, RegisterDoes DEF Others, Elsewhere
    <2> QED
      BY <2>1, <2>3 DEF Same, Called, Lists, WakersSame, WakerOf
  <1>19. ASSUME Post(t) PROVE Detach(t) \/ Same(u)
    <2>1. /\ Lists(Range(sendq), Range(recvq), Range(Rest)) /\ CallersSame
          /\ \A v \in Threads : WakersOf(v)' =
                IF v = pc[t].to THEN WakersOf(v) \ {t} ELSE WakersOf(v)
      BY <1>19, SignalMoves
    <2>3. /\ calls'[u] = calls[u] /\ slot'[u] = slot[u]
          /\ tclosed'[u] = tclosed[u] /\ pc'[u] = pc[u]
          /\ answer'[u] = answer[u]
      BY <1>0, <1>19, PostDoes DEF Others, Elsewhere
    <2>4. Called(u)' <=> Called(u)
      <3> DEFINE h == pc[t].to
      <3>1. CASE u # h
        BY <1>19, <2>1, <3>1, PostDoes DEF Called
      <3>2. CASE u = h
        <4>1. t \in WakersOf(u) /\ WaitBooks(u)
          BY <1>19, <3>2, PostDoes, Facts1 DEF WakersOf
        <4>2. Called(u) /\ sema[u] = 0
          BY <4>1 DEF Called, WaitBooks
        <4>3. sema'[u] = 1
          BY <1>19, <3>2, <4>2, PostDoes
        <4> QED
          BY <4>2, <4>3 DEF Called
      <3> QED
        BY <3>1, <3>2
    <2> QED
      BY <2>1, <2>3, <2>4 DEF Same, Lists
  <1>20. ASSUME Clear(t) PROVE Detach(t) \/ Same(u)
    <2>1. /\ Lists(Range(sendq), Range(recvq), Range(Rest)) /\ WakersSame
          /\ \A v \in Threads : Callers(v)' =
                IF v = pc[t].to THEN Callers(v) \ {t} ELSE Callers(v)
      BY <1>20, SignalMoves
    <2>3. /\ calls'[u] = calls[u] /\ slot'[u] = slot[u]
          /\ tclosed'[u] = tclosed[u] /\ pc'[u] = pc[u]
          /\ answer'[u] = answer[u] /\ sema'[u] = sema[u]
      BY <1>0, <1>20, ClearDoes DEF Others, Elsewhere
    <2> QED
      BY <2>1, <2>3 DEF Same, Called, Lists, WakersSame, WakerOf
  <1>21. ASSUME Close(t) PROVE Detach(t) \/ Same(u)
    <2>1. /\ Lists(Range(sendq), Range(recvq), {}) /\ WakersSame
          /\ Range(Rest) = {}
      BY <1>21, CloseMoves, CloseDoes, EmptyList DEF Rest, At, Close, Cancel
    <2>3. /\ calls'[u] = calls[u] /\ slot'[u] = slot[u]
          /\ tclosed'[u] = tclosed[u] /\ pc'[u] = pc[u]
          /\ answer'[u] = answer[u] /\ sema'[u] = sema[u]
      BY <1>0, <1>21, CloseDoes DEF Others, Elsewhere
    <2> QED
      BY <2>1, <2>3 DEF Same, Called, Lists, WakersSame
  <1>22. ASSUME Detach(t), At(t, "detachRecvq") PROVE Detach(t) \/ Same(u)
    BY <1>22
  <1>23. ASSUME Detach(t), At(t, "detachSendq") PROVE Detach(t) \/ Same(u)
    BY <1>23
  <1>24. ASSUME Cancel(t) PROVE Detach(t) \/ Same(u)
    <2>1. /\ Rest = pc[t].rest /\ Head(Rest) \in Threads
          /\ Head(Rest) \in Range(Rest) /\ WakerOf(t, Head(Rest))
          /\ Lists(Range(sendq), Range(recvq), Range(Rest) \ {Head(Rest)})
          /\ CallersSame
      BY <1>24, CloseMoves DEF At, Cancel
    <2>2. u # Head(Rest)
      BY <1>0, <1>24, <2>1, CancelDoes DEF Elsewhere, Calls
    <2>3. /\ calls'[u] = calls[u] /\ slot'[u] = slot[u]
          /\ tclosed'[u] = tclosed[u] /\ pc'[u] = pc[u]
          /\ answer'[u] = answer[u] /\ sema'[u] = sema[u]
      BY <1>0, <1>24, <2>1, <2>2, CancelDoes, ZenonT(30) DEF Others, Elsewhere
    <2> QED
      BY <2>1, <2>2, <2>3 DEF Same, Called, Lists, WakersSame, WakerOf
  <1>25. ASSUME CancelDone(t), sendq # << >> PROVE Detach(t) \/ Same(u)
    <2>1. /\ Lists(Range(sendq), Range(recvq), {}) /\ WakersSame
          /\ Range(Rest) = {}
      BY <1>25, CloseMoves DEF At, CancelDone, Cancel
    <2>3. /\ calls'[u] = calls[u] /\ slot'[u] = slot[u]
          /\ tclosed'[u] = tclosed[u] /\ pc'[u] = pc[u]
          /\ answer'[u] = answer[u] /\ sema'[u] = sema[u]
      BY <1>0, <1>25, CancelGoesOnDoes DEF Others, Elsewhere
    <2> QED
      BY <2>1, <2>3 DEF Same, Called, Lists, WakersSame
  <1>26. ASSUME CancelDone(t), sendq = << >> PROVE Detach(t) \/ Same(u)
    <2>1. /\ Lists(Range(sendq), Range(recvq), {}) /\ WakersSame
          /\ Range(Rest) = {}
      BY <1>26, CloseMoves DEF At, CancelDone, Cancel
    <2>3. /\ calls'[u] = calls[u] /\ slot'[u] = slot[u]
          /\ tclosed'[u] = tclosed[u] /\ pc'[u] = pc[u]
          /\ answer'[u] = answer[u] /\ sema'[u] = sema[u]
      BY <1>0, <1>26, CancelEndsDoes DEF Others, Elsewhere
    <2> QED
      BY <2>1, <2>3 DEF Same, Called, Lists, WakersSame
  <1>27. ASSUME Exit(t) PROVE Detach(t) \/ Same(u)
    <2>1. Quiet
      BY <1>27, QuietMoves DEF QuietStep
    <2>3. /\ calls'[u] = calls[u] /\ slot'[u] = slot[u]
          /\ tclosed'[u] = tclosed[u] /\ pc'[u] = pc[u]
          /\ answer'[u] = answer[u] /\ sema'[u] = sema[u]
      BY <1>0, <1>27, ExitDoes DEF Others, Elsewhere
    <2> QED
      BY <2>1, <2>3 DEF Same, Called, Quiet, Lists, WakersSame
  <1> QED
    BY <1>1, <1>2, <1>3, <1>4, <1>5, <1>6, <1>7, <1>8, <1>9, <1>10, <1>11,
       <1>12, <1>13, <1>14, <1>15, <1>16, <1>17, <1>18, <1>19, <1>20, <1>21,
       <1>22, <1>23, <1>24, <1>25, <1>26, <1>27
       DEF Step, Send, Recv, Detach, CancelDone

(* Whose message the channel takes.                                        *)
Bound(u) == \A m \in Range(accepted) : m[1] = u => m[2] <= calls[u]

(* A sender's message is accepted.                                         *)
LEMMA TakenBy ==
    ASSUME TypeOK, NEW x \in Threads, NEW u \in Threads, Bound(u),
           accepted' = Append(accepted, Message(x)), calls'[u] = calls[u]
    PROVE  /\ Bound(u)'
           /\ Taken(u)' <=> Taken(u) \/ u = x
  <1>1. Message(x) \in Messages /\ accepted \in Seq(Messages) /\ calls[u] \in Nat
    BY DEF Message, Messages, TypeOK
  <1>2. Range(accepted') = Range(accepted) \cup {Message(x)}
    BY <1>1, ListGrows
  <1>3. Message(u)' = Message(u)
    BY DEF Message
  <1>4. Message(u) = Message(x) <=> u = x
    BY DEF Message
  <1>5. Taken(u)' <=> Taken(u) \/ u = x
    BY <1>2, <1>3, <1>4 DEF Taken
  <1>6. \A m \in Range(accepted') : m[1] = u => m[2] <= calls[u]
    <2> TAKE m \in Range(accepted')
    <2>1. CASE m \in Range(accepted)
      BY <2>1 DEF Bound
    <2>2. CASE m = Message(x)
      <3>1. m[1] = x /\ m[2] = calls[x]
        BY <2>2 DEF Message
      <3>2. calls[u] <= calls[u]
        BY <1>1
      <3> QED
        BY <3>1, <3>2
    <2> QED
      BY <1>2, <2>1, <2>2
  <1> QED
    BY <1>5, <1>6 DEF Bound

(* No message is accepted.                                                 *)
LEMMA TakenSame ==
    ASSUME NEW u \in Threads, Bound(u), accepted' = accepted,
           calls'[u] = calls[u]
    PROVE  Bound(u)' /\ (Taken(u)' <=> Taken(u)) /\ Message(u)' = Message(u)
  BY DEF Bound, Taken, Message

(* A sender that does not move keeps its books,                            *)
LEMMA SendSame ==
    ASSUME NEW u \in Threads, SendBooks(u), Same(u), Bound(u)',
           Taken(u)' <=> Taken(u)
    PROVE  SendBooks(u)'
  <1>1. Message(u)' = Message(u)
    BY DEF Same, Message
  <1> QED
    BY <1>1 DEF SendBooks, Same, Bound, InCall

(* A thread that is not parked waits nowhere and was not called.           *)
LEMMA Awake ==
    ASSUME NEW u \in Threads
    PROVE  /\ WaitBooks(u) /\ pc[u].at # "parked" =>
                 /\ ~Called(u) /\ u \notin Range(sendq)
                 /\ u \notin Range(recvq) /\ u \notin Range(Rest)
           /\ WaitBooks(u)' /\ pc'[u].at # "parked" =>
                 /\ ~Called(u)' /\ u \notin Range(sendq)'
                 /\ u \notin Range(recvq)' /\ u \notin Range(Rest)'
  BY DEF WaitBooks, At

(* The books of a sender that waits nowhere.                               *)
SendAwake(u) ==
    /\ Bound(u)
    /\ pc[u].op \in Sending /\ pc[u].at \in Unlocked =>
          slot[u] = Message(u) /\ ~Taken(u)
    /\ pc[u].op \in Sending /\ pc[u].at \in Signalling => Taken(u)
    /\ answer[u] = "sent" => Taken(u)
    /\ answer[u] \in {"full", "closed", "cancelled"} => ~Taken(u)

(* and so does one that is not parked.                                     *)
LEMMA SendAwakeIs ==
    ASSUME NEW u \in Threads, WaitBooks(u)', pc'[u].at # "parked",
           SendAwake(u)'
    PROVE  SendBooks(u)'
  <1>1. /\ ~Called(u)' /\ u \notin Range(sendq)' /\ u \notin Range(Rest)'
    BY Awake
  <1> QED
    BY <1>1 DEF SendBooks, SendAwake, Bound

(* The members of a list.                                                  *)
LEMMA ListIn ==
    ASSUME NEW S, NEW q \in Seq(S)
    PROVE  Range(q) \subseteq S
  BY DEF Range

(* The message of a sender.                                                *)
LEMMA SendKept ==
    ASSUME ChanBooks, NEW t \in Threads, NEW u \in Threads,
           Step(t) \/ Exit(t) \/ \E op \in Ops[t] : Begin(t, op)
    PROVE  SendBooks(u)'
  <1>0. /\ SendBooks(t) /\ SendBooks(u) /\ WaitBooks(t) /\ WaitBooks(u)
        /\ WaitBooks(t)' /\ WaitBooks(u)' /\ CallBooks(t) /\ CallBooks(u)
        /\ TypeOK /\ Bound(t) /\ Bound(u)
    BY Facts1, WaitKept DEF SendBooks, Bound
  <1>1. ASSUME NEW op \in Ops[t], Begin(t, op) PROVE SendBooks(u)'
    <2>2. u # t => Bound(u)' /\ (Taken(u)' <=> Taken(u))
      <3>1. accepted' = accepted /\ Others(t)
        BY <1>1, BeginDoes, Zenon
      <3> QED
        BY <1>0, <3>1, TakenSame DEF Others
    <2>3. CASE u # t
      <3>1. Elsewhere(t, u)
        BY <1>1, <2>3, BeginDoes DEF Elsewhere, Goes, Ends
      <3>2. Same(u)
        BY <1>1, <3>1, Untouched DEF Step, Detach, At, Begin
      <3> QED
        BY <1>0, <2>2, <2>3, <3>2, SendSame
    <2>4. CASE u = t
      <3>1. /\ accepted' = accepted /\ calls'[t] = calls[t] + 1
            /\ answer'[t] = "none" /\ pc'[t].at \in {"probe", "lock"}
            /\ pc'[t].op = op
            /\ slot'[t] = IF op \in Sending THEN <<t, calls[t] + 1>> ELSE None
        BY <1>1, BeginDoes, Zenon
      <3>2. Bound(t)' /\ ~Taken(t)' /\ Message(t)' = <<t, calls[t] + 1>>
        <4>1. calls[t] \in Nat
          BY <1>0 DEF TypeOK
        <4>2. Message(t)' = <<t, calls[t] + 1>>
          BY <3>1 DEF Message
        <4>3. \A m \in Range(accepted) : m[1] = t => m[2] \in Nat /\ m[2] <= calls[t]
          BY <1>0, ListIn, SMTT(30) DEF Bound, TypeOK, Messages
        <4>4. <<t, calls[t] + 1>> \notin Range(accepted)
          BY <4>1, <4>3
        <4>5. Bound(t)'
          BY <3>1, <4>1, <4>3 DEF Bound
        <4> QED
          BY <3>1, <4>2, <4>4, <4>5 DEF Taken
      <3>3. SendAwake(t)'
        BY <3>1, <3>2 DEF SendAwake, Unlocked, Signalling
      <3> QED
        BY <1>0, <2>4, <3>1, <3>3, SendAwakeIs
    <2> QED
      BY <2>3, <2>4
  <1>2. ASSUME TrySendProbe(t) PROVE SendBooks(u)'
    <2>1. accepted' = accepted /\ calls' = calls
      BY <1>2, TrySendProbeDoes
    <2>2. \A v \in {t, u} : /\ Bound(v)' /\ (Taken(v)' <=> Taken(v))
                            /\ Message(v)' = Message(v)
      BY <1>0, <2>1, TakenSame
    <2>3. CASE u # t
      <3>1. Elsewhere(t, u)
        BY <1>2, <2>3, TrySendProbeDoes DEF Elsewhere, Goes, Ends
      <3>2. Same(u)
        BY <1>2, <3>1, Untouched DEF Step, Detach, At, TrySendProbe
      <3> QED
        BY <1>0, <2>2, <2>3, <3>2, SendSame
    <2>4. CASE u = t
      <3>1. SendAwake(t)' /\ pc'[t].at # "parked"
        BY <1>0, <1>2, <2>2, TrySendProbeDoes, ChannelAssumption
           DEF SendAwake, SendBooks, CallBooks, At, InCall, Closing, OpNames,
               Outside, Goes, Ends, Calls, Unlocked, Signalling, Sending,
               Receiving
      <3> QED
        BY <1>0, <2>4, <3>1, SendAwakeIs
    <2> QED
      BY <2>3, <2>4
  <1>3. ASSUME TrySendSecond(t) PROVE SendBooks(u)'
    <2>1. accepted' = accepted /\ calls' = calls
      BY <1>3, TrySendSecondDoes
    <2>2. \A v \in {t, u} : /\ Bound(v)' /\ (Taken(v)' <=> Taken(v))
                            /\ Message(v)' = Message(v)
      BY <1>0, <2>1, TakenSame
    <2>3. CASE u # t
      <3>1. Elsewhere(t, u)
        BY <1>3, <2>3, TrySendSecondDoes DEF Elsewhere, Goes, Ends
      <3>2. Same(u)
        BY <1>3, <3>1, Untouched DEF Step, Detach, At, TrySendSecond
      <3> QED
        BY <1>0, <2>2, <2>3, <3>2, SendSame
    <2>4. CASE u = t
      <3>1. SendAwake(t)' /\ pc'[t].at # "parked"
        BY <1>0, <1>3, <2>2, TrySendSecondDoes, ChannelAssumption
           DEF SendAwake, SendBooks, CallBooks, At, InCall, Closing, OpNames,
               Outside, Goes, Ends, Calls, Unlocked, Signalling, Sending,
               Receiving
      <3> QED
        BY <1>0, <2>4, <3>1, SendAwakeIs
    <2> QED
      BY <2>3, <2>4
  <1>4. ASSUME TryRecvProbe(t) PROVE SendBooks(u)'
    <2>1. accepted' = accepted /\ calls' = calls
      BY <1>4, TryRecvProbeDoes
    <2>2. \A v \in {t, u} : /\ Bound(v)' /\ (Taken(v)' <=> Taken(v))
                            /\ Message(v)' = Message(v)
      BY <1>0, <2>1, TakenSame
    <2>3. CASE u # t
      <3>1. Elsewhere(t, u)
        BY <1>4, <2>3, TryRecvProbeDoes DEF Elsewhere, Goes, Ends
      <3>2. Same(u)
        BY <1>4, <3>1, Untouched DEF Step, Detach, At, TryRecvProbe
      <3> QED
        BY <1>0, <2>2, <2>3, <3>2, SendSame
    <2>4. CASE u = t
      <3>1. SendAwake(t)' /\ pc'[t].at # "parked"
        BY <1>0, <1>4, <2>2, TryRecvProbeDoes, ChannelAssumption
           DEF SendAwake, SendBooks, CallBooks, At, InCall, Closing, OpNames,
               Outside, Goes, Ends, Calls, Unlocked, Signalling, Sending,
               Receiving
      <3> QED
        BY <1>0, <2>4, <3>1, SendAwakeIs
    <2> QED
      BY <2>3, <2>4
  <1>5. ASSUME TryRecvSecond(t) PROVE SendBooks(u)'
    <2>1. accepted' = accepted /\ calls' = calls
      BY <1>5, TryRecvSecondDoes
    <2>2. \A v \in {t, u} : /\ Bound(v)' /\ (Taken(v)' <=> Taken(v))
                            /\ Message(v)' = Message(v)
      BY <1>0, <2>1, TakenSame
    <2>3. CASE u # t
      <3>1. Elsewhere(t, u)
        BY <1>5, <2>3, TryRecvSecondDoes DEF Elsewhere, Goes, Ends
      <3>2. Same(u)
        BY <1>5, <3>1, Untouched DEF Step, Detach, At, TryRecvSecond
      <3> QED
        BY <1>0, <2>2, <2>3, <3>2, SendSame
    <2>4. CASE u = t
      <3>1. SendAwake(t)' /\ pc'[t].at # "parked"
        BY <1>0, <1>5, <2>2, TryRecvSecondDoes, ChannelAssumption
           DEF SendAwake, SendBooks, CallBooks, At, InCall, Closing, OpNames,
               Outside, Goes, Ends, Calls, Unlocked, Signalling, Sending,
               Receiving
      <3> QED
        BY <1>0, <2>4, <3>1, SendAwakeIs
    <2> QED
      BY <2>3, <2>4
  <1>6. ASSUME TryRecvThird(t) PROVE SendBooks(u)'
    <2>1. accepted' = accepted /\ calls' = calls
      BY <1>6, TryRecvThirdDoes
    <2>2. \A v \in {t, u} : /\ Bound(v)' /\ (Taken(v)' <=> Taken(v))
                            /\ Message(v)' = Message(v)
      BY <1>0, <2>1, TakenSame
    <2>3. CASE u # t
      <3>1. Elsewhere(t, u)
        BY <1>6, <2>3, TryRecvThirdDoes DEF Elsewhere, Goes, Ends
      <3>2. Same(u)
        BY <1>6, <3>1, Untouched DEF Step, Detach, At, TryRecvThird
      <3> QED
        BY <1>0, <2>2, <2>3, <3>2, SendSame
    <2>4. CASE u = t
      <3>1. SendAwake(t)' /\ pc'[t].at # "parked"
        BY <1>0, <1>6, <2>2, TryRecvThirdDoes, ChannelAssumption
           DEF SendAwake, SendBooks, CallBooks, At, InCall, Closing, OpNames,
               Outside, Goes, Ends, Calls, Unlocked, Signalling, Sending,
               Receiving
      <3> QED
        BY <1>0, <2>4, <3>1, SendAwakeIs
    <2> QED
      BY <2>3, <2>4
  <1>7. ASSUME Send(t), SendClosed(t) PROVE SendBooks(u)'
    <2>1. accepted' = accepted /\ calls' = calls
      BY <1>7, SendClosedDoes
    <2>2. \A v \in {t, u} : /\ Bound(v)' /\ (Taken(v)' <=> Taken(v))
                            /\ Message(v)' = Message(v)
      BY <1>0, <2>1, TakenSame
    <2>3. CASE u # t
      <3>1. Elsewhere(t, u)
        BY <1>7, <2>3, SendClosedDoes DEF Elsewhere, Goes, Ends
      <3>2. Same(u)
        BY <1>7, <3>1, Untouched DEF Step, Detach, At, Send
      <3> QED
        BY <1>0, <2>2, <2>3, <3>2, SendSame
    <2>4. CASE u = t
      <3>1. SendAwake(t)' /\ pc'[t].at # "parked"
        BY <1>0, <1>7, <2>2, SendClosedDoes, ChannelAssumption
           DEF SendAwake, SendBooks, CallBooks, At, InCall, Closing, OpNames,
               Outside, Goes, Ends, Calls, Unlocked, Signalling, Sending,
               Receiving
      <3> QED
        BY <1>0, <2>4, <3>1, SendAwakeIs
    <2> QED
      BY <2>3, <2>4
  <1>8. ASSUME Send(t), SendDirect(t) PROVE SendBooks(u)'
    <2>1. accepted' = Append(accepted, Message(t)) /\ calls' = calls
      BY <1>8, SendDirectDoes, Offered
    <2>2. \A v \in {t, u} : Bound(v)' /\ (Taken(v)' <=> Taken(v) \/ v = t)
      BY <1>0, <2>1, TakenBy
    <2>3. CASE Elsewhere(t, u)
      <3>1. Same(u)
        BY <1>8, <2>3, Untouched DEF Step, Detach, Send, At
      <3> QED
        BY <1>0, <2>2, <2>3, <3>1, SendSame DEF Elsewhere
    <2>4. CASE u = t
      <3>1. SendAwake(t)' /\ pc'[t].at # "parked"
        BY <1>0, <1>8, <2>2, SendDirectDoes, ChannelAssumption
           DEF SendAwake, SendBooks, CallBooks, At, InCall, Closing, OpNames,
               Outside, Goes, Ends, Calls, Unlocked, Signalling, Sending,
               Receiving
      <3> QED
        BY <1>0, <2>4, <3>1, SendAwakeIs
    <2>5. CASE u # t /\ u = Head(recvq)
      <3>1. At(u, "parked") /\ InCall(u, "recv") /\ u \notin Range(sendq)
        BY <1>0, <1>8, <2>5, SendDirectMoves DEF WaitBooks
      <3>2. pc'[u] = pc[u] /\ answer'[u] = "none"
        BY <1>0, <1>8, <2>5, <3>1, SendDirectDoes DEF Others, CallBooks, At, Outside
      <3>3. u \notin Range(sendq)'
        BY <1>8, <3>1, SendDirectDoes
      <3> QED
        BY <2>2, <3>1, <3>2, <3>3
           DEF SendBooks, Bound, At, InCall, Sending, Unlocked, Signalling
    <2> QED
      BY <1>8, <2>3, <2>4, <2>5, SendDirectDoes DEF Elsewhere, Calls
  <1>9. ASSUME Send(t), SendEnqueue(t) PROVE SendBooks(u)'
    <2>1. accepted' = Append(accepted, Message(t)) /\ calls' = calls
      BY <1>9, SendEnqueueDoes, Offered
    <2>2. \A v \in {t, u} : Bound(v)' /\ (Taken(v)' <=> Taken(v) \/ v = t)
      BY <1>0, <2>1, TakenBy
    <2>3. CASE u # t
      <3>1. Elsewhere(t, u)
        BY <1>9, <2>3, SendEnqueueDoes DEF Elsewhere, Goes, Ends
      <3>2. Same(u)
        BY <1>9, <3>1, Untouched DEF Step, Detach, At, Send
      <3> QED
        BY <1>0, <2>2, <2>3, <3>2, SendSame
    <2>4. CASE u = t
      <3>1. SendAwake(t)' /\ pc'[t].at # "parked"
        BY <1>0, <1>9, <2>2, SendEnqueueDoes, ChannelAssumption
           DEF SendAwake, SendBooks, CallBooks, At, InCall, Closing, OpNames,
               Outside, Goes, Ends, Calls, Unlocked, Signalling, Sending,
               Receiving
      <3> QED
        BY <1>0, <2>4, <3>1, SendAwakeIs
    <2> QED
      BY <2>3, <2>4
  <1>10. ASSUME Send(t), SendFull(t), InCall(t, "trysend") PROVE SendBooks(u)'
    <2>1. accepted' = accepted /\ calls' = calls
      BY <1>10, SendRefusedDoes
    <2>2. \A v \in {t, u} : /\ Bound(v)' /\ (Taken(v)' <=> Taken(v))
                            /\ Message(v)' = Message(v)
      BY <1>0, <2>1, TakenSame
    <2>3. CASE u # t
      <3>1. Elsewhere(t, u)
        BY <1>10, <2>3, SendRefusedDoes DEF Elsewhere, Goes, Ends
      <3>2. Same(u)
        BY <1>10, <3>1, Untouched DEF Step, Detach, At, Send
      <3> QED
        BY <1>0, <2>2, <2>3, <3>2, SendSame
    <2>4. CASE u = t
      <3>1. SendAwake(t)' /\ pc'[t].at # "parked"
        BY <1>0, <1>10, <2>2, SendRefusedDoes, ChannelAssumption
           DEF SendAwake, SendBooks, CallBooks, At, InCall, Closing, OpNames,
               Outside, Goes, Ends, Calls, Unlocked, Signalling, Sending,
               Receiving
      <3> QED
        BY <1>0, <2>4, <3>1, SendAwakeIs
    <2> QED
      BY <2>3, <2>4
  <1>11. ASSUME Send(t), SendFull(t), ~InCall(t, "trysend")
        PROVE  SendBooks(u)'
    <2>1. accepted' = accepted /\ calls' = calls
      BY <1>11, SendParksDoes
    <2>2. \A v \in {t, u} : /\ Bound(v)' /\ (Taken(v)' <=> Taken(v))
                            /\ Message(v)' = Message(v)
      BY <1>0, <2>1, TakenSame
    <2>3. CASE u # t
      <3>1. Elsewhere(t, u)
        BY <1>11, <2>3, SendParksDoes DEF Elsewhere, Goes
      <3>2. Same(u)
        BY <1>11, <3>1, Untouched DEF Step, Detach, At, Send
      <3> QED
        BY <1>0, <2>2, <3>2, SendSame
    <2>4. CASE u = t
      <3>1. /\ t \notin Range(sendq) /\ pc'[t].at = "parked"
            /\ pc'[t].op = "send" /\ answer'[t] = "none"
        BY <1>0, <1>11, SendParksDoes, ZenonT(30)
           DEF Goes, WaitBooks, At, CallBooks, Outside
      <3>2. t \in Range(sendq)'
        BY <1>11, SendParksMoves DEF Lists
      <3>3. slot'[t] = Message(t) /\ ~Taken(t) /\ ~tclosed'[t]
        <4>1. slot'[t] = Message(t) /\ ~Taken(t)
          BY <1>0, <1>11, SendParksDoes, Offered DEF Taken, Sending
        <4> QED
          BY <1>11, <4>1, SendParksDoes, Zenon
      <3>4. ~Called(t)' /\ t \notin Range(Rest)'
        BY <1>0, <3>2 DEF WaitBooks
      <3> QED
        BY <2>2, <2>4, <3>1, <3>2, <3>3, <3>4
           DEF SendBooks, Bound, Unlocked, Signalling
    <2> QED
      BY <2>3, <2>4
  <1>12. ASSUME Recv(t), RecvClosed(t) PROVE SendBooks(u)'
    <2>1. accepted' = accepted /\ calls' = calls
      BY <1>12, RecvClosedDoes
    <2>2. \A v \in {t, u} : /\ Bound(v)' /\ (Taken(v)' <=> Taken(v))
                            /\ Message(v)' = Message(v)
      BY <1>0, <2>1, TakenSame
    <2>3. CASE u # t
      <3>1. Elsewhere(t, u)
        BY <1>12, <2>3, RecvClosedDoes DEF Elsewhere, Goes, Ends
      <3>2. Same(u)
        BY <1>12, <3>1, Untouched DEF Step, Detach, At, Recv
      <3> QED
        BY <1>0, <2>2, <2>3, <3>2, SendSame
    <2>4. CASE u = t
      <3>1. SendAwake(t)' /\ pc'[t].at # "parked"
        BY <1>0, <1>12, <2>2, RecvClosedDoes, ChannelAssumption
           DEF SendAwake, SendBooks, CallBooks, At, InCall, Closing, OpNames,
               Outside, Goes, Ends, Calls, Unlocked, Signalling, Sending,
               Receiving
      <3> QED
        BY <1>0, <2>4, <3>1, SendAwakeIs
    <2> QED
      BY <2>3, <2>4
  <1>13. ASSUME Recv(t), RecvDirect(t) PROVE SendBooks(u)'
    <2> DEFINE h == Head(sendq)
    <2>h. h \in Threads /\ h \in Range(sendq)
      BY <1>13, RecvDirectMoves
    <2>1. accepted' = Append(accepted, Message(h)) /\ calls' = calls
      BY <1>13, <2>h, RecvDirectDoes, Offered
    <2>2. \A v \in {t, u} : Bound(v)' /\ (Taken(v)' <=> Taken(v) \/ v = h)
      BY <1>0, <2>1, <2>h, TakenBy
    <2>3. CASE Elsewhere(t, u)
      <3>1. Same(u)
        BY <1>13, <2>3, Untouched DEF Step, Detach, Recv, At
      <3>2. u # h
        BY <1>13, <2>3, RecvDirectDoes DEF Elsewhere, Calls
      <3> QED
        BY <1>0, <2>2, <3>1, <3>2, SendSame
    <2>4. CASE u = t
      <3>0. t # h
        BY <1>0, <1>13, <2>h, RecvDirectDoes DEF WaitBooks, At
      <3>1. SendAwake(t)' /\ pc'[t].at # "parked"
        BY <1>0, <1>13, <2>2, <2>h, <3>0, RecvDirectDoes, ChannelAssumption
           DEF SendAwake, SendBooks, CallBooks, At, InCall, Closing, OpNames,
               Outside, Goes, Ends, Calls, Unlocked, Signalling, Sending,
               Receiving
      <3> QED
        BY <1>0, <2>4, <3>1, SendAwakeIs
    <2>5. CASE u # t /\ u = h
      <3>1. At(u, "parked") /\ InCall(u, "send") /\ ~tclosed[u]
        BY <1>0, <2>5, <2>h DEF WaitBooks, SendBooks
      <3>2. /\ pc'[u] = pc[u] /\ answer'[u] = "none" /\ tclosed'[u] = tclosed[u]
        BY <1>0, <1>13, <2>5, <3>1, RecvDirectDoes
           DEF Others, CallBooks, At, Outside
      <3>3. u \notin Range(sendq)' /\ u \notin Range(Rest)'
        BY <1>0, <1>13, <2>5, <2>h, RecvDirectMoves DEF Lists, WaitBooks
      <3> QED
        BY <2>2, <2>5, <3>1, <3>2, <3>3
           DEF SendBooks, Bound, At, InCall, Unlocked, Signalling
    <2> QED
      BY <1>13, <2>3, <2>4, <2>5, RecvDirectDoes DEF Elsewhere, Calls
  <1>14. ASSUME Recv(t), RecvDequeue(t) PROVE SendBooks(u)'
    <2>1. accepted' = accepted /\ calls' = calls
      BY <1>14, RecvDequeueDoes
    <2>2. \A v \in {t, u} : /\ Bound(v)' /\ (Taken(v)' <=> Taken(v))
                            /\ Message(v)' = Message(v)
      BY <1>0, <2>1, TakenSame
    <2>3. CASE u # t
      <3>1. Elsewhere(t, u)
        BY <1>14, <2>3, RecvDequeueDoes DEF Elsewhere, Goes, Ends
      <3>2. Same(u)
        BY <1>14, <3>1, Untouched DEF Step, Detach, At, Recv
      <3> QED
        BY <1>0, <2>2, <2>3, <3>2, SendSame
    <2>4. CASE u = t
      <3>1. SendAwake(t)' /\ pc'[t].at # "parked"
        BY <1>0, <1>14, <2>2, RecvDequeueDoes, ChannelAssumption
           DEF SendAwake, SendBooks, CallBooks, At, InCall, Closing, OpNames,
               Outside, Goes, Ends, Calls, Unlocked, Signalling, Sending,
               Receiving
      <3> QED
        BY <1>0, <2>4, <3>1, SendAwakeIs
    <2> QED
      BY <2>3, <2>4
  <1>15. ASSUME Recv(t), RecvNothing(t), InCall(t, "tryrecv")
        PROVE  SendBooks(u)'
    <2>1. accepted' = accepted /\ calls' = calls
      BY <1>15, RecvRefusedDoes
    <2>2. \A v \in {t, u} : /\ Bound(v)' /\ (Taken(v)' <=> Taken(v))
                            /\ Message(v)' = Message(v)
      BY <1>0, <2>1, TakenSame
    <2>3. CASE u # t
      <3>1. Elsewhere(t, u)
        BY <1>15, <2>3, RecvRefusedDoes DEF Elsewhere, Goes, Ends
      <3>2. Same(u)
        BY <1>15, <3>1, Untouched DEF Step, Detach, At, Recv
      <3> QED
        BY <1>0, <2>2, <2>3, <3>2, SendSame
    <2>4. CASE u = t
      <3>1. SendAwake(t)' /\ pc'[t].at # "parked"
        BY <1>0, <1>15, <2>2, RecvRefusedDoes, ChannelAssumption
           DEF SendAwake, SendBooks, CallBooks, At, InCall, Closing, OpNames,
               Outside, Goes, Ends, Calls, Unlocked, Signalling, Sending,
               Receiving
      <3> QED
        BY <1>0, <2>4, <3>1, SendAwakeIs
    <2> QED
      BY <2>3, <2>4
  <1>16. ASSUME Recv(t), RecvNothing(t), ~InCall(t, "tryrecv")
        PROVE  SendBooks(u)'
    <2>1. accepted' = accepted /\ calls' = calls
      BY <1>16, RecvParksDoes
    <2>2. \A v \in {t, u} : /\ Bound(v)' /\ (Taken(v)' <=> Taken(v))
                            /\ Message(v)' = Message(v)
      BY <1>0, <2>1, TakenSame
    <2>3. CASE u # t
      <3>1. Elsewhere(t, u)
        BY <1>16, <2>3, RecvParksDoes DEF Elsewhere, Goes
      <3>2. Same(u)
        BY <1>16, <3>1, Untouched DEF Step, Detach, At, Recv
      <3> QED
        BY <1>0, <2>2, <3>2, SendSame
    <2>4. CASE u = t
      <3>1. /\ t \notin Range(sendq) /\ pc'[t].at = "parked"
            /\ pc'[t].op = "recv" /\ answer'[t] = "none"
        BY <1>0, <1>16, RecvParksDoes, ZenonT(30)
           DEF Goes, WaitBooks, At, CallBooks, Outside
      <3>2. t \notin Range(sendq)'
        BY <1>16, <3>1, RecvParksDoes
      <3> QED
        BY <2>2, <2>4, <3>1, <3>2
           DEF SendBooks, Bound, InCall, Sending, Unlocked, Signalling
    <2> QED
      BY <2>3, <2>4
  <1>17. ASSUME Wake(t) PROVE SendBooks(u)'
    <2>1. accepted' = accepted /\ calls' = calls
      BY <1>17, WakeDoes
    <2>2. \A v \in {t, u} : /\ Bound(v)' /\ (Taken(v)' <=> Taken(v))
                            /\ Message(v)' = Message(v)
      BY <1>0, <2>1, TakenSame
    <2>3. CASE u # t
      <3>1. Elsewhere(t, u)
        BY <1>17, <2>3, WakeDoes DEF Elsewhere, Goes, Ends
      <3>2. Same(u)
        BY <1>17, <3>1, Untouched DEF Step, Detach, At, Wake
      <3> QED
        BY <1>0, <2>2, <2>3, <3>2, SendSame
    <2>4. CASE u = t
      <3>1. /\ Called(t) /\ pc[t].op \in {"send", "recv"}
        BY <1>0, <1>17, WakeDoes DEF Called, CallBooks, At
      <3>2. /\ pc'[t].op = None /\ pc'[t].at = "idle"
            /\ answer'[t] = "sent" => pc[t].op = "send" /\ ~tclosed[t]
            /\ answer'[t] \in {"full", "closed", "cancelled"} =>
                  pc[t].op = "send" /\ tclosed[t]
        BY <1>17, <3>1, WakeDoes DEF Ends
      <3>3. SendAwake(t)'
        BY <1>0, <2>2, <3>1, <3>2
           DEF SendAwake, SendBooks, InCall, Unlocked, Signalling
      <3> QED
        BY <1>0, <2>4, <3>2, <3>3, SendAwakeIs
    <2> QED
      BY <2>3, <2>4
  <1>18. ASSUME Register(t) PROVE SendBooks(u)'
    <2>1. accepted' = accepted /\ calls' = calls
      BY <1>18, RegisterDoes
    <2>2. \A v \in {t, u} : /\ Bound(v)' /\ (Taken(v)' <=> Taken(v))
                            /\ Message(v)' = Message(v)
      BY <1>0, <2>1, TakenSame
    <2>3. CASE u # t
      <3>1. Elsewhere(t, u)
        BY <1>18, <2>3, RegisterDoes DEF Elsewhere, Goes, Ends
      <3>2. Same(u)
        BY <1>18, <3>1, Untouched DEF Step, Detach, At, Register
      <3> QED
        BY <1>0, <2>2, <2>3, <3>2, SendSame
    <2>4. CASE u = t
      <3>1. SendAwake(t)' /\ pc'[t].at # "parked"
        BY <1>0, <1>18, <2>2, RegisterDoes, ChannelAssumption
           DEF SendAwake, SendBooks, CallBooks, At, InCall, Closing, OpNames,
               Outside, Goes, Ends, Calls, Unlocked, Signalling, Sending,
               Receiving
      <3> QED
        BY <1>0, <2>4, <3>1, SendAwakeIs
    <2> QED
      BY <2>3, <2>4
  <1>19. ASSUME Post(t) PROVE SendBooks(u)'
    <2>1. accepted' = accepted /\ calls' = calls
      BY <1>19, PostDoes
    <2>2. \A v \in {t, u} : /\ Bound(v)' /\ (Taken(v)' <=> Taken(v))
                            /\ Message(v)' = Message(v)
      BY <1>0, <2>1, TakenSame
    <2>3. CASE u # t
      <3>1. Elsewhere(t, u)
        BY <1>19, <2>3, PostDoes DEF Elsewhere, Goes, Ends
      <3>2. Same(u)
        BY <1>19, <3>1, Untouched DEF Step, Detach, At, Post
      <3> QED
        BY <1>0, <2>2, <2>3, <3>2, SendSame
    <2>4. CASE u = t
      <3>1. SendAwake(t)' /\ pc'[t].at # "parked"
        BY <1>0, <1>19, <2>2, PostDoes, ChannelAssumption
           DEF SendAwake, SendBooks, CallBooks, At, InCall, Closing, OpNames,
               Outside, Goes, Ends, Calls, Unlocked, Signalling, Sending,
               Receiving
      <3> QED
        BY <1>0, <2>4, <3>1, SendAwakeIs
    <2> QED
      BY <2>3, <2>4
  <1>20. ASSUME Clear(t) PROVE SendBooks(u)'
    <2>1. accepted' = accepted /\ calls' = calls
      BY <1>20, ClearDoes
    <2>2. \A v \in {t, u} : /\ Bound(v)' /\ (Taken(v)' <=> Taken(v))
                            /\ Message(v)' = Message(v)
      BY <1>0, <2>1, TakenSame
    <2>3. CASE u # t
      <3>1. Elsewhere(t, u)
        BY <1>20, <2>3, ClearDoes DEF Elsewhere, Goes, Ends
      <3>2. Same(u)
        BY <1>20, <3>1, Untouched DEF Step, Detach, At, Clear
      <3> QED
        BY <1>0, <2>2, <2>3, <3>2, SendSame
    <2>4. CASE u = t
      <3>1. SendAwake(t)' /\ pc'[t].at # "parked"
        BY <1>0, <1>20, <2>2, ClearDoes, ChannelAssumption
           DEF SendAwake, SendBooks, CallBooks, At, InCall, Closing, OpNames,
               Outside, Goes, Ends, Calls, Unlocked, Signalling, Sending,
               Receiving
      <3> QED
        BY <1>0, <2>4, <3>1, SendAwakeIs
    <2> QED
      BY <2>3, <2>4
  <1>21. ASSUME Close(t) PROVE SendBooks(u)'
    <2>1. accepted' = accepted /\ calls' = calls
      BY <1>21, CloseDoes
    <2>2. \A v \in {t, u} : /\ Bound(v)' /\ (Taken(v)' <=> Taken(v))
                            /\ Message(v)' = Message(v)
      BY <1>0, <2>1, TakenSame
    <2>3. CASE u # t
      <3>1. Elsewhere(t, u)
        BY <1>21, <2>3, CloseDoes DEF Elsewhere, Goes, Ends
      <3>2. Same(u)
        BY <1>21, <3>1, Untouched DEF Step, Detach, At, Close
      <3> QED
        BY <1>0, <2>2, <2>3, <3>2, SendSame
    <2>4. CASE u = t
      <3>1. SendAwake(t)' /\ pc'[t].at # "parked"
        BY <1>0, <1>21, <2>2, CloseDoes, ChannelAssumption
           DEF SendAwake, SendBooks, CallBooks, At, InCall, Closing, OpNames,
               Outside, Goes, Ends, Calls, Unlocked, Signalling, Sending,
               Receiving
      <3> QED
        BY <1>0, <2>4, <3>1, SendAwakeIs
    <2> QED
      BY <2>3, <2>4
  <1>22. ASSUME Detach(t), At(t, "detachRecvq") PROVE SendBooks(u)'
    <2>1. accepted' = accepted /\ calls' = calls
      BY <1>22, DetachRecvDoes
    <2>2. \A v \in {t, u} : /\ Bound(v)' /\ (Taken(v)' <=> Taken(v))
                            /\ Message(v)' = Message(v)
      BY <1>0, <2>1, TakenSame
    <2>3. CASE u # t
      <3>1. Lists(Range(sendq), {}, Range(recvq)) /\ WakersSame
        BY <1>22, CloseMoves DEF Detach, Cancel, At
      <3>2. Called(u)' <=> Called(u)
        BY <1>22, <3>1, DetachRecvDoes DEF Called, WakersSame
      <3>3. /\ pc'[u] = pc[u] /\ answer'[u] = answer[u] /\ slot' = slot
            /\ tclosed' = tclosed
        BY <1>22, <2>3, DetachRecvDoes DEF Others
      <3>4. u \in Range(Rest)' /\ InCall(u, "send") => ~Taken(u)
        BY <1>0, <3>1 DEF Lists, SendBooks, WaitBooks, InCall
      <3>5. u \in Range(sendq)' => u \in Range(sendq)
        BY <3>1 DEF Lists
      <3> QED
        BY <1>0, <2>2, <3>2, <3>3, <3>4, <3>5 DEF SendBooks, Bound, InCall
    <2>4. CASE u = t
      <3>1. SendAwake(t)' /\ pc'[t].at # "parked"
        BY <1>0, <1>22, <2>2, DetachRecvDoes
           DEF SendAwake, SendBooks, CallBooks, At, InCall, Closing, Outside,
               Sending, Unlocked, Signalling
      <3> QED
        BY <1>0, <2>4, <3>1, SendAwakeIs
    <2> QED
      BY <2>3, <2>4
  <1>23. ASSUME Detach(t), At(t, "detachSendq") PROVE SendBooks(u)'
    <2>1. accepted' = accepted /\ calls' = calls
      BY <1>23, DetachSendDoes
    <2>2. \A v \in {t, u} : /\ Bound(v)' /\ (Taken(v)' <=> Taken(v))
                            /\ Message(v)' = Message(v)
      BY <1>0, <2>1, TakenSame
    <2>3. CASE u # t
      <3>1. Lists({}, Range(recvq), Range(sendq)) /\ WakersSame
        BY <1>23, CloseMoves DEF Detach, Cancel, At
      <3>2. Called(u)' <=> Called(u)
        BY <1>23, <3>1, DetachSendDoes DEF Called, WakersSame
      <3>3. /\ pc'[u] = pc[u] /\ answer'[u] = answer[u] /\ slot' = slot
            /\ tclosed' = tclosed
        BY <1>23, <2>3, DetachSendDoes DEF Others
      <3>4. u \in Range(Rest)' /\ InCall(u, "send") => ~Taken(u)
        BY <1>0, <3>1 DEF Lists, SendBooks, WaitBooks, InCall
      <3>5. u \in Range(sendq)' => u \in Range(sendq)
        BY <3>1 DEF Lists
      <3> QED
        BY <1>0, <2>2, <3>2, <3>3, <3>4, <3>5 DEF SendBooks, Bound, InCall
    <2>4. CASE u = t
      <3>1. SendAwake(t)' /\ pc'[t].at # "parked"
        BY <1>0, <1>23, <2>2, DetachSendDoes
           DEF SendAwake, SendBooks, CallBooks, At, InCall, Closing, Outside,
               Sending, Unlocked, Signalling
      <3> QED
        BY <1>0, <2>4, <3>1, SendAwakeIs
    <2> QED
      BY <2>3, <2>4
  <1>24. ASSUME Cancel(t) PROVE SendBooks(u)'
    <2>1. accepted' = accepted /\ calls' = calls
      BY <1>24, CancelDoes
    <2>2. \A v \in {t, u} : /\ Bound(v)' /\ (Taken(v)' <=> Taken(v))
                            /\ Message(v)' = Message(v)
      BY <1>0, <2>1, TakenSame
    <2>3. CASE Elsewhere(t, u)
      <3>1. Same(u)
        BY <1>24, <2>3, Untouched DEF Step, Detach, Cancel, At
      <3> QED
        BY <1>0, <2>2, <3>1, SendSame
    <2>4. CASE u = t
      <3>1. SendAwake(t)' /\ pc'[t].at # "parked"
        BY <1>0, <1>24, <2>2, CancelDoes, ChannelAssumption
           DEF SendAwake, SendBooks, CallBooks, At, InCall, Closing, OpNames,
               Outside, Goes, Ends, Calls, Unlocked, Signalling, Sending,
               Receiving
      <3> QED
        BY <1>0, <2>4, <3>1, SendAwakeIs
    <2>5. CASE u # t /\ u = Head(Rest)
      <3>h. /\ u \in Range(Rest) /\ u \notin Range(Rest)'
            /\ Range(sendq)' = Range(sendq) /\ Rest = pc[t].rest
        BY <1>24, <2>5, CloseMoves DEF Lists
      <3>1. At(u, "parked") /\ u \notin Range(sendq)
        BY <1>0, <3>h DEF WaitBooks
      <3>2. /\ pc'[u] = pc[u] /\ answer'[u] = "none" /\ tclosed'[u] = TRUE
        BY <1>0, <1>24, <2>5, <3>1, <3>h, CancelDoes, ZenonT(30)
           DEF Others, CallBooks, At, Outside
      <3>3. InCall(u, "send") => ~Taken(u)
        BY <1>0, <3>h DEF SendBooks
      <3> QED
        BY <2>2, <3>1, <3>2, <3>3, <3>h
           DEF SendBooks, Bound, At, InCall, Unlocked, Signalling
    <2> QED
      BY <1>24, <2>3, <2>4, <2>5, CancelDoes, CloseMoves, ZenonT(30)
         DEF Elsewhere, Calls
  <1>25. ASSUME CancelDone(t), sendq # << >> PROVE SendBooks(u)'
    <2>1. accepted' = accepted /\ calls' = calls
      BY <1>25, CancelGoesOnDoes
    <2>2. \A v \in {t, u} : /\ Bound(v)' /\ (Taken(v)' <=> Taken(v))
                            /\ Message(v)' = Message(v)
      BY <1>0, <2>1, TakenSame
    <2>3. CASE u # t
      <3>1. Elsewhere(t, u)
        BY <1>25, <2>3, CancelGoesOnDoes DEF Elsewhere, Goes, Ends
      <3>2. Same(u)
        BY <1>25, <3>1, Untouched DEF Step, Detach, At, CancelDone
      <3> QED
        BY <1>0, <2>2, <2>3, <3>2, SendSame
    <2>4. CASE u = t
      <3>1. SendAwake(t)' /\ pc'[t].at # "parked"
        BY <1>0, <1>25, <2>2, CancelGoesOnDoes, ChannelAssumption
           DEF SendAwake, SendBooks, CallBooks, At, InCall, Closing, OpNames,
               Outside, Goes, Ends, Calls, Unlocked, Signalling, Sending,
               Receiving
      <3> QED
        BY <1>0, <2>4, <3>1, SendAwakeIs
    <2> QED
      BY <2>3, <2>4
  <1>26. ASSUME CancelDone(t), sendq = << >> PROVE SendBooks(u)'
    <2>1. accepted' = accepted /\ calls' = calls
      BY <1>26, CancelEndsDoes
    <2>2. \A v \in {t, u} : /\ Bound(v)' /\ (Taken(v)' <=> Taken(v))
                            /\ Message(v)' = Message(v)
      BY <1>0, <2>1, TakenSame
    <2>3. CASE u # t
      <3>1. Elsewhere(t, u)
        BY <1>26, <2>3, CancelEndsDoes DEF Elsewhere, Goes, Ends
      <3>2. Same(u)
        BY <1>26, <3>1, Untouched DEF Step, Detach, At, CancelDone
      <3> QED
        BY <1>0, <2>2, <2>3, <3>2, SendSame
    <2>4. CASE u = t
      <3>1. SendAwake(t)' /\ pc'[t].at # "parked"
        BY <1>0, <1>26, <2>2, CancelEndsDoes, ChannelAssumption
           DEF SendAwake, SendBooks, CallBooks, At, InCall, Closing, OpNames,
               Outside, Goes, Ends, Calls, Unlocked, Signalling, Sending,
               Receiving
      <3> QED
        BY <1>0, <2>4, <3>1, SendAwakeIs
    <2> QED
      BY <2>3, <2>4
  <1>27. ASSUME Exit(t) PROVE SendBooks(u)'
    <2>1. accepted' = accepted /\ calls' = calls
      BY <1>27, ExitDoes
    <2>2. \A v \in {t, u} : /\ Bound(v)' /\ (Taken(v)' <=> Taken(v))
                            /\ Message(v)' = Message(v)
      BY <1>0, <2>1, TakenSame
    <2>3. CASE u # t
      <3>1. Elsewhere(t, u)
        BY <1>27, <2>3, ExitDoes DEF Elsewhere, Goes, Ends
      <3>2. Same(u)
        BY <1>27, <3>1, Untouched DEF Step, Detach, At, Exit
      <3> QED
        BY <1>0, <2>2, <2>3, <3>2, SendSame
    <2>4. CASE u = t
      <3>1. SendAwake(t)' /\ pc'[t].at # "parked"
        BY <1>0, <1>27, <2>2, ExitDoes, ChannelAssumption
           DEF SendAwake, SendBooks, CallBooks, At, InCall, Closing, OpNames,
               Outside, Goes, Ends, Calls, Unlocked, Signalling, Sending,
               Receiving
      <3> QED
        BY <1>0, <2>4, <3>1, SendAwakeIs
    <2> QED
      BY <2>3, <2>4
  <1> QED
    BY <1>1, <1>2, <1>3, <1>4, <1>5, <1>6, <1>7, <1>8, <1>9, <1>10, <1>11,
       <1>12, <1>13, <1>14, <1>15, <1>16, <1>17, <1>18, <1>19, <1>20, <1>21,
       <1>22, <1>23, <1>24, <1>25, <1>26, <1>27
       DEF Step, Send, Recv, Detach, CancelDone

(* Once the channel is closed and drained it stays so.                     *)
LEMMA LeftStays ==
    ASSUME ChanBooks, NEW t \in Threads,
           Step(t) \/ Exit(t) \/ \E op \in Ops[t] : Begin(t, op)
    PROVE  (closed => closed') /\ (NothingLeft => NothingLeft')
  <1>1. ASSUME NEW op \in Ops[t], Begin(t, op)
        PROVE  (closed => closed') /\ (NothingLeft => NothingLeft')
    <2>1. UNCHANGED <<closed, sendq, qlen>>
      BY <1>1, BeginDoes, Zenon
    <2> QED
      BY <2>1 DEF NothingLeft
  <1>2. ASSUME TrySendProbe(t)
        PROVE  (closed => closed') /\ (NothingLeft => NothingLeft')
    BY ChannelAssumption, <1>2, TrySendProbeDoes DEF NothingLeft
  <1>3. ASSUME TrySendSecond(t)
        PROVE  (closed => closed') /\ (NothingLeft => NothingLeft')
    BY ChannelAssumption, <1>3, TrySendSecondDoes DEF NothingLeft
  <1>4. ASSUME TryRecvProbe(t)
        PROVE  (closed => closed') /\ (NothingLeft => NothingLeft')
    BY ChannelAssumption, <1>4, TryRecvProbeDoes DEF NothingLeft
  <1>5. ASSUME TryRecvSecond(t)
        PROVE  (closed => closed') /\ (NothingLeft => NothingLeft')
    BY ChannelAssumption, <1>5, TryRecvSecondDoes DEF NothingLeft
  <1>6. ASSUME TryRecvThird(t)
        PROVE  (closed => closed') /\ (NothingLeft => NothingLeft')
    BY ChannelAssumption, <1>6, TryRecvThirdDoes DEF NothingLeft
  <1>7. ASSUME Send(t), SendClosed(t)
        PROVE  (closed => closed') /\ (NothingLeft => NothingLeft')
    BY ChannelAssumption, <1>7, SendClosedDoes DEF NothingLeft
  <1>8. ASSUME Send(t), SendDirect(t)
        PROVE  (closed => closed') /\ (NothingLeft => NothingLeft')
    BY ChannelAssumption, <1>8, SendDirectDoes DEF NothingLeft
  <1>9. ASSUME Send(t), SendEnqueue(t)
        PROVE  (closed => closed') /\ (NothingLeft => NothingLeft')
    BY ChannelAssumption, <1>9, SendEnqueueDoes DEF NothingLeft
  <1>10. ASSUME Send(t), SendFull(t), InCall(t, "trysend")
        PROVE  (closed => closed') /\ (NothingLeft => NothingLeft')
    BY ChannelAssumption, <1>10, SendRefusedDoes DEF NothingLeft
  <1>11. ASSUME Send(t), SendFull(t), ~InCall(t, "trysend")
        PROVE  (closed => closed') /\ (NothingLeft => NothingLeft')
    BY ChannelAssumption, <1>11, SendParksDoes DEF NothingLeft
  <1>12. ASSUME Recv(t), RecvClosed(t)
        PROVE  (closed => closed') /\ (NothingLeft => NothingLeft')
    BY ChannelAssumption, <1>12, RecvClosedDoes DEF NothingLeft
  <1>13. ASSUME Recv(t), RecvDirect(t)
        PROVE  (closed => closed') /\ (NothingLeft => NothingLeft')
    BY ChannelAssumption, <1>13, RecvDirectDoes DEF NothingLeft
  <1>14. ASSUME Recv(t), RecvDequeue(t)
        PROVE  (closed => closed') /\ (NothingLeft => NothingLeft')
    BY ChannelAssumption, <1>14, RecvDequeueDoes DEF NothingLeft
  <1>15. ASSUME Recv(t), RecvNothing(t), InCall(t, "tryrecv")
        PROVE  (closed => closed') /\ (NothingLeft => NothingLeft')
    BY ChannelAssumption, <1>15, RecvRefusedDoes DEF NothingLeft
  <1>16. ASSUME Recv(t), RecvNothing(t), ~InCall(t, "tryrecv")
        PROVE  (closed => closed') /\ (NothingLeft => NothingLeft')
    BY ChannelAssumption, <1>16, RecvParksDoes DEF NothingLeft
  <1>17. ASSUME Wake(t)
        PROVE  (closed => closed') /\ (NothingLeft => NothingLeft')
    BY ChannelAssumption, <1>17, WakeDoes DEF NothingLeft
  <1>18. ASSUME Register(t)
        PROVE  (closed => closed') /\ (NothingLeft => NothingLeft')
    BY ChannelAssumption, <1>18, RegisterDoes DEF NothingLeft
  <1>19. ASSUME Post(t)
        PROVE  (closed => closed') /\ (NothingLeft => NothingLeft')
    BY ChannelAssumption, <1>19, PostDoes DEF NothingLeft
  <1>20. ASSUME Clear(t)
        PROVE  (closed => closed') /\ (NothingLeft => NothingLeft')
    BY ChannelAssumption, <1>20, ClearDoes DEF NothingLeft
  <1>21. ASSUME Close(t)
        PROVE  (closed => closed') /\ (NothingLeft => NothingLeft')
    BY ChannelAssumption, <1>21, CloseDoes DEF NothingLeft
  <1>22. ASSUME Detach(t), At(t, "detachRecvq")
        PROVE  (closed => closed') /\ (NothingLeft => NothingLeft')
    BY ChannelAssumption, <1>22, DetachRecvDoes DEF NothingLeft
  <1>23. ASSUME Detach(t), At(t, "detachSendq")
        PROVE  (closed => closed') /\ (NothingLeft => NothingLeft')
    BY ChannelAssumption, <1>23, DetachSendDoes DEF NothingLeft
  <1>24. ASSUME Cancel(t)
        PROVE  (closed => closed') /\ (NothingLeft => NothingLeft')
    BY ChannelAssumption, <1>24, CancelDoes DEF NothingLeft
  <1>25. ASSUME CancelDone(t), sendq # << >>
        PROVE  (closed => closed') /\ (NothingLeft => NothingLeft')
    BY ChannelAssumption, <1>25, CancelGoesOnDoes DEF NothingLeft
  <1>26. ASSUME CancelDone(t), sendq = << >>
        PROVE  (closed => closed') /\ (NothingLeft => NothingLeft')
    BY ChannelAssumption, <1>26, CancelEndsDoes DEF NothingLeft
  <1>27. ASSUME Exit(t)
        PROVE  (closed => closed') /\ (NothingLeft => NothingLeft')
    BY ChannelAssumption, <1>27, ExitDoes DEF NothingLeft
  <1> QED
    BY <1>1, <1>2, <1>3, <1>4, <1>5, <1>6, <1>7, <1>8, <1>9, <1>10, <1>11,
       <1>12, <1>13, <1>14, <1>15, <1>16, <1>17, <1>18, <1>19, <1>20, <1>21,
       <1>22, <1>23, <1>24, <1>25, <1>26, <1>27
       DEF Step, Send, Recv, Detach, CancelDone

(* The receivers: whoever is served was served before and keeps what it    *)
(* got, or gets the message this step hands over.                          *)
Gets(t, u) ==
    \/ Send(t) /\ SendDirect(t) /\ u = Head(recvq)
    \/ Recv(t) /\ (RecvDirect(t) \/ RecvDequeue(t)) /\ u = t
StillServed(t, u) ==
    Served(u)' => (Served(u) /\ slot'[u] = slot[u]) \/ Gets(t, u)
RecvRest(u) ==
    /\ u \in Range(recvq) => ~tclosed[u]
    /\ u \in Range(Rest) /\ InCall(u, "recv") => NothingLeft
    /\ Called(u) /\ InCall(u, "recv") /\ tclosed[u] => NothingLeft
    /\ At(u, "sawClosed") => closed
    /\ answer[u] = "drained" => NothingLeft

(* A receiver that does not move is still served.                          *)
LEMMA ServedSame ==
    ASSUME NEW t, NEW u \in Threads, Same(u)
    PROVE  StillServed(t, u)
  BY DEF StillServed, Served, Same, InCall

(* A receiver that does not move keeps the rest of its books,              *)
LEMMA RestSame ==
    ASSUME NEW u \in Threads, Same(u), RecvRest(u), closed => closed',
           NothingLeft => NothingLeft'
    PROVE  RecvRest(u)'
  BY DEF RecvRest, Same, InCall, At

(* A thread that waits nowhere.                                            *)
LEMMA ServedAwake ==
    ASSUME NEW t, NEW u \in Threads, WaitBooks(u)', pc'[u].at # "parked",
           \/ answer'[u] = "got"
           \/ pc'[u].op \in Receiving /\ pc'[u].at \in Signalling
           => (Served(u) /\ slot'[u] = slot[u]) \/ Gets(t, u)
    PROVE  StillServed(t, u)
  <1>1. ~Called(u)'
    BY Awake
  <1> QED
    BY <1>1 DEF StillServed, Served

(* and so does one that is not parked.                                     *)
LEMMA RestAwake ==
    ASSUME NEW u \in Threads, WaitBooks(u)', pc'[u].at # "parked",
           pc'[u].at = "sawClosed" => closed',
           answer'[u] = "drained" => NothingLeft'
    PROVE  RecvRest(u)'
  <1>1. ~Called(u)' /\ u \notin Range(recvq)' /\ u \notin Range(Rest)'
    BY Awake
  <1> QED
    BY <1>1 DEF RecvRest, At

(* Nobody is served but by a step that gives him a message.                *)
LEMMA ServedKept ==
    ASSUME ChanBooks, NEW t \in Threads, NEW u \in Threads,
           Step(t) \/ Exit(t) \/ \E op \in Ops[t] : Begin(t, op)
    PROVE  StillServed(t, u)
  <1>0. /\ WaitBooks(t) /\ WaitBooks(u) /\ WaitBooks(t)' /\ WaitBooks(u)'
        /\ CallBooks(t) /\ CallBooks(u)
    BY Facts1, WaitKept
  <1>1. ASSUME NEW op \in Ops[t], Begin(t, op) PROVE StillServed(t, u)
    <2>3. CASE u # t
      <3>1. Elsewhere(t, u)
        BY <1>1, <2>3, BeginDoes DEF Elsewhere, Goes, Ends
      <3>2. Same(u)
        BY <1>1, <3>1, Untouched DEF Step, Detach, At, Begin
      <3> QED
        BY <1>0, <3>2, ServedSame
    <2>4. CASE u = t
      <3>1. /\ answer'[t] = "none" /\ pc'[t].at \in {"probe", "lock"}
        BY <1>1, BeginDoes, Zenon
      <3> QED
        BY <1>0, <2>4, <3>1, ServedAwake DEF Signalling
    <2> QED
      BY <2>3, <2>4
  <1>2. ASSUME TrySendProbe(t) PROVE StillServed(t, u)
    <2>3. CASE u # t
      <3>1. Elsewhere(t, u)
        BY <1>2, <2>3, TrySendProbeDoes DEF Elsewhere, Goes, Ends
      <3>2. Same(u)
        BY <1>2, <3>1, Untouched DEF Step, Detach, At, TrySendProbe
      <3> QED
        BY <1>0, <3>2, ServedSame
    <2>4. CASE u = t
      <3>1. /\ pc'[t].at # "parked" /\ slot'[t] = slot[t]
            /\ (\/ answer'[t] = "got"
                \/ pc'[t].op \in Receiving /\ pc'[t].at \in Signalling) =>
                  Served(t)
        BY <1>0, <1>2, TrySendProbeDoes, ChannelAssumption
           DEF Served, CallBooks, At, InCall, Goes, Ends, Calls, Closing,
               Outside, Signalling, Sending, Receiving
      <3> QED
        BY <1>0, <2>4, <3>1, ServedAwake
    <2> QED
      BY <2>3, <2>4
  <1>3. ASSUME TrySendSecond(t) PROVE StillServed(t, u)
    <2>3. CASE u # t
      <3>1. Elsewhere(t, u)
        BY <1>3, <2>3, TrySendSecondDoes DEF Elsewhere, Goes, Ends
      <3>2. Same(u)
        BY <1>3, <3>1, Untouched DEF Step, Detach, At, TrySendSecond
      <3> QED
        BY <1>0, <3>2, ServedSame
    <2>4. CASE u = t
      <3>1. /\ pc'[t].at # "parked" /\ slot'[t] = slot[t]
            /\ (\/ answer'[t] = "got"
                \/ pc'[t].op \in Receiving /\ pc'[t].at \in Signalling) =>
                  Served(t)
        BY <1>0, <1>3, TrySendSecondDoes, ChannelAssumption
           DEF Served, CallBooks, At, InCall, Goes, Ends, Calls, Closing,
               Outside, Signalling, Sending, Receiving
      <3> QED
        BY <1>0, <2>4, <3>1, ServedAwake
    <2> QED
      BY <2>3, <2>4
  <1>4. ASSUME TryRecvProbe(t) PROVE StillServed(t, u)
    <2>3. CASE u # t
      <3>1. Elsewhere(t, u)
        BY <1>4, <2>3, TryRecvProbeDoes DEF Elsewhere, Goes, Ends
      <3>2. Same(u)
        BY <1>4, <3>1, Untouched DEF Step, Detach, At, TryRecvProbe
      <3> QED
        BY <1>0, <3>2, ServedSame
    <2>4. CASE u = t
      <3>1. /\ pc'[t].at # "parked" /\ slot'[t] = slot[t]
            /\ (\/ answer'[t] = "got"
                \/ pc'[t].op \in Receiving /\ pc'[t].at \in Signalling) =>
                  Served(t)
        BY <1>0, <1>4, TryRecvProbeDoes, ChannelAssumption
           DEF Served, CallBooks, At, InCall, Goes, Ends, Calls, Closing,
               Outside, Signalling, Sending, Receiving
      <3> QED
        BY <1>0, <2>4, <3>1, ServedAwake
    <2> QED
      BY <2>3, <2>4
  <1>5. ASSUME TryRecvSecond(t) PROVE StillServed(t, u)
    <2>3. CASE u # t
      <3>1. Elsewhere(t, u)
        BY <1>5, <2>3, TryRecvSecondDoes DEF Elsewhere, Goes, Ends
      <3>2. Same(u)
        BY <1>5, <3>1, Untouched DEF Step, Detach, At, TryRecvSecond
      <3> QED
        BY <1>0, <3>2, ServedSame
    <2>4. CASE u = t
      <3>1. /\ pc'[t].at # "parked" /\ slot'[t] = slot[t]
            /\ (\/ answer'[t] = "got"
                \/ pc'[t].op \in Receiving /\ pc'[t].at \in Signalling) =>
                  Served(t)
        BY <1>0, <1>5, TryRecvSecondDoes, ChannelAssumption
           DEF Served, CallBooks, At, InCall, Goes, Ends, Calls, Closing,
               Outside, Signalling, Sending, Receiving
      <3> QED
        BY <1>0, <2>4, <3>1, ServedAwake
    <2> QED
      BY <2>3, <2>4
  <1>6. ASSUME TryRecvThird(t) PROVE StillServed(t, u)
    <2>3. CASE u # t
      <3>1. Elsewhere(t, u)
        BY <1>6, <2>3, TryRecvThirdDoes DEF Elsewhere, Goes, Ends
      <3>2. Same(u)
        BY <1>6, <3>1, Untouched DEF Step, Detach, At, TryRecvThird
      <3> QED
        BY <1>0, <3>2, ServedSame
    <2>4. CASE u = t
      <3>1. /\ pc'[t].at # "parked" /\ slot'[t] = slot[t]
            /\ (\/ answer'[t] = "got"
                \/ pc'[t].op \in Receiving /\ pc'[t].at \in Signalling) =>
                  Served(t)
        BY <1>0, <1>6, TryRecvThirdDoes, ChannelAssumption
           DEF Served, CallBooks, At, InCall, Goes, Ends, Calls, Closing,
               Outside, Signalling, Sending, Receiving
      <3> QED
        BY <1>0, <2>4, <3>1, ServedAwake
    <2> QED
      BY <2>3, <2>4
  <1>7. ASSUME Send(t), SendClosed(t) PROVE StillServed(t, u)
    <2>3. CASE u # t
      <3>1. Elsewhere(t, u)
        BY <1>7, <2>3, SendClosedDoes DEF Elsewhere, Goes, Ends
      <3>2. Same(u)
        BY <1>7, <3>1, Untouched DEF Step, Detach, At, Send
      <3> QED
        BY <1>0, <3>2, ServedSame
    <2>4. CASE u = t
      <3>1. /\ pc'[t].at # "parked" /\ slot'[t] = slot[t]
            /\ (\/ answer'[t] = "got"
                \/ pc'[t].op \in Receiving /\ pc'[t].at \in Signalling) =>
                  Served(t)
        BY <1>0, <1>7, SendClosedDoes, ChannelAssumption
           DEF Served, CallBooks, At, InCall, Goes, Ends, Calls, Closing,
               Outside, Signalling, Sending, Receiving
      <3> QED
        BY <1>0, <2>4, <3>1, ServedAwake
    <2> QED
      BY <2>3, <2>4
  <1>8. ASSUME Send(t), SendDirect(t) PROVE StillServed(t, u)
    <2>3. CASE Elsewhere(t, u)
      <3>1. Same(u)
        BY <1>8, <2>3, Untouched DEF Step, Detach, Send, At
      <3> QED
        BY <1>0, <3>1, ServedSame
    <2>4. CASE u = t
      <3>0. t # Head(recvq)
        BY <1>0, <1>8, SendDirectDoes, SendDirectMoves DEF WaitBooks, At
      <3>1. /\ pc'[t].at # "parked" /\ slot'[t] = slot[t]
            /\ (\/ answer'[t] = "got"
                \/ pc'[t].op \in Receiving /\ pc'[t].at \in Signalling) =>
                  Served(t)
        BY <1>0, <1>8, <3>0, SendDirectDoes, ChannelAssumption
           DEF Served, CallBooks, At, InCall, Goes, Ends, Calls, Closing,
               Outside, Signalling, Sending, Receiving
      <3> QED
        BY <1>0, <2>4, <3>1, ServedAwake
    <2>5. CASE u # t /\ u = Head(recvq)
      <3>1. Gets(t, u)
        BY <1>8, <2>5 DEF Gets
      <3> QED
        BY <3>1 DEF StillServed
    <2> QED
      BY <1>8, <2>3, <2>4, <2>5, SendDirectDoes DEF Elsewhere, Calls
  <1>9. ASSUME Send(t), SendEnqueue(t) PROVE StillServed(t, u)
    <2>3. CASE u # t
      <3>1. Elsewhere(t, u)
        BY <1>9, <2>3, SendEnqueueDoes DEF Elsewhere, Goes, Ends
      <3>2. Same(u)
        BY <1>9, <3>1, Untouched DEF Step, Detach, At, Send
      <3> QED
        BY <1>0, <3>2, ServedSame
    <2>4. CASE u = t
      <3>1. /\ pc'[t].at # "parked" /\ slot'[t] = slot[t]
            /\ (\/ answer'[t] = "got"
                \/ pc'[t].op \in Receiving /\ pc'[t].at \in Signalling) =>
                  Served(t)
        BY <1>0, <1>9, SendEnqueueDoes, ChannelAssumption
           DEF Served, CallBooks, At, InCall, Goes, Ends, Calls, Closing,
               Outside, Signalling, Sending, Receiving
      <3> QED
        BY <1>0, <2>4, <3>1, ServedAwake
    <2> QED
      BY <2>3, <2>4
  <1>10. ASSUME Send(t), SendFull(t), InCall(t, "trysend")
        PROVE  StillServed(t, u)
    <2>3. CASE u # t
      <3>1. Elsewhere(t, u)
        BY <1>10, <2>3, SendRefusedDoes DEF Elsewhere, Goes, Ends
      <3>2. Same(u)
        BY <1>10, <3>1, Untouched DEF Step, Detach, At, Send
      <3> QED
        BY <1>0, <3>2, ServedSame
    <2>4. CASE u = t
      <3>1. /\ pc'[t].at # "parked" /\ slot'[t] = slot[t]
            /\ (\/ answer'[t] = "got"
                \/ pc'[t].op \in Receiving /\ pc'[t].at \in Signalling) =>
                  Served(t)
        BY <1>0, <1>10, SendRefusedDoes, ChannelAssumption
           DEF Served, CallBooks, At, InCall, Goes, Ends, Calls, Closing,
               Outside, Signalling, Sending, Receiving
      <3> QED
        BY <1>0, <2>4, <3>1, ServedAwake
    <2> QED
      BY <2>3, <2>4
  <1>11. ASSUME Send(t), SendFull(t), ~InCall(t, "trysend")
        PROVE  StillServed(t, u)
    <2>3. CASE u # t
      <3>1. Elsewhere(t, u)
        BY <1>11, <2>3, SendParksDoes DEF Elsewhere, Goes, Ends
      <3>2. Same(u)
        BY <1>11, <3>1, Untouched DEF Step, Detach, At, Send
      <3> QED
        BY <1>0, <3>2, ServedSame
    <2>4. CASE u = t
      <3>1. t \in Range(sendq)'
        BY <1>11, SendParksMoves DEF Lists
      <3>2. ~Called(t)'
        BY <1>0, <3>1 DEF WaitBooks
      <3>3. pc'[t].at = "parked" /\ answer'[t] = "none"
        BY <1>0, <1>11, SendParksDoes DEF Goes, CallBooks, Outside
      <3> QED
        BY <2>4, <3>2, <3>3 DEF StillServed, Served, Signalling
    <2> QED
      BY <2>3, <2>4
  <1>12. ASSUME Recv(t), RecvClosed(t) PROVE StillServed(t, u)
    <2>3. CASE u # t
      <3>1. Elsewhere(t, u)
        BY <1>12, <2>3, RecvClosedDoes DEF Elsewhere, Goes, Ends
      <3>2. Same(u)
        BY <1>12, <3>1, Untouched DEF Step, Detach, At, Recv
      <3> QED
        BY <1>0, <3>2, ServedSame
    <2>4. CASE u = t
      <3>1. /\ pc'[t].at # "parked" /\ slot'[t] = slot[t]
            /\ (\/ answer'[t] = "got"
                \/ pc'[t].op \in Receiving /\ pc'[t].at \in Signalling) =>
                  Served(t)
        BY <1>0, <1>12, RecvClosedDoes, ChannelAssumption
           DEF Served, CallBooks, At, InCall, Goes, Ends, Calls, Closing,
               Outside, Signalling, Sending, Receiving
      <3> QED
        BY <1>0, <2>4, <3>1, ServedAwake
    <2> QED
      BY <2>3, <2>4
  <1>13. ASSUME Recv(t), RecvDirect(t) PROVE StillServed(t, u)
    <2>3. CASE Elsewhere(t, u)
      <3>1. Same(u)
        BY <1>13, <2>3, Untouched DEF Step, Detach, Recv, At
      <3> QED
        BY <1>0, <3>1, ServedSame
    <2>4. CASE u = t
      <3>1. Gets(t, t)
        BY <1>13 DEF Gets
      <3> QED
        BY <2>4, <3>1 DEF StillServed
    <2>5. CASE u # t /\ u = Head(sendq)
      <3>1. At(u, "parked") /\ InCall(u, "send")
        BY <1>0, <1>13, <2>5, RecvDirectMoves DEF WaitBooks
      <3>2. pc'[u] = pc[u] /\ answer'[u] = "none"
        BY <1>0, <1>13, <2>5, <3>1, RecvDirectDoes
           DEF Others, CallBooks, At, Outside
      <3> QED
        BY <3>1, <3>2 DEF StillServed, Served, At, InCall, Receiving
    <2> QED
      BY <1>13, <2>3, <2>4, <2>5, RecvDirectDoes DEF Elsewhere, Calls
  <1>14. ASSUME Recv(t), RecvDequeue(t) PROVE StillServed(t, u)
    <2>3. CASE u # t
      <3>1. Elsewhere(t, u)
        BY <1>14, <2>3, RecvDequeueDoes DEF Elsewhere, Goes, Ends
      <3>2. Same(u)
        BY <1>14, <3>1, Untouched DEF Step, Detach, At, Recv
      <3> QED
        BY <1>0, <3>2, ServedSame
    <2>4. CASE u = t
      <3>1. Gets(t, t)
        BY <1>14 DEF Gets
      <3> QED
        BY <2>4, <3>1 DEF StillServed
    <2> QED
      BY <2>3, <2>4
  <1>15. ASSUME Recv(t), RecvNothing(t), InCall(t, "tryrecv")
        PROVE  StillServed(t, u)
    <2>3. CASE u # t
      <3>1. Elsewhere(t, u)
        BY <1>15, <2>3, RecvRefusedDoes DEF Elsewhere, Goes, Ends
      <3>2. Same(u)
        BY <1>15, <3>1, Untouched DEF Step, Detach, At, Recv
      <3> QED
        BY <1>0, <3>2, ServedSame
    <2>4. CASE u = t
      <3>1. /\ pc'[t].at # "parked" /\ slot'[t] = slot[t]
            /\ (\/ answer'[t] = "got"
                \/ pc'[t].op \in Receiving /\ pc'[t].at \in Signalling) =>
                  Served(t)
        BY <1>0, <1>15, RecvRefusedDoes, ChannelAssumption
           DEF Served, CallBooks, At, InCall, Goes, Ends, Calls, Closing,
               Outside, Signalling, Sending, Receiving
      <3> QED
        BY <1>0, <2>4, <3>1, ServedAwake
    <2> QED
      BY <2>3, <2>4
  <1>16. ASSUME Recv(t), RecvNothing(t), ~InCall(t, "tryrecv")
        PROVE  StillServed(t, u)
    <2>3. CASE u # t
      <3>1. Elsewhere(t, u)
        BY <1>16, <2>3, RecvParksDoes DEF Elsewhere, Goes, Ends
      <3>2. Same(u)
        BY <1>16, <3>1, Untouched DEF Step, Detach, At, Recv
      <3> QED
        BY <1>0, <3>2, ServedSame
    <2>4. CASE u = t
      <3>1. t \in Range(recvq)'
        BY <1>16, RecvParksMoves DEF Lists
      <3>2. ~Called(t)'
        BY <1>0, <3>1 DEF WaitBooks
      <3>3. pc'[t].at = "parked" /\ answer'[t] = "none"
        BY <1>0, <1>16, RecvParksDoes DEF Goes, CallBooks, Outside
      <3> QED
        BY <2>4, <3>2, <3>3 DEF StillServed, Served, Signalling
    <2> QED
      BY <2>3, <2>4
  <1>17. ASSUME Wake(t) PROVE StillServed(t, u)
    <2>3. CASE u # t
      <3>1. Elsewhere(t, u)
        BY <1>17, <2>3, WakeDoes DEF Elsewhere, Goes, Ends
      <3>2. Same(u)
        BY <1>17, <3>1, Untouched DEF Step, Detach, At, Wake
      <3> QED
        BY <1>0, <3>2, ServedSame
    <2>4. CASE u = t
      <3>1. /\ Called(t) /\ pc[t].op \in {"send", "recv"}
        BY <1>0, <1>17, WakeDoes DEF Called, CallBooks, At
      <3>2. /\ pc'[t].at = "idle" /\ slot' = slot
            /\ answer'[t] = "got" => pc[t].op = "recv" /\ ~tclosed[t]
        BY <1>17, <3>1, WakeDoes DEF Ends
      <3>3. answer'[t] = "got" => Served(t)
        BY <3>1, <3>2 DEF Served, InCall
      <3> QED
        BY <1>0, <2>4, <3>2, <3>3, ServedAwake DEF Signalling
    <2> QED
      BY <2>3, <2>4
  <1>18. ASSUME Register(t) PROVE StillServed(t, u)
    <2>3. CASE u # t
      <3>1. Elsewhere(t, u)
        BY <1>18, <2>3, RegisterDoes DEF Elsewhere, Goes, Ends
      <3>2. Same(u)
        BY <1>18, <3>1, Untouched DEF Step, Detach, At, Register
      <3> QED
        BY <1>0, <3>2, ServedSame
    <2>4. CASE u = t
      <3>1. /\ pc'[t].at # "parked" /\ slot'[t] = slot[t]
            /\ (\/ answer'[t] = "got"
                \/ pc'[t].op \in Receiving /\ pc'[t].at \in Signalling) =>
                  Served(t)
        BY <1>0, <1>18, RegisterDoes, ChannelAssumption
           DEF Served, CallBooks, At, InCall, Goes, Ends, Calls, Closing,
               Outside, Signalling, Sending, Receiving
      <3> QED
        BY <1>0, <2>4, <3>1, ServedAwake
    <2> QED
      BY <2>3, <2>4
  <1>19. ASSUME Post(t) PROVE StillServed(t, u)
    <2>3. CASE u # t
      <3>1. Elsewhere(t, u)
        BY <1>19, <2>3, PostDoes DEF Elsewhere, Goes, Ends
      <3>2. Same(u)
        BY <1>19, <3>1, Untouched DEF Step, Detach, At, Post
      <3> QED
        BY <1>0, <3>2, ServedSame
    <2>4. CASE u = t
      <3>1. /\ pc'[t].at # "parked" /\ slot'[t] = slot[t]
            /\ (\/ answer'[t] = "got"
                \/ pc'[t].op \in Receiving /\ pc'[t].at \in Signalling) =>
                  Served(t)
        BY <1>0, <1>19, PostDoes, ChannelAssumption
           DEF Served, CallBooks, At, InCall, Goes, Ends, Calls, Closing,
               Outside, Signalling, Sending, Receiving
      <3> QED
        BY <1>0, <2>4, <3>1, ServedAwake
    <2> QED
      BY <2>3, <2>4
  <1>20. ASSUME Clear(t) PROVE StillServed(t, u)
    <2>3. CASE u # t
      <3>1. Elsewhere(t, u)
        BY <1>20, <2>3, ClearDoes DEF Elsewhere, Goes, Ends
      <3>2. Same(u)
        BY <1>20, <3>1, Untouched DEF Step, Detach, At, Clear
      <3> QED
        BY <1>0, <3>2, ServedSame
    <2>4. CASE u = t
      <3>1. /\ pc'[t].at # "parked" /\ slot'[t] = slot[t]
            /\ (\/ answer'[t] = "got"
                \/ pc'[t].op \in Receiving /\ pc'[t].at \in Signalling) =>
                  Served(t)
        BY <1>0, <1>20, ClearDoes, ChannelAssumption
           DEF Served, CallBooks, At, InCall, Goes, Ends, Calls, Closing,
               Outside, Signalling, Sending, Receiving
      <3> QED
        BY <1>0, <2>4, <3>1, ServedAwake
    <2> QED
      BY <2>3, <2>4
  <1>21. ASSUME Close(t) PROVE StillServed(t, u)
    <2>3. CASE u # t
      <3>1. Elsewhere(t, u)
        BY <1>21, <2>3, CloseDoes DEF Elsewhere, Goes, Ends
      <3>2. Same(u)
        BY <1>21, <3>1, Untouched DEF Step, Detach, At, Close
      <3> QED
        BY <1>0, <3>2, ServedSame
    <2>4. CASE u = t
      <3>1. /\ pc'[t].at # "parked" /\ slot'[t] = slot[t]
            /\ (\/ answer'[t] = "got"
                \/ pc'[t].op \in Receiving /\ pc'[t].at \in Signalling) =>
                  Served(t)
        BY <1>0, <1>21, CloseDoes, ChannelAssumption
           DEF Served, CallBooks, At, InCall, Goes, Ends, Calls, Closing,
               Outside, Signalling, Sending, Receiving
      <3> QED
        BY <1>0, <2>4, <3>1, ServedAwake
    <2> QED
      BY <2>3, <2>4
  <1>22. ASSUME Detach(t), At(t, "detachRecvq") PROVE StillServed(t, u)
    <2>3. CASE u # t
      <3>1. Lists(Range(sendq), {}, Range(recvq)) /\ WakersSame
        BY <1>22, CloseMoves DEF Detach, Cancel, At
      <3>2. Called(u)' <=> Called(u)
        BY <1>22, <3>1, DetachRecvDoes DEF Called, WakersSame
      <3>3. /\ pc'[u] = pc[u] /\ answer'[u] = answer[u] /\ slot' = slot
            /\ tclosed' = tclosed /\ UNCHANGED <<closed, qlen>>
        BY <1>22, <2>3, DetachRecvDoes DEF Others
      <3> QED
        BY <3>2, <3>3 DEF StillServed, Served, InCall
    <2>4. CASE u = t
      <3>1. /\ pc'[t].at # "parked" /\ slot'[t] = slot[t]
            /\ (\/ answer'[t] = "got"
                \/ pc'[t].op \in Receiving /\ pc'[t].at \in Signalling) =>
                  Served(t)
        BY <1>0, <1>22, DetachRecvDoes, ChannelAssumption
           DEF Served, CallBooks, At, InCall, Goes, Ends, Calls, Closing,
               Outside, Signalling, Sending, Receiving
      <3> QED
        BY <1>0, <2>4, <3>1, ServedAwake
    <2> QED
      BY <2>3, <2>4
  <1>23. ASSUME Detach(t), At(t, "detachSendq") PROVE StillServed(t, u)
    <2>3. CASE u # t
      <3>1. Lists({}, Range(recvq), Range(sendq)) /\ WakersSame
        BY <1>23, CloseMoves DEF Detach, Cancel, At
      <3>2. Called(u)' <=> Called(u)
        BY <1>23, <3>1, DetachSendDoes DEF Called, WakersSame
      <3>3. /\ pc'[u] = pc[u] /\ answer'[u] = answer[u] /\ slot' = slot
            /\ tclosed' = tclosed /\ UNCHANGED <<closed, qlen>>
        BY <1>23, <2>3, DetachSendDoes DEF Others
      <3> QED
        BY <3>2, <3>3 DEF StillServed, Served, InCall
    <2>4. CASE u = t
      <3>1. /\ pc'[t].at # "parked" /\ slot'[t] = slot[t]
            /\ (\/ answer'[t] = "got"
                \/ pc'[t].op \in Receiving /\ pc'[t].at \in Signalling) =>
                  Served(t)
        BY <1>0, <1>23, DetachSendDoes, ChannelAssumption
           DEF Served, CallBooks, At, InCall, Goes, Ends, Calls, Closing,
               Outside, Signalling, Sending, Receiving
      <3> QED
        BY <1>0, <2>4, <3>1, ServedAwake
    <2> QED
      BY <2>3, <2>4
  <1>24. ASSUME Cancel(t) PROVE StillServed(t, u)
    <2>3. CASE Elsewhere(t, u)
      <3>1. Same(u)
        BY <1>24, <2>3, Untouched DEF Step, Detach, Cancel, At
      <3> QED
        BY <1>0, <3>1, ServedSame
    <2>4. CASE u = t
      <3>1. /\ pc'[t].at # "parked" /\ slot'[t] = slot[t]
            /\ (\/ answer'[t] = "got"
                \/ pc'[t].op \in Receiving /\ pc'[t].at \in Signalling) =>
                  Served(t)
        BY <1>0, <1>24, CancelDoes, ChannelAssumption
           DEF Served, CallBooks, At, InCall, Goes, Ends, Calls, Closing,
               Outside, Signalling, Sending, Receiving
      <3> QED
        BY <1>0, <2>4, <3>1, ServedAwake
    <2>5. CASE u # t /\ u = Head(Rest)
      <3>1. u \in Range(Rest) /\ Rest = pc[t].rest
        BY <1>24, <2>5, CloseMoves
      <3>2. At(u, "parked")
        BY <1>0, <3>1 DEF WaitBooks
      <3>3. pc'[u] = pc[u] /\ answer'[u] = "none" /\ tclosed'[u] = TRUE
        BY <1>0, <1>24, <2>5, <3>1, <3>2, CancelDoes, ZenonT(30)
           DEF Others, CallBooks, At, Outside
      <3> QED
        BY <3>2, <3>3 DEF StillServed, Served, At, Signalling
    <2> QED
      BY <1>24, <2>3, <2>4, <2>5, CancelDoes, CloseMoves, ZenonT(30)
         DEF Elsewhere, Calls
  <1>25. ASSUME CancelDone(t), sendq # << >> PROVE StillServed(t, u)
    <2>3. CASE u # t
      <3>1. Elsewhere(t, u)
        BY <1>25, <2>3, CancelGoesOnDoes DEF Elsewhere, Goes, Ends
      <3>2. Same(u)
        BY <1>25, <3>1, Untouched DEF Step, Detach, At, CancelDone
      <3> QED
        BY <1>0, <3>2, ServedSame
    <2>4. CASE u = t
      <3>1. /\ pc'[t].at # "parked" /\ slot'[t] = slot[t]
            /\ (\/ answer'[t] = "got"
                \/ pc'[t].op \in Receiving /\ pc'[t].at \in Signalling) =>
                  Served(t)
        BY <1>0, <1>25, CancelGoesOnDoes, ChannelAssumption
           DEF Served, CallBooks, At, InCall, Goes, Ends, Calls, Closing,
               Outside, Signalling, Sending, Receiving
      <3> QED
        BY <1>0, <2>4, <3>1, ServedAwake
    <2> QED
      BY <2>3, <2>4
  <1>26. ASSUME CancelDone(t), sendq = << >> PROVE StillServed(t, u)
    <2>3. CASE u # t
      <3>1. Elsewhere(t, u)
        BY <1>26, <2>3, CancelEndsDoes DEF Elsewhere, Goes, Ends
      <3>2. Same(u)
        BY <1>26, <3>1, Untouched DEF Step, Detach, At, CancelDone
      <3> QED
        BY <1>0, <3>2, ServedSame
    <2>4. CASE u = t
      <3>1. /\ pc'[t].at # "parked" /\ slot'[t] = slot[t]
            /\ (\/ answer'[t] = "got"
                \/ pc'[t].op \in Receiving /\ pc'[t].at \in Signalling) =>
                  Served(t)
        BY <1>0, <1>26, CancelEndsDoes, ChannelAssumption
           DEF Served, CallBooks, At, InCall, Goes, Ends, Calls, Closing,
               Outside, Signalling, Sending, Receiving
      <3> QED
        BY <1>0, <2>4, <3>1, ServedAwake
    <2> QED
      BY <2>3, <2>4
  <1>27. ASSUME Exit(t) PROVE StillServed(t, u)
    <2>3. CASE u # t
      <3>1. Elsewhere(t, u)
        BY <1>27, <2>3, ExitDoes DEF Elsewhere, Goes, Ends
      <3>2. Same(u)
        BY <1>27, <3>1, Untouched DEF Step, Detach, At, Exit
      <3> QED
        BY <1>0, <3>2, ServedSame
    <2>4. CASE u = t
      <3>1. /\ pc'[t].at # "parked" /\ slot'[t] = slot[t]
            /\ (\/ answer'[t] = "got"
                \/ pc'[t].op \in Receiving /\ pc'[t].at \in Signalling) =>
                  Served(t)
        BY <1>0, <1>27, ExitDoes, ChannelAssumption
           DEF Served, CallBooks, At, InCall, Goes, Ends, Calls, Closing,
               Outside, Signalling, Sending, Receiving
      <3> QED
        BY <1>0, <2>4, <3>1, ServedAwake
    <2> QED
      BY <2>3, <2>4
  <1> QED
    BY <1>1, <1>2, <1>3, <1>4, <1>5, <1>6, <1>7, <1>8, <1>9, <1>10, <1>11,
       <1>12, <1>13, <1>14, <1>15, <1>16, <1>17, <1>18, <1>19, <1>20, <1>21,
       <1>22, <1>23, <1>24, <1>25, <1>26, <1>27
       DEF Step, Send, Recv, Detach, CancelDone

(* Who is sent away, and when.                                             *)
LEMMA RestKept ==
    ASSUME ChanBooks, NEW t \in Threads, NEW u \in Threads,
           Step(t) \/ Exit(t) \/ \E op \in Ops[t] : Begin(t, op)
    PROVE  RecvRest(u)'
  <1>0. /\ WaitBooks(t) /\ WaitBooks(u) /\ WaitBooks(t)' /\ WaitBooks(u)'
        /\ CallBooks(t) /\ CallBooks(u) /\ LockBooks(t)
        /\ RecvRest(t) /\ RecvRest(u) /\ NoneWaitsInVain /\ TypeOK
        /\ (closed => closed') /\ (NothingLeft => NothingLeft')
    BY Facts1, WaitKept, LeftStays DEF RecvBooks, RecvRest, ChanBooks
  <1>1. ASSUME NEW op \in Ops[t], Begin(t, op) PROVE RecvRest(u)'
    <2>3. CASE u # t
      <3>1. Elsewhere(t, u)
        BY <1>1, <2>3, BeginDoes DEF Elsewhere, Goes, Ends
      <3>2. Same(u)
        BY <1>1, <3>1, Untouched DEF Step, Detach, At, Begin
      <3> QED
        BY <1>0, <3>2, RestSame
    <2>4. CASE u = t
      <3>1. /\ answer'[t] = "none" /\ pc'[t].at \in {"probe", "lock"}
        BY <1>1, BeginDoes, Zenon
      <3> QED
        BY <1>0, <2>4, <3>1, RestAwake
    <2> QED
      BY <2>3, <2>4
  <1>2. ASSUME TrySendProbe(t) PROVE RecvRest(u)'
    <2>3. CASE u # t
      <3>1. Elsewhere(t, u)
        BY <1>2, <2>3, TrySendProbeDoes DEF Elsewhere, Goes, Ends
      <3>2. Same(u)
        BY <1>2, <3>1, Untouched DEF Step, Detach, At, TrySendProbe
      <3> QED
        BY <1>0, <3>2, RestSame
    <2>4. CASE u = t
      <3>1. /\ pc'[t].at # "parked" /\ (pc'[t].at = "sawClosed" => closed)
            /\ answer'[t] = "drained" => answer[t] = "drained"
        BY <1>0, <1>2, TrySendProbeDoes DEF Goes, Ends, Calls
      <3> QED
        BY <1>0, <2>4, <3>1, RestAwake DEF RecvRest
    <2> QED
      BY <2>3, <2>4
  <1>3. ASSUME TrySendSecond(t) PROVE RecvRest(u)'
    <2>3. CASE u # t
      <3>1. Elsewhere(t, u)
        BY <1>3, <2>3, TrySendSecondDoes DEF Elsewhere, Goes, Ends
      <3>2. Same(u)
        BY <1>3, <3>1, Untouched DEF Step, Detach, At, TrySendSecond
      <3> QED
        BY <1>0, <3>2, RestSame
    <2>4. CASE u = t
      <3>1. /\ pc'[t].at # "parked" /\ (pc'[t].at = "sawClosed" => closed)
            /\ answer'[t] = "drained" => answer[t] = "drained"
        BY <1>0, <1>3, TrySendSecondDoes DEF Goes, Ends, Calls
      <3> QED
        BY <1>0, <2>4, <3>1, RestAwake DEF RecvRest
    <2> QED
      BY <2>3, <2>4
  <1>4. ASSUME TryRecvProbe(t) PROVE RecvRest(u)'
    <2>3. CASE u # t
      <3>1. Elsewhere(t, u)
        BY <1>4, <2>3, TryRecvProbeDoes DEF Elsewhere, Goes, Ends
      <3>2. Same(u)
        BY <1>4, <3>1, Untouched DEF Step, Detach, At, TryRecvProbe
      <3> QED
        BY <1>0, <3>2, RestSame
    <2>4. CASE u = t
      <3>1. /\ pc'[t].at # "parked" /\ (pc'[t].at = "sawClosed" => closed)
            /\ answer'[t] = "drained" => answer[t] = "drained"
        BY <1>0, <1>4, TryRecvProbeDoes DEF Goes, Ends, Calls
      <3> QED
        BY <1>0, <2>4, <3>1, RestAwake DEF RecvRest
    <2> QED
      BY <2>3, <2>4
  <1>5. ASSUME TryRecvSecond(t) PROVE RecvRest(u)'
    <2>3. CASE u # t
      <3>1. Elsewhere(t, u)
        BY <1>5, <2>3, TryRecvSecondDoes DEF Elsewhere, Goes, Ends
      <3>2. Same(u)
        BY <1>5, <3>1, Untouched DEF Step, Detach, At, TryRecvSecond
      <3> QED
        BY <1>0, <3>2, RestSame
    <2>4. CASE u = t
      <3>1. /\ pc'[t].at # "parked" /\ (pc'[t].at = "sawClosed" => closed)
            /\ answer'[t] = "drained" => answer[t] = "drained"
        BY <1>0, <1>5, TryRecvSecondDoes DEF Goes, Ends, Calls
      <3> QED
        BY <1>0, <2>4, <3>1, RestAwake DEF RecvRest
    <2> QED
      BY <2>3, <2>4
  <1>6. ASSUME TryRecvThird(t) PROVE RecvRest(u)'
    <2>3. CASE u # t
      <3>1. Elsewhere(t, u)
        BY <1>6, <2>3, TryRecvThirdDoes DEF Elsewhere, Goes, Ends
      <3>2. Same(u)
        BY <1>6, <3>1, Untouched DEF Step, Detach, At, TryRecvThird
      <3> QED
        BY <1>0, <3>2, RestSame
    <2>4. CASE u = t
      <3>1. /\ pc'[t].at \in {"lock", "idle"}
            /\ answer'[t] = "drained" => closed /\ empty
        BY <1>0, <1>6, TryRecvThirdDoes DEF Goes, Ends, RecvRest, At, CallBooks,
           Outside
      <3>2. closed /\ empty => NothingLeft
        BY <1>0 DEF empty, NothingLeft, NoneWaitsInVain, TypeOK
      <3> QED
        BY <1>0, <2>4, <3>1, <3>2, RestAwake
    <2> QED
      BY <2>3, <2>4
  <1>7. ASSUME Send(t), SendClosed(t) PROVE RecvRest(u)'
    <2>3. CASE u # t
      <3>1. Elsewhere(t, u)
        BY <1>7, <2>3, SendClosedDoes DEF Elsewhere, Goes, Ends
      <3>2. Same(u)
        BY <1>7, <3>1, Untouched DEF Step, Detach, At, Send
      <3> QED
        BY <1>0, <3>2, RestSame
    <2>4. CASE u = t
      <3>1. /\ pc'[t].at # "parked" /\ (pc'[t].at = "sawClosed" => closed)
            /\ answer'[t] = "drained" => answer[t] = "drained"
        BY <1>0, <1>7, SendClosedDoes DEF Goes, Ends, Calls
      <3> QED
        BY <1>0, <2>4, <3>1, RestAwake DEF RecvRest
    <2> QED
      BY <2>3, <2>4
  <1>8. ASSUME Send(t), SendDirect(t) PROVE RecvRest(u)'
    <2>3. CASE Elsewhere(t, u)
      <3>1. Same(u)
        BY <1>8, <2>3, Untouched DEF Step, Detach, Send, At
      <3> QED
        BY <1>0, <3>1, RestSame
    <2>4. CASE u = t
      <3>1. /\ pc'[t].at # "parked" /\ (pc'[t].at = "sawClosed" => closed)
            /\ answer'[t] = "drained" => answer[t] = "drained"
        BY <1>0, <1>8, SendDirectDoes DEF Goes, Ends, Calls
      <3> QED
        BY <1>0, <2>4, <3>1, RestAwake DEF RecvRest
    <2>5. CASE u # t /\ u = Head(recvq)
      <3>1. u \in Range(recvq) /\ u \notin Range(recvq)' /\ Range(Rest)' = Range(Rest)
        BY <1>8, <2>5, SendDirectMoves DEF Lists
      <3>2. At(u, "parked") /\ ~tclosed[u] /\ u \notin Range(Rest)
        BY <1>0, <3>1 DEF WaitBooks, RecvRest
      <3>3. pc'[u] = pc[u] /\ answer'[u] = "none" /\ tclosed' = tclosed
        BY <1>0, <1>8, <2>5, <3>2, SendDirectDoes
           DEF Others, CallBooks, At, Outside
      <3> QED
        BY <3>1, <3>2, <3>3 DEF RecvRest, At
    <2> QED
      BY <1>8, <2>3, <2>4, <2>5, SendDirectDoes DEF Elsewhere, Calls
  <1>9. ASSUME Send(t), SendEnqueue(t) PROVE RecvRest(u)'
    <2>3. CASE u # t
      <3>1. Elsewhere(t, u)
        BY <1>9, <2>3, SendEnqueueDoes DEF Elsewhere, Goes, Ends
      <3>2. Same(u)
        BY <1>9, <3>1, Untouched DEF Step, Detach, At, Send
      <3> QED
        BY <1>0, <3>2, RestSame
    <2>4. CASE u = t
      <3>1. /\ pc'[t].at # "parked" /\ (pc'[t].at = "sawClosed" => closed)
            /\ answer'[t] = "drained" => answer[t] = "drained"
        BY <1>0, <1>9, SendEnqueueDoes DEF Goes, Ends, Calls
      <3> QED
        BY <1>0, <2>4, <3>1, RestAwake DEF RecvRest
    <2> QED
      BY <2>3, <2>4
  <1>10. ASSUME Send(t), SendFull(t), InCall(t, "trysend") PROVE RecvRest(u)'
    <2>3. CASE u # t
      <3>1. Elsewhere(t, u)
        BY <1>10, <2>3, SendRefusedDoes DEF Elsewhere, Goes, Ends
      <3>2. Same(u)
        BY <1>10, <3>1, Untouched DEF Step, Detach, At, Send
      <3> QED
        BY <1>0, <3>2, RestSame
    <2>4. CASE u = t
      <3>1. /\ pc'[t].at # "parked" /\ (pc'[t].at = "sawClosed" => closed)
            /\ answer'[t] = "drained" => answer[t] = "drained"
        BY <1>0, <1>10, SendRefusedDoes DEF Goes, Ends, Calls
      <3> QED
        BY <1>0, <2>4, <3>1, RestAwake DEF RecvRest
    <2> QED
      BY <2>3, <2>4
  <1>11. ASSUME Send(t), SendFull(t), ~InCall(t, "trysend") PROVE RecvRest(u)'
    <2>3. CASE u # t
      <3>1. Elsewhere(t, u)
        BY <1>11, <2>3, SendParksDoes DEF Elsewhere, Goes, Ends
      <3>2. Same(u)
        BY <1>11, <3>1, Untouched DEF Step, Detach, At, Send
      <3> QED
        BY <1>0, <3>2, RestSame
    <2>4. CASE u = t
      <3>1. t \in Range(sendq)'
        BY <1>11, SendParksMoves DEF Lists
      <3>2. ~Called(t)' /\ t \notin Range(Rest)'
        BY <1>0, <3>1 DEF WaitBooks
      <3>3. pc'[t].at = "parked" /\ answer'[t] = "none"
        BY <1>0, <1>11, SendParksDoes DEF Goes, CallBooks, Outside
      <3>4. ~tclosed'[t]
        BY <1>11, SendParksDoes, Zenon
      <3> QED
        BY <2>4, <3>2, <3>3, <3>4 DEF RecvRest, At
    <2> QED
      BY <2>3, <2>4
  <1>12. ASSUME Recv(t), RecvClosed(t) PROVE RecvRest(u)'
    <2>3. CASE u # t
      <3>1. Elsewhere(t, u)
        BY <1>12, <2>3, RecvClosedDoes DEF Elsewhere, Goes, Ends
      <3>2. Same(u)
        BY <1>12, <3>1, Untouched DEF Step, Detach, At, Recv
      <3> QED
        BY <1>0, <3>2, RestSame
    <2>4. CASE u = t
      <3>1. pc'[t].at = "idle" /\ NothingLeft
        BY <1>0, <1>12, RecvClosedDoes DEF Ends, NothingLeft, NoneWaitsInVain
      <3> QED
        BY <1>0, <2>4, <3>1, RestAwake
    <2> QED
      BY <2>3, <2>4
  <1>13. ASSUME Recv(t), RecvDirect(t) PROVE RecvRest(u)'
    <2>3. CASE Elsewhere(t, u)
      <3>1. Same(u)
        BY <1>13, <2>3, Untouched DEF Step, Detach, Recv, At
      <3> QED
        BY <1>0, <3>1, RestSame
    <2>4. CASE u = t
      <3>1. /\ pc'[t].at # "parked" /\ (pc'[t].at = "sawClosed" => closed)
            /\ answer'[t] = "drained" => answer[t] = "drained"
        BY <1>0, <1>13, RecvDirectDoes DEF Goes, Ends, Calls
      <3> QED
        BY <1>0, <2>4, <3>1, RestAwake DEF RecvRest
    <2>5. CASE u # t /\ u = Head(sendq)
      <3>1. u \in Range(sendq) /\ Range(recvq)' = Range(recvq)
        BY <1>13, <2>5, RecvDirectMoves DEF Lists
      <3>2. At(u, "parked") /\ InCall(u, "send") /\ u \notin Range(recvq)
        BY <1>0, <3>1 DEF WaitBooks
      <3>3. pc'[u] = pc[u] /\ answer'[u] = "none"
        BY <1>0, <1>13, <2>5, <3>2, RecvDirectDoes
           DEF Others, CallBooks, At, Outside
      <3> QED
        BY <3>1, <3>2, <3>3 DEF RecvRest, At, InCall
    <2> QED
      BY <1>13, <2>3, <2>4, <2>5, RecvDirectDoes DEF Elsewhere, Calls
  <1>14. ASSUME Recv(t), RecvDequeue(t) PROVE RecvRest(u)'
    <2>3. CASE u # t
      <3>1. Elsewhere(t, u)
        BY <1>14, <2>3, RecvDequeueDoes DEF Elsewhere, Goes, Ends
      <3>2. Same(u)
        BY <1>14, <3>1, Untouched DEF Step, Detach, At, Recv
      <3> QED
        BY <1>0, <3>2, RestSame
    <2>4. CASE u = t
      <3>1. /\ pc'[t].at # "parked" /\ (pc'[t].at = "sawClosed" => closed)
            /\ answer'[t] = "drained" => answer[t] = "drained"
        BY <1>0, <1>14, RecvDequeueDoes DEF Goes, Ends, Calls
      <3> QED
        BY <1>0, <2>4, <3>1, RestAwake DEF RecvRest
    <2> QED
      BY <2>3, <2>4
  <1>15. ASSUME Recv(t), RecvNothing(t), InCall(t, "tryrecv")
        PROVE  RecvRest(u)'
    <2>3. CASE u # t
      <3>1. Elsewhere(t, u)
        BY <1>15, <2>3, RecvRefusedDoes DEF Elsewhere, Goes, Ends
      <3>2. Same(u)
        BY <1>15, <3>1, Untouched DEF Step, Detach, At, Recv
      <3> QED
        BY <1>0, <3>2, RestSame
    <2>4. CASE u = t
      <3>1. /\ pc'[t].at # "parked" /\ (pc'[t].at = "sawClosed" => closed)
            /\ answer'[t] = "drained" => answer[t] = "drained"
        BY <1>0, <1>15, RecvRefusedDoes DEF Goes, Ends, Calls
      <3> QED
        BY <1>0, <2>4, <3>1, RestAwake DEF RecvRest
    <2> QED
      BY <2>3, <2>4
  <1>16. ASSUME Recv(t), RecvNothing(t), ~InCall(t, "tryrecv")
        PROVE  RecvRest(u)'
    <2>3. CASE u # t
      <3>1. Elsewhere(t, u)
        BY <1>16, <2>3, RecvParksDoes DEF Elsewhere, Goes, Ends
      <3>2. Same(u)
        BY <1>16, <3>1, Untouched DEF Step, Detach, At, Recv
      <3> QED
        BY <1>0, <3>2, RestSame
    <2>4. CASE u = t
      <3>1. t \in Range(recvq)'
        BY <1>16, RecvParksMoves DEF Lists
      <3>2. ~Called(t)' /\ t \notin Range(Rest)'
        BY <1>0, <3>1 DEF WaitBooks
      <3>3. pc'[t].at = "parked" /\ answer'[t] = "none"
        BY <1>0, <1>16, RecvParksDoes DEF Goes, CallBooks, Outside
      <3>4. ~tclosed'[t]
        BY <1>16, RecvParksDoes, Zenon
      <3> QED
        BY <2>4, <3>2, <3>3, <3>4 DEF RecvRest, At
    <2> QED
      BY <2>3, <2>4
  <1>17. ASSUME Wake(t) PROVE RecvRest(u)'
    <2>3. CASE u # t
      <3>1. Elsewhere(t, u)
        BY <1>17, <2>3, WakeDoes DEF Elsewhere, Goes, Ends
      <3>2. Same(u)
        BY <1>17, <3>1, Untouched DEF Step, Detach, At, Wake
      <3> QED
        BY <1>0, <3>2, RestSame
    <2>4. CASE u = t
      <3>1. /\ Called(t) /\ pc[t].op \in {"send", "recv"}
        BY <1>0, <1>17, WakeDoes DEF Called, CallBooks, At
      <3>2. /\ pc'[t].at = "idle"
            /\ answer'[t] = "drained" => pc[t].op = "recv" /\ tclosed[t]
        BY <1>17, <3>1, WakeDoes DEF Ends
      <3>3. answer'[t] = "drained" => NothingLeft
        BY <1>0, <3>1, <3>2 DEF RecvRest, InCall
      <3> QED
        BY <1>0, <2>4, <3>2, <3>3, RestAwake
    <2> QED
      BY <2>3, <2>4
  <1>18. ASSUME Register(t) PROVE RecvRest(u)'
    <2>3. CASE u # t
      <3>1. Elsewhere(t, u)
        BY <1>18, <2>3, RegisterDoes DEF Elsewhere, Goes, Ends
      <3>2. Same(u)
        BY <1>18, <3>1, Untouched DEF Step, Detach, At, Register
      <3> QED
        BY <1>0, <3>2, RestSame
    <2>4. CASE u = t
      <3>1. /\ pc'[t].at # "parked" /\ (pc'[t].at = "sawClosed" => closed)
            /\ answer'[t] = "drained" => answer[t] = "drained"
        BY <1>0, <1>18, RegisterDoes DEF Goes, Ends, Calls
      <3> QED
        BY <1>0, <2>4, <3>1, RestAwake DEF RecvRest
    <2> QED
      BY <2>3, <2>4
  <1>19. ASSUME Post(t) PROVE RecvRest(u)'
    <2>3. CASE u # t
      <3>1. Elsewhere(t, u)
        BY <1>19, <2>3, PostDoes DEF Elsewhere, Goes, Ends
      <3>2. Same(u)
        BY <1>19, <3>1, Untouched DEF Step, Detach, At, Post
      <3> QED
        BY <1>0, <3>2, RestSame
    <2>4. CASE u = t
      <3>1. /\ pc'[t].at # "parked" /\ (pc'[t].at = "sawClosed" => closed)
            /\ answer'[t] = "drained" => answer[t] = "drained"
        BY <1>0, <1>19, PostDoes DEF Goes, Ends, Calls
      <3> QED
        BY <1>0, <2>4, <3>1, RestAwake DEF RecvRest
    <2> QED
      BY <2>3, <2>4
  <1>20. ASSUME Clear(t) PROVE RecvRest(u)'
    <2>3. CASE u # t
      <3>1. Elsewhere(t, u)
        BY <1>20, <2>3, ClearDoes DEF Elsewhere, Goes, Ends
      <3>2. Same(u)
        BY <1>20, <3>1, Untouched DEF Step, Detach, At, Clear
      <3> QED
        BY <1>0, <3>2, RestSame
    <2>4. CASE u = t
      <3>1. /\ pc'[t].at # "parked" /\ (pc'[t].at = "sawClosed" => closed)
            /\ answer'[t] = "drained" => answer[t] = "drained"
        BY <1>0, <1>20, ClearDoes DEF Goes, Ends, Calls
      <3> QED
        BY <1>0, <2>4, <3>1, RestAwake DEF RecvRest
    <2> QED
      BY <2>3, <2>4
  <1>21. ASSUME Close(t) PROVE RecvRest(u)'
    <2>3. CASE u # t
      <3>1. Elsewhere(t, u)
        BY <1>21, <2>3, CloseDoes DEF Elsewhere, Goes, Ends
      <3>2. Same(u)
        BY <1>21, <3>1, Untouched DEF Step, Detach, At, Close
      <3> QED
        BY <1>0, <3>2, RestSame
    <2>4. CASE u = t
      <3>1. /\ pc'[t].at # "parked" /\ (pc'[t].at = "sawClosed" => closed)
            /\ answer'[t] = "drained" => answer[t] = "drained"
        BY <1>0, <1>21, CloseDoes DEF Goes, Ends, Calls
      <3> QED
        BY <1>0, <2>4, <3>1, RestAwake DEF RecvRest
    <2> QED
      BY <2>3, <2>4
  <1>22. ASSUME Detach(t), At(t, "detachRecvq") PROVE RecvRest(u)'
    <2>3. CASE u # t
      <3>1. Lists(Range(sendq), {}, Range(recvq)) /\ WakersSame
        BY <1>22, CloseMoves DEF Detach, Cancel, At
      <3>2. Called(u)' <=> Called(u)
        BY <1>22, <3>1, DetachRecvDoes DEF Called, WakersSame
      <3>3. /\ pc'[u] = pc[u] /\ answer'[u] = answer[u] /\ slot' = slot
            /\ tclosed' = tclosed /\ UNCHANGED <<closed, qlen>>
        BY <1>22, <2>3, DetachRecvDoes DEF Others
      <3>4. u \in Range(recvq) => NothingLeft
        <4>1. u \in Range(recvq) => recvq # << >>
          BY EmptyList
        <4>2. closed
          BY <1>0, <1>22 DEF LockBooks, CallBooks, At, InCall, Closing
        <4> QED
          BY <1>0, <4>1, <4>2 DEF NoneWaitsInVain, NothingLeft
      <3> QED
        BY <1>0, <3>1, <3>2, <3>3, <3>4 DEF RecvRest, Lists, InCall, At
    <2>4. CASE u = t
      <3>1. /\ pc'[t].at # "parked" /\ (pc'[t].at = "sawClosed" => closed)
            /\ answer'[t] = "drained" => answer[t] = "drained"
        BY <1>0, <1>22, DetachRecvDoes DEF Goes, Ends, Calls
      <3> QED
        BY <1>0, <2>4, <3>1, RestAwake DEF RecvRest
    <2> QED
      BY <2>3, <2>4
  <1>23. ASSUME Detach(t), At(t, "detachSendq") PROVE RecvRest(u)'
    <2>3. CASE u # t
      <3>1. Lists({}, Range(recvq), Range(sendq)) /\ WakersSame
        BY <1>23, CloseMoves DEF Detach, Cancel, At
      <3>2. Called(u)' <=> Called(u)
        BY <1>23, <3>1, DetachSendDoes DEF Called, WakersSame
      <3>3. /\ pc'[u] = pc[u] /\ answer'[u] = answer[u] /\ slot' = slot
            /\ tclosed' = tclosed /\ UNCHANGED <<closed, qlen>>
        BY <1>23, <2>3, DetachSendDoes DEF Others
      <3>4. u \in Range(sendq) => InCall(u, "send")
        BY <1>0 DEF WaitBooks
      <3> QED
        BY <1>0, <3>1, <3>2, <3>3, <3>4 DEF RecvRest, Lists, InCall, At
    <2>4. CASE u = t
      <3>1. /\ pc'[t].at # "parked" /\ (pc'[t].at = "sawClosed" => closed)
            /\ answer'[t] = "drained" => answer[t] = "drained"
        BY <1>0, <1>23, DetachSendDoes DEF Goes, Ends, Calls
      <3> QED
        BY <1>0, <2>4, <3>1, RestAwake DEF RecvRest
    <2> QED
      BY <2>3, <2>4
  <1>24. ASSUME Cancel(t) PROVE RecvRest(u)'
    <2>3. CASE Elsewhere(t, u)
      <3>1. Same(u)
        BY <1>24, <2>3, Untouched DEF Step, Detach, Cancel, At
      <3> QED
        BY <1>0, <3>1, RestSame
    <2>4. CASE u = t
      <3>1. /\ pc'[t].at # "parked" /\ (pc'[t].at = "sawClosed" => closed)
            /\ answer'[t] = "drained" => answer[t] = "drained"
        BY <1>0, <1>24, CancelDoes DEF Goes, Ends, Calls
      <3> QED
        BY <1>0, <2>4, <3>1, RestAwake DEF RecvRest
    <2>5. CASE u # t /\ u = Head(Rest)
      <3>1. /\ u \in Range(Rest) /\ u \notin Range(Rest)'
            /\ Range(recvq)' = Range(recvq)
        BY <1>24, <2>5, CloseMoves DEF Lists
      <3>2. At(u, "parked") /\ u \notin Range(recvq)
        BY <1>0, <3>1 DEF WaitBooks
      <3>3. pc'[u] = pc[u] /\ answer'[u] = "none"
        BY <1>0, <1>24, <2>5, <3>2, CancelDoes
           DEF Others, CallBooks, At, Outside
      <3>4. InCall(u, "recv") => NothingLeft
        BY <1>0, <3>1 DEF RecvRest
      <3> QED
        BY <1>0, <3>1, <3>2, <3>3, <3>4 DEF RecvRest, At, InCall
    <2> QED
      BY <1>24, <2>3, <2>4, <2>5, CancelDoes, CloseMoves, ZenonT(30)
         DEF Elsewhere, Calls
  <1>25. ASSUME CancelDone(t), sendq # << >> PROVE RecvRest(u)'
    <2>3. CASE u # t
      <3>1. Elsewhere(t, u)
        BY <1>25, <2>3, CancelGoesOnDoes DEF Elsewhere, Goes, Ends
      <3>2. Same(u)
        BY <1>25, <3>1, Untouched DEF Step, Detach, At, CancelDone
      <3> QED
        BY <1>0, <3>2, RestSame
    <2>4. CASE u = t
      <3>1. /\ pc'[t].at # "parked" /\ (pc'[t].at = "sawClosed" => closed)
            /\ answer'[t] = "drained" => answer[t] = "drained"
        BY <1>0, <1>25, CancelGoesOnDoes DEF Goes, Ends, Calls
      <3> QED
        BY <1>0, <2>4, <3>1, RestAwake DEF RecvRest
    <2> QED
      BY <2>3, <2>4
  <1>26. ASSUME CancelDone(t), sendq = << >> PROVE RecvRest(u)'
    <2>3. CASE u # t
      <3>1. Elsewhere(t, u)
        BY <1>26, <2>3, CancelEndsDoes DEF Elsewhere, Goes, Ends
      <3>2. Same(u)
        BY <1>26, <3>1, Untouched DEF Step, Detach, At, CancelDone
      <3> QED
        BY <1>0, <3>2, RestSame
    <2>4. CASE u = t
      <3>1. /\ pc'[t].at # "parked" /\ (pc'[t].at = "sawClosed" => closed)
            /\ answer'[t] = "drained" => answer[t] = "drained"
        BY <1>0, <1>26, CancelEndsDoes DEF Goes, Ends, Calls
      <3> QED
        BY <1>0, <2>4, <3>1, RestAwake DEF RecvRest
    <2> QED
      BY <2>3, <2>4
  <1>27. ASSUME Exit(t) PROVE RecvRest(u)'
    <2>3. CASE u # t
      <3>1. Elsewhere(t, u)
        BY <1>27, <2>3, ExitDoes DEF Elsewhere, Goes, Ends
      <3>2. Same(u)
        BY <1>27, <3>1, Untouched DEF Step, Detach, At, Exit
      <3> QED
        BY <1>0, <3>2, RestSame
    <2>4. CASE u = t
      <3>1. /\ pc'[t].at # "parked" /\ (pc'[t].at = "sawClosed" => closed)
            /\ answer'[t] = "drained" => answer[t] = "drained"
        BY <1>0, <1>27, ExitDoes DEF Goes, Ends, Calls
      <3> QED
        BY <1>0, <2>4, <3>1, RestAwake DEF RecvRest
    <2> QED
      BY <2>3, <2>4
  <1> QED
    BY <1>1, <1>2, <1>3, <1>4, <1>5, <1>6, <1>7, <1>8, <1>9, <1>10, <1>11,
       <1>12, <1>13, <1>14, <1>15, <1>16, <1>17, <1>18, <1>19, <1>20, <1>21,
       <1>22, <1>23, <1>24, <1>25, <1>26, <1>27
       DEF Step, Send, Recv, Detach, CancelDone

(* What the ring or a sender still holds was not handed over.              *)
LEMMA NotReceived ==
    ASSUME ChanBooks
    PROVE  /\ Range(received) \subseteq Range(accepted)
           /\ qlen # 0 => buf[recvx] \notin Range(received)
  <1> DEFINE k == Len(received)
  <1>1. /\ accepted = received \o Ring /\ received \in Seq(Messages)
        /\ Ring \in Seq(Messages) /\ Len(Ring) = qlen /\ k \in Nat
        /\ IsInjective(accepted) /\ qlen \in Nat
        /\ qlen # 0 => Ring[1] = buf[recvx]
    BY RingHolds, SMTT(30) DEF ChanBooks, Conserved, TypeOK
  <1>2. \A n \in DOMAIN received :
           n \in DOMAIN accepted /\ accepted[n] = received[n] /\ n <= k
    BY <1>1
  <1>3. qlen # 0 => k + 1 \in DOMAIN accepted /\ accepted[k + 1] = Ring[1]
    BY <1>1
  <1>4. Range(received) \subseteq Range(accepted)
    BY <1>2 DEF Range
  <1>5. ASSUME qlen # 0, buf[recvx] \in Range(received) PROVE FALSE
    <2>1. PICK n \in DOMAIN received : received[n] = buf[recvx]
      BY <1>5 DEF Range
    <2>2. accepted[n] = accepted[k + 1] /\ n \in DOMAIN accepted /\ n <= k
      BY <1>1, <1>2, <1>3, <1>5, <2>1
    <2>3. n = k + 1
      BY <1>1, <1>3, <1>5, <2>2 DEF IsInjective
    <2> QED
      BY <1>1, <2>2, <2>3
  <1> QED
    BY <1>4, <1>5

(* A receiver gets what nobody has received.                               *)
LEMMA GetsNew ==
    ASSUME ChanBooks, NEW t \in Threads, NEW u, Gets(t, u)
    PROVE  /\ slot'[u] \notin Range(received) /\ slot'[u] \in Messages
           /\ received' = Append(received, slot'[u])
  <1>1. CASE Send(t) /\ SendDirect(t) /\ u = Head(recvq)
    <2>1. /\ u \in Threads /\ slot'[u] = slot[t]
          /\ received' = Append(received, slot[t])
          /\ pc[t].at = "lock" /\ pc[t].op \in Sending
      BY <1>1, SendDirectDoes, SendDirectMoves
    <2> QED
      BY <2>1, Offered, NotReceived
  <1>2. CASE Recv(t) /\ RecvDirect(t) /\ u = t
    <2> DEFINE h == Head(sendq)
    <2>1. /\ h \in Threads /\ h \in Range(sendq)
          /\ slot'[t] = IF qlen = 0 THEN slot[h] ELSE buf[recvx]
          /\ received' = Append(received, slot'[t])
      BY <1>2, RecvDirectDoes, RecvDirectMoves
    <2>2. slot[h] \in Messages /\ slot[h] \notin Range(received)
      BY <2>1, Offered, NotReceived
    <2>3. qlen # 0 => buf[recvx] \in Messages /\ buf[recvx] \notin Range(received)
      BY RingHolds, NotReceived
    <2> QED
      BY <1>2, <2>1, <2>2, <2>3
  <1>3. CASE Recv(t) /\ RecvDequeue(t) /\ u = t
    <2>1. /\ qlen # 0 /\ slot'[t] = buf[recvx]
          /\ received' = Append(received, buf[recvx])
      BY <1>3, RecvDequeueDoes, Facts1, SMTT(30) DEF TypeOK
    <2> QED
      BY <1>3, <2>1, RingHolds, NotReceived
  <1> QED
    BY <1>1, <1>2, <1>3 DEF Gets

(* What was received stays received.                                       *)
LEMMA ReceivedStays ==
    ASSUME ChanBooks, NEW t \in Threads,
           Step(t) \/ Exit(t) \/ \E op \in Ops[t] : Begin(t, op)
    PROVE  Range(received) \subseteq Range(received')
  <1>0. TypeOK
    BY Facts1
  <1>1. ASSUME NEW op \in Ops[t], Begin(t, op)
        PROVE  Range(received) \subseteq Range(received')
    <2>1. received' = received
      BY <1>1, BeginDoes, Zenon
    <2> QED
      BY <2>1
  <1>2. ASSUME TrySendProbe(t)
        PROVE  Range(received) \subseteq Range(received')
    BY <1>2, TrySendProbeDoes
  <1>3. ASSUME TrySendSecond(t)
        PROVE  Range(received) \subseteq Range(received')
    BY <1>3, TrySendSecondDoes
  <1>4. ASSUME TryRecvProbe(t)
        PROVE  Range(received) \subseteq Range(received')
    BY <1>4, TryRecvProbeDoes
  <1>5. ASSUME TryRecvSecond(t)
        PROVE  Range(received) \subseteq Range(received')
    BY <1>5, TryRecvSecondDoes
  <1>6. ASSUME TryRecvThird(t)
        PROVE  Range(received) \subseteq Range(received')
    BY <1>6, TryRecvThirdDoes
  <1>7. ASSUME Send(t), SendClosed(t)
        PROVE  Range(received) \subseteq Range(received')
    BY <1>7, SendClosedDoes
  <1>8. ASSUME Send(t), SendDirect(t)
        PROVE  Range(received) \subseteq Range(received')
    <2>1. Gets(t, Head(recvq))
      BY <1>8 DEF Gets
    <2>2. slot'[Head(recvq)] \in Messages /\ received' = Append(received, slot'[Head(recvq)])
      BY <2>1, GetsNew
    <2> QED
      BY <1>0, <2>2, ListGrows DEF TypeOK
  <1>9. ASSUME Send(t), SendEnqueue(t)
        PROVE  Range(received) \subseteq Range(received')
    BY <1>9, SendEnqueueDoes
  <1>10. ASSUME Send(t), SendFull(t), InCall(t, "trysend")
        PROVE  Range(received) \subseteq Range(received')
    BY <1>10, SendRefusedDoes
  <1>11. ASSUME Send(t), SendFull(t), ~InCall(t, "trysend")
        PROVE  Range(received) \subseteq Range(received')
    BY <1>11, SendParksDoes
  <1>12. ASSUME Recv(t), RecvClosed(t)
        PROVE  Range(received) \subseteq Range(received')
    BY <1>12, RecvClosedDoes
  <1>13. ASSUME Recv(t), RecvDirect(t)
        PROVE  Range(received) \subseteq Range(received')
    <2>1. Gets(t, t)
      BY <1>13 DEF Gets
    <2>2. slot'[t] \in Messages /\ received' = Append(received, slot'[t])
      BY <2>1, GetsNew
    <2> QED
      BY <1>0, <2>2, ListGrows DEF TypeOK
  <1>14. ASSUME Recv(t), RecvDequeue(t)
        PROVE  Range(received) \subseteq Range(received')
    <2>1. Gets(t, t)
      BY <1>14 DEF Gets
    <2>2. slot'[t] \in Messages /\ received' = Append(received, slot'[t])
      BY <2>1, GetsNew
    <2> QED
      BY <1>0, <2>2, ListGrows DEF TypeOK
  <1>15. ASSUME Recv(t), RecvNothing(t), InCall(t, "tryrecv")
        PROVE  Range(received) \subseteq Range(received')
    BY <1>15, RecvRefusedDoes
  <1>16. ASSUME Recv(t), RecvNothing(t), ~InCall(t, "tryrecv")
        PROVE  Range(received) \subseteq Range(received')
    BY <1>16, RecvParksDoes
  <1>17. ASSUME Wake(t) PROVE Range(received) \subseteq Range(received')
    BY <1>17, WakeDoes
  <1>18. ASSUME Register(t) PROVE Range(received) \subseteq Range(received')
    BY <1>18, RegisterDoes
  <1>19. ASSUME Post(t) PROVE Range(received) \subseteq Range(received')
    BY <1>19, PostDoes
  <1>20. ASSUME Clear(t) PROVE Range(received) \subseteq Range(received')
    BY <1>20, ClearDoes
  <1>21. ASSUME Close(t) PROVE Range(received) \subseteq Range(received')
    BY <1>21, CloseDoes
  <1>22. ASSUME Detach(t), At(t, "detachRecvq")
        PROVE  Range(received) \subseteq Range(received')
    BY <1>22, DetachRecvDoes
  <1>23. ASSUME Detach(t), At(t, "detachSendq")
        PROVE  Range(received) \subseteq Range(received')
    BY <1>23, DetachSendDoes
  <1>24. ASSUME Cancel(t) PROVE Range(received) \subseteq Range(received')
    BY <1>24, CancelDoes
  <1>25. ASSUME CancelDone(t), sendq # << >>
        PROVE  Range(received) \subseteq Range(received')
    BY <1>25, CancelGoesOnDoes
  <1>26. ASSUME CancelDone(t), sendq = << >>
        PROVE  Range(received) \subseteq Range(received')
    BY <1>26, CancelEndsDoes
  <1>27. ASSUME Exit(t) PROVE Range(received) \subseteq Range(received')
    BY <1>27, ExitDoes
  <1> QED
    BY <1>1, <1>2, <1>3, <1>4, <1>5, <1>6, <1>7, <1>8, <1>9, <1>10, <1>11,
       <1>12, <1>13, <1>14, <1>15, <1>16, <1>17, <1>18, <1>19, <1>20, <1>21,
       <1>22, <1>23, <1>24, <1>25, <1>26, <1>27
       DEF Step, Send, Recv, Detach, CancelDone

(* Receivers keep their books.                                             *)
LEMMA RecvKept ==
    ASSUME ChanBooks, NEW t \in Threads, NEW u \in Threads,
           Step(t) \/ Exit(t) \/ \E op \in Ops[t] : Begin(t, op)
    PROVE  RecvBooks(u)'
  <1>0. /\ TypeOK /\ Range(received) \subseteq Range(received')
        /\ \A v \in Threads : RecvBooks(v) /\ StillServed(t, v)
    BY Facts1, ReceivedStays, ServedKept
  <1>1. ASSUME NEW v \in Threads, Gets(t, v)
        PROVE  slot'[v] \notin Range(received) /\ slot'[v] \in Range(received')
    <2>1. /\ slot'[v] \notin Range(received) /\ slot'[v] \in Messages
          /\ received' = Append(received, slot'[v])
      BY <1>1, GetsNew
    <2>2. received \in Seq(Messages)
      BY <1>0 DEF TypeOK
    <2>3. slot'[v] \in Range(Append(received, slot'[v]))
      BY <2>1, <2>2, ListGrows
    <2> QED
      BY <2>1, <2>3
  <1>2. \A v, w \in Threads : Gets(t, v) /\ Gets(t, w) => v = w
    BY DEF Gets, Send, Recv
  <1>3. ASSUME NEW v \in Threads, Served(v)'
        PROVE  \/ Gets(t, v)
               \/ /\ Served(v) /\ slot'[v] = slot[v]
                  /\ slot'[v] \in Range(received)
    BY <1>0, <1>3 DEF StillServed, RecvBooks
  <1>4. Served(u)' => slot'[u] \in Range(received')
    BY <1>0, <1>1, <1>3
  <1>5. ASSUME Served(u)', NEW v \in Threads, Served(v)', slot'[v] = slot'[u]
        PROVE  v = u
    <2>1. CASE Gets(t, u)
      BY <1>1, <1>2, <1>3, <1>5, <2>1
    <2>2. CASE Gets(t, v)
      BY <1>1, <1>2, <1>3, <1>5, <2>2
    <2>3. CASE ~Gets(t, u) /\ ~Gets(t, v)
      BY <1>0, <1>3, <1>5, <2>3 DEF RecvBooks
    <2> QED
      BY <2>1, <2>2, <2>3
  <1>6. RecvRest(u)'
    BY RestKept
  <1> QED
    BY <1>4, <1>5, <1>6 DEF RecvBooks, RecvRest

(* The close is for ever, and a closed channel is never filled again.      *)
StaysShut ==
    /\ qcap' = qcap /\ (closed => closed')
    /\ closed' /\ Filled' => Filled

(* A closed channel stays closed.                                          *)
LEMMA ShutKept ==
    ASSUME ChanBooks, NEW t \in Threads,
           Step(t) \/ Exit(t) \/ \E op \in Ops[t] : Begin(t, op)
    PROVE  StaysShut
  <1>0. qlen \in 0 .. qcap /\ qcap \in Nat
    BY Facts1 DEF TypeOK
  <1>1. ASSUME NEW op \in Ops[t], Begin(t, op) PROVE StaysShut
    <2>1. UNCHANGED <<qcap, qlen, closed>>
      BY <1>1, BeginDoes, Zenon
    <2> QED
      BY <2>1 DEF StaysShut, Filled
  <1>2. ASSUME TrySendProbe(t) PROVE StaysShut
    BY <1>0, <1>2, TrySendProbeDoes DEF StaysShut, Filled
  <1>3. ASSUME TrySendSecond(t) PROVE StaysShut
    BY <1>0, <1>3, TrySendSecondDoes DEF StaysShut, Filled
  <1>4. ASSUME TryRecvProbe(t) PROVE StaysShut
    BY <1>0, <1>4, TryRecvProbeDoes DEF StaysShut, Filled
  <1>5. ASSUME TryRecvSecond(t) PROVE StaysShut
    BY <1>0, <1>5, TryRecvSecondDoes DEF StaysShut, Filled
  <1>6. ASSUME TryRecvThird(t) PROVE StaysShut
    BY <1>0, <1>6, TryRecvThirdDoes DEF StaysShut, Filled
  <1>7. ASSUME Send(t), SendClosed(t) PROVE StaysShut
    BY <1>0, <1>7, SendClosedDoes DEF StaysShut, Filled
  <1>8. ASSUME Send(t), SendDirect(t) PROVE StaysShut
    BY <1>0, <1>8, SendDirectDoes DEF StaysShut, Filled
  <1>9. ASSUME Send(t), SendEnqueue(t) PROVE StaysShut
    BY <1>0, <1>9, SendEnqueueDoes DEF StaysShut, Filled
  <1>10. ASSUME Send(t), SendFull(t), InCall(t, "trysend") PROVE StaysShut
    BY <1>0, <1>10, SendRefusedDoes DEF StaysShut, Filled
  <1>11. ASSUME Send(t), SendFull(t), ~InCall(t, "trysend") PROVE StaysShut
    BY <1>0, <1>11, SendParksDoes DEF StaysShut, Filled
  <1>12. ASSUME Recv(t), RecvClosed(t) PROVE StaysShut
    BY <1>0, <1>12, RecvClosedDoes DEF StaysShut, Filled
  <1>13. ASSUME Recv(t), RecvDirect(t) PROVE StaysShut
    BY <1>0, <1>13, RecvDirectDoes DEF StaysShut, Filled
  <1>14. ASSUME Recv(t), RecvDequeue(t) PROVE StaysShut
    BY <1>0, <1>14, RecvDequeueDoes DEF StaysShut, Filled
  <1>15. ASSUME Recv(t), RecvNothing(t), InCall(t, "tryrecv") PROVE StaysShut
    BY <1>0, <1>15, RecvRefusedDoes DEF StaysShut, Filled
  <1>16. ASSUME Recv(t), RecvNothing(t), ~InCall(t, "tryrecv") PROVE StaysShut
    BY <1>0, <1>16, RecvParksDoes DEF StaysShut, Filled
  <1>17. ASSUME Wake(t) PROVE StaysShut
    BY <1>0, <1>17, WakeDoes DEF StaysShut, Filled
  <1>18. ASSUME Register(t) PROVE StaysShut
    BY <1>0, <1>18, RegisterDoes DEF StaysShut, Filled
  <1>19. ASSUME Post(t) PROVE StaysShut
    BY <1>0, <1>19, PostDoes DEF StaysShut, Filled
  <1>20. ASSUME Clear(t) PROVE StaysShut
    BY <1>0, <1>20, ClearDoes DEF StaysShut, Filled
  <1>21. ASSUME Close(t) PROVE StaysShut
    BY <1>0, <1>21, CloseDoes DEF StaysShut, Filled
  <1>22. ASSUME Detach(t), At(t, "detachRecvq") PROVE StaysShut
    BY <1>0, <1>22, DetachRecvDoes DEF StaysShut, Filled
  <1>23. ASSUME Detach(t), At(t, "detachSendq") PROVE StaysShut
    BY <1>0, <1>23, DetachSendDoes DEF StaysShut, Filled
  <1>24. ASSUME Cancel(t) PROVE StaysShut
    BY <1>0, <1>24, CancelDoes DEF StaysShut, Filled
  <1>25. ASSUME CancelDone(t), sendq # << >> PROVE StaysShut
    BY <1>0, <1>25, CancelGoesOnDoes DEF StaysShut, Filled
  <1>26. ASSUME CancelDone(t), sendq = << >> PROVE StaysShut
    BY <1>0, <1>26, CancelEndsDoes DEF StaysShut, Filled
  <1>27. ASSUME Exit(t) PROVE StaysShut
    BY <1>0, <1>27, ExitDoes DEF StaysShut, Filled
  <1> QED
    BY <1>1, <1>2, <1>3, <1>4, <1>5, <1>6, <1>7, <1>8, <1>9, <1>10, <1>11,
       <1>12, <1>13, <1>14, <1>15, <1>16, <1>17, <1>18, <1>19, <1>20, <1>21,
       <1>22, <1>23, <1>24, <1>25, <1>26, <1>27
       DEF Step, Send, Recv, Detach, CancelDone

(* What Observe notes down.                                                *)
LEMMA FactsAre ==
    /\ "open" \in Facts <=> ~closed
    /\ "full" \in Facts <=> full
    /\ "openFull" \in Facts <=> ~closed /\ full
    /\ "openEmpty" \in Facts <=> ~closed /\ empty
  BY DEF Facts, Sights

(* What can be seen of the next state.                                     *)
LEMMA FactsAreNext ==
    /\ "open" \in Facts' <=> ~closed'
    /\ "full" \in Facts' <=> full'
    /\ "openFull" \in Facts' <=> ~closed' /\ full'
    /\ "openEmpty" \in Facts' <=> ~closed' /\ empty'
  BY DEF Facts, Sights

(* What a call has seen so far.                                            *)
LEMMA Observed ==
    ASSUME Observe, NEW u \in Threads
    PROVE  /\ pc'[u].at \in Outside => seen'[u] = seen[u]
           /\ pc'[u].at \notin Outside => Facts' \subseteq seen'[u]
           /\ calls'[u] = calls[u] => seen[u] \subseteq seen'[u]
  BY DEF Observe, Outside

(* A full ring is what a sender may call full.                             *)
LEMMA FilledIsFull ==
    ASSUME TypeOK
    PROVE  /\ Filled /\ ~closed => "openFull" \in Facts
           /\ full => Filled \/ qcap = 0
  BY FactsAre DEF Filled, full, TypeOK

(* A call that ends with "full" keeps what it has seen.                    *)
LEMMA FullStaysSeen ==
    ASSUME NEW t \in Threads, Ends(t, "full"), SawFull(t), qcap' = qcap,
           pc'[t].at \in Outside => seen'[t] = seen[t]
    PROVE  SeenBooks(t)'
  <1>1. pc'[t].at = "idle" /\ answer'[t] = "full" /\ seen'[t] = seen[t]
    BY DEF Ends, Outside
  <1>2. SawFull(t)'
    BY <1>1 DEF SawFull
  <1> QED
    BY <1>1, <1>2 DEF SeenBooks, At, Outside

(* What the thread that takes the step has seen.                           *)
LEMMA SeenMine ==
    ASSUME ChanBooks, NEW t \in Threads,
           Step(t) \/ Exit(t) \/ \E op \in Ops[t] : Begin(t, op),
           Observe
    PROVE  SeenBooks(t)'
  <1>0. /\ CallBooks(t) /\ SeenBooks(t) /\ TypeOK
        /\ qcap' = qcap /\ (closed => closed')
        /\ pc'[t].at \in Outside => seen'[t] = seen[t]
        /\ pc'[t].at \notin Outside => Facts' \subseteq seen'[t]
    <2>1. qcap' = qcap /\ (closed => closed')
      BY ShutKept DEF StaysShut
    <2> QED
      BY <2>1, Facts1, Observed
  <1>1. ASSUME NEW op \in Ops[t], Begin(t, op) PROVE SeenBooks(t)'
    <2>1. pc'[t].at \in {"probe", "lock"} /\ answer'[t] = "none"
      <3>1. /\ answer'[t] = "none"
            /\ pc'[t].at =
                  IF op \in {"trysend", "tryrecv"} THEN "probe" ELSE "lock"
        BY <1>1, BeginDoes, Zenon
      <3> QED
        BY <3>1
    <2> QED
      BY <1>0, <2>1 DEF SeenBooks, At, Outside
  <1>2. ASSUME TrySendProbe(t) PROVE SeenBooks(t)'
    <2>1. /\ pc'[t].at \in {"lock", "sawOpen", "sawFull"}
          /\ pc'[t].at = "sawOpen" => ~closed
          /\ pc'[t].at = "sawFull" => full
          /\ answer'[t] = "none"
          /\ UNCHANGED <<closed, qcap, qlen, recvq>>
      BY <1>0, <1>2, TrySendProbeDoes DEF Goes, CallBooks, Outside
    <2>2. full' = full
      BY <2>1 DEF full
    <2>3. /\ pc'[t].at = "sawOpen" => "open" \in seen'[t]
          /\ pc'[t].at = "sawFull" => "full" \in seen'[t]
          /\ pc'[t].at = "sawFull" => closed' \/ "openFull" \in seen'[t]
      BY <1>0, <2>1, <2>2, FactsAreNext DEF Outside
    <2> QED
      BY <1>0, <2>1, <2>3 DEF SeenBooks, At
  <1>3. ASSUME TrySendSecond(t) PROVE SeenBooks(t)'
    <2>1. CASE Goes(t, "lock")
      <3>1. pc'[t].at = "lock" /\ answer'[t] = "none"
        BY <1>0, <1>3, <2>1, TrySendSecondDoes DEF Goes, CallBooks, Outside
      <3> QED
        BY <1>0, <3>1 DEF SeenBooks, At
    <2>2. CASE Ends(t, "full") /\ pc[t].at = "sawOpen" /\ full
      <3>1. ~closed => "openFull" \in seen[t]
        BY <1>0, <2>2, FactsAre DEF SeenBooks, Outside
      <3>2. closed => "openFull" \in seen[t] \/ qcap = 0
        BY <1>0, <2>2, FilledIsFull DEF SeenBooks, At
      <3>3. "open" \in seen[t] /\ "full" \in seen[t]
        BY <1>0, <2>2, FactsAre DEF SeenBooks, At, Outside
      <3>4. SawFull(t)
        BY <3>1, <3>2, <3>3 DEF SawFull
      <3> QED
        BY <1>0, <2>2, <3>4, FullStaysSeen
    <2>3. CASE Ends(t, "full") /\ pc[t].at = "sawFull" /\ ~closed
      <3>1. SawFull(t)
        BY <1>0, <2>3, FactsAre DEF SeenBooks, SawFull, At, Outside
      <3> QED
        BY <1>0, <2>3, <3>1, FullStaysSeen
    <2> QED
      BY <1>3, <2>1, <2>2, <2>3, TrySendSecondDoes
  <1>4. ASSUME TryRecvProbe(t) PROVE SeenBooks(t)'
    <2>1. /\ pc'[t].at \in {"lock", "sawEmpty"}
          /\ pc'[t].at = "sawEmpty" => empty
          /\ answer'[t] = "none"
          /\ UNCHANGED <<closed, qcap, qlen, sendq>>
      BY <1>0, <1>4, TryRecvProbeDoes DEF Goes, CallBooks, Outside
    <2>2. empty' = empty
      BY <2>1 DEF empty
    <2>3. pc'[t].at = "sawEmpty" => closed' \/ "openEmpty" \in seen'[t]
      BY <1>0, <2>1, <2>2, FactsAreNext DEF Outside
    <2> QED
      BY <1>0, <2>1, <2>3 DEF SeenBooks, At
  <1>5. ASSUME TryRecvSecond(t) PROVE SeenBooks(t)'
    <2>1. CASE Goes(t, "sawClosed")
      <3>1. pc'[t].at = "sawClosed" /\ answer'[t] = "none"
        BY <1>0, <1>5, <2>1, TryRecvSecondDoes DEF Goes, CallBooks, Outside
      <3> QED
        BY <1>0, <3>1 DEF SeenBooks, At
    <2>2. CASE Ends(t, "empty") /\ ~closed
      <3>1. "openEmpty" \in seen[t]
        BY <1>0, <1>5, <2>2, TryRecvSecondDoes DEF SeenBooks, At
      <3> QED
        BY <1>0, <2>2, <3>1 DEF SeenBooks, At, Ends, Outside
    <2> QED
      BY <1>5, <2>1, <2>2, TryRecvSecondDoes
  <1>6. ASSUME TryRecvThird(t) PROVE SeenBooks(t)'
    <2>1. /\ pc'[t].at \notin {"sawOpen", "sawFull", "sawEmpty"}
          /\ answer'[t] \notin {"full", "empty"}
      BY <1>0, <1>6, TryRecvThirdDoes DEF Goes, Ends, Calls, CallBooks, Outside
    <2> QED
      BY <1>0, <2>1 DEF SeenBooks, At
  <1>7. ASSUME Send(t), SendClosed(t) PROVE SeenBooks(t)'
    <2>1. /\ pc'[t].at \notin {"sawOpen", "sawFull", "sawEmpty"}
          /\ answer'[t] \notin {"full", "empty"}
      BY <1>0, <1>7, SendClosedDoes DEF Goes, Ends, Calls, CallBooks, Outside
    <2> QED
      BY <1>0, <2>1 DEF SeenBooks, At
  <1>8. ASSUME Send(t), SendDirect(t) PROVE SeenBooks(t)'
    <2>1. /\ pc'[t].at \notin {"sawOpen", "sawFull", "sawEmpty"}
          /\ answer'[t] \notin {"full", "empty"}
      BY <1>0, <1>8, SendDirectDoes DEF Goes, Ends, Calls, CallBooks, Outside
    <2> QED
      BY <1>0, <2>1 DEF SeenBooks, At
  <1>9. ASSUME Send(t), SendEnqueue(t) PROVE SeenBooks(t)'
    <2>1. /\ pc'[t].at \notin {"sawOpen", "sawFull", "sawEmpty"}
          /\ answer'[t] \notin {"full", "empty"}
      BY <1>0, <1>9, SendEnqueueDoes DEF Goes, Ends, Calls, CallBooks, Outside
    <2> QED
      BY <1>0, <2>1 DEF SeenBooks, At
  <1>10. ASSUME Send(t), SendFull(t), InCall(t, "trysend") PROVE SeenBooks(t)'
    <2>1. /\ Ends(t, "full") /\ ~closed /\ pc[t].at = "lock"
          /\ recvq = << >> /\ qlen = qcap
      BY <1>10, SendRefusedDoes
    <2>2. SawFull(t)
      BY <1>0, <2>1, FactsAre DEF SeenBooks, SawFull, Outside, full
    <2> QED
      BY <1>0, <2>1, <2>2, FullStaysSeen
  <1>11. ASSUME Send(t), SendFull(t), ~InCall(t, "trysend")
        PROVE  SeenBooks(t)'
    <2>1. /\ pc'[t].at \notin {"sawOpen", "sawFull", "sawEmpty"}
          /\ answer'[t] \notin {"full", "empty"}
      BY <1>0, <1>11, SendParksDoes DEF Goes, Ends, Calls, CallBooks, Outside
    <2> QED
      BY <1>0, <2>1 DEF SeenBooks, At
  <1>12. ASSUME Recv(t), RecvClosed(t) PROVE SeenBooks(t)'
    <2>1. /\ pc'[t].at \notin {"sawOpen", "sawFull", "sawEmpty"}
          /\ answer'[t] \notin {"full", "empty"}
      BY <1>0, <1>12, RecvClosedDoes DEF Goes, Ends, Calls, CallBooks, Outside
    <2> QED
      BY <1>0, <2>1 DEF SeenBooks, At
  <1>13. ASSUME Recv(t), RecvDirect(t) PROVE SeenBooks(t)'
    <2>1. /\ pc'[t].at \notin {"sawOpen", "sawFull", "sawEmpty"}
          /\ answer'[t] \notin {"full", "empty"}
      BY <1>0, <1>13, RecvDirectDoes DEF Goes, Ends, Calls, CallBooks, Outside
    <2> QED
      BY <1>0, <2>1 DEF SeenBooks, At
  <1>14. ASSUME Recv(t), RecvDequeue(t) PROVE SeenBooks(t)'
    <2>1. /\ pc'[t].at \notin {"sawOpen", "sawFull", "sawEmpty"}
          /\ answer'[t] \notin {"full", "empty"}
      BY <1>0, <1>14, RecvDequeueDoes DEF Goes, Ends, Calls, CallBooks, Outside
    <2> QED
      BY <1>0, <2>1 DEF SeenBooks, At
  <1>15. ASSUME Recv(t), RecvNothing(t), InCall(t, "tryrecv")
        PROVE  SeenBooks(t)'
    <2>1. /\ Ends(t, "empty") /\ ~closed /\ pc[t].at = "lock"
          /\ sendq = << >> /\ qlen = 0
      BY <1>15, RecvRefusedDoes
    <2>2. "openEmpty" \in seen[t]
      BY <1>0, <2>1, FactsAre DEF SeenBooks, Outside, empty
    <2> QED
      BY <1>0, <2>1, <2>2 DEF SeenBooks, At, Ends, Outside
  <1>16. ASSUME Recv(t), RecvNothing(t), ~InCall(t, "tryrecv")
        PROVE  SeenBooks(t)'
    <2>1. /\ pc'[t].at \notin {"sawOpen", "sawFull", "sawEmpty"}
          /\ answer'[t] \notin {"full", "empty"}
      BY <1>0, <1>16, RecvParksDoes DEF Goes, Ends, Calls, CallBooks, Outside
    <2> QED
      BY <1>0, <2>1 DEF SeenBooks, At
  <1>17. ASSUME Wake(t) PROVE SeenBooks(t)'
    <2>1. /\ pc'[t].at \notin {"sawOpen", "sawFull", "sawEmpty"}
          /\ answer'[t] \notin {"full", "empty"}
      BY <1>0, <1>17, WakeDoes DEF Goes, Ends, Calls, CallBooks, Outside
    <2> QED
      BY <1>0, <2>1 DEF SeenBooks, At
  <1>18. ASSUME Register(t) PROVE SeenBooks(t)'
    <2>1. /\ pc'[t].at \notin {"sawOpen", "sawFull", "sawEmpty"}
          /\ answer'[t] \notin {"full", "empty"}
      BY <1>0, <1>18, RegisterDoes DEF Goes, Ends, Calls, CallBooks, Outside
    <2> QED
      BY <1>0, <2>1 DEF SeenBooks, At
  <1>19. ASSUME Post(t) PROVE SeenBooks(t)'
    <2>1. /\ pc'[t].at \notin {"sawOpen", "sawFull", "sawEmpty"}
          /\ answer'[t] \notin {"full", "empty"}
      BY <1>0, <1>19, PostDoes DEF Goes, Ends, Calls, CallBooks, Outside
    <2> QED
      BY <1>0, <2>1 DEF SeenBooks, At
  <1>20. ASSUME Clear(t) PROVE SeenBooks(t)'
    <2>1. /\ pc'[t].at \notin {"sawOpen", "sawFull", "sawEmpty"}
          /\ answer'[t] \notin {"full", "empty"}
      BY <1>0, <1>20, ClearDoes DEF Goes, Ends, Calls, CallBooks, Outside
    <2> QED
      BY <1>0, <2>1 DEF SeenBooks, At
  <1>21. ASSUME Close(t) PROVE SeenBooks(t)'
    <2>1. /\ pc'[t].at \notin {"sawOpen", "sawFull", "sawEmpty"}
          /\ answer'[t] \notin {"full", "empty"}
      BY <1>0, <1>21, CloseDoes DEF Goes, Ends, Calls, CallBooks, Outside
    <2> QED
      BY <1>0, <2>1 DEF SeenBooks, At
  <1>22. ASSUME Detach(t), At(t, "detachRecvq") PROVE SeenBooks(t)'
    <2>1. /\ pc'[t].at \notin {"sawOpen", "sawFull", "sawEmpty"}
          /\ answer'[t] \notin {"full", "empty"}
      BY <1>0, <1>22, DetachRecvDoes DEF Goes, Ends, Calls, CallBooks, Outside
    <2> QED
      BY <1>0, <2>1 DEF SeenBooks, At
  <1>23. ASSUME Detach(t), At(t, "detachSendq") PROVE SeenBooks(t)'
    <2>1. /\ pc'[t].at \notin {"sawOpen", "sawFull", "sawEmpty"}
          /\ answer'[t] \notin {"full", "empty"}
      BY <1>0, <1>23, DetachSendDoes DEF Goes, Ends, Calls, CallBooks, Outside
    <2> QED
      BY <1>0, <2>1 DEF SeenBooks, At
  <1>24. ASSUME Cancel(t) PROVE SeenBooks(t)'
    <2>1. /\ pc'[t].at \notin {"sawOpen", "sawFull", "sawEmpty"}
          /\ answer'[t] \notin {"full", "empty"}
      BY <1>0, <1>24, CancelDoes DEF Goes, Ends, Calls, CallBooks, Outside
    <2> QED
      BY <1>0, <2>1 DEF SeenBooks, At
  <1>25. ASSUME CancelDone(t), sendq # << >> PROVE SeenBooks(t)'
    <2>1. /\ pc'[t].at \notin {"sawOpen", "sawFull", "sawEmpty"}
          /\ answer'[t] \notin {"full", "empty"}
      BY <1>0, <1>25, CancelGoesOnDoes DEF Goes, Ends, Calls, CallBooks, Outside
    <2> QED
      BY <1>0, <2>1 DEF SeenBooks, At
  <1>26. ASSUME CancelDone(t), sendq = << >> PROVE SeenBooks(t)'
    <2>1. /\ pc'[t].at \notin {"sawOpen", "sawFull", "sawEmpty"}
          /\ answer'[t] \notin {"full", "empty"}
      BY <1>0, <1>26, CancelEndsDoes DEF Goes, Ends, Calls, CallBooks, Outside
    <2> QED
      BY <1>0, <2>1 DEF SeenBooks, At
  <1>27. ASSUME Exit(t) PROVE SeenBooks(t)'
    <2>1. Goes(t, "dead") /\ seen'[t] = seen[t]
      BY <1>0, <1>27, ExitDoes DEF Goes, Outside
    <2>2. answer[t] = "full" => SawFull(t)'
      BY <1>0, <2>1 DEF SeenBooks, SawFull, Goes, Outside
    <2> QED
      BY <1>0, <2>1, <2>2 DEF SeenBooks, At, Goes, Outside
  <1> QED
    BY <1>1, <1>2, <1>3, <1>4, <1>5, <1>6, <1>7, <1>8, <1>9, <1>10, <1>11,
       <1>12, <1>13, <1>14, <1>15, <1>16, <1>17, <1>18, <1>19, <1>20, <1>21,
       <1>22, <1>23, <1>24, <1>25, <1>26, <1>27
       DEF Step, Send, Recv, Detach, CancelDone

(* What the others have: a channel that is full when it is closed was full *)
(* and open to every call under way.                                       *)
LEMMA SeenKept ==
    ASSUME ChanBooks, NEW t \in Threads, NEW u \in Threads,
           Step(t) \/ Exit(t) \/ \E op \in Ops[t] : Begin(t, op),
           Observe
    PROVE  SeenBooks(u)'
  <1>1. CASE u = t
    BY <1>1, SeenMine
  <1>2. CASE u # t
    <2>1. /\ CallBooks(u) /\ SeenBooks(u) /\ TypeOK
          /\ qcap' = qcap /\ (closed => closed') /\ (closed' /\ Filled' => Filled)
          /\ pc'[u].at \in Outside => seen'[u] = seen[u]
          /\ pc'[u].at \notin Outside => Facts' \subseteq seen'[u]
          /\ calls'[u] = calls[u] => seen[u] \subseteq seen'[u]
      <3>1. qcap' = qcap /\ (closed => closed') /\ (closed' /\ Filled' => Filled)
        BY ShutKept DEF StaysShut
      <3> QED
        BY <3>1, Facts1, Observed
    <2>2. /\ pc'[u] = pc[u] /\ answer'[u] = answer[u]
          /\ seen[u] \subseteq seen'[u]
      BY <1>2, <2>1, CallKept DEF Others
    <2>3. ASSUME pc[u].at = "sawOpen", closed', Filled'
          PROVE  "openFull" \in seen[u]
      <3>1. CASE closed
        BY <2>1, <2>3, <3>1 DEF SeenBooks, At
      <3>2. CASE ~closed
        BY <2>1, <2>3, <3>2, FilledIsFull DEF SeenBooks, Outside
      <3> QED
        BY <3>1, <3>2
    <2>4. answer[u] = "full" => SawFull(u)'
      BY <2>1, <2>2 DEF SeenBooks, SawFull
    <2> QED
      BY <2>1, <2>2, <2>3, <2>4 DEF SeenBooks, At
  <1> QED
    BY <1>1, <1>2

(* No queue holds a thread twice.                                          *)
LEMMA QueuesKept ==
    ASSUME ChanBooks, NEW t \in Threads,
           Step(t) \/ Exit(t) \/ \E op \in Ops[t] : Begin(t, op)
    PROVE  Queues'
  <1>1. ASSUME NEW op \in Ops[t], Begin(t, op) PROVE Queues'
    <2>1. Quiet
      BY <1>1, QuietMoves DEF QuietStep
    <2> QED
      BY <2>1 DEF Quiet, Lists
  <1>2. ASSUME TrySendProbe(t) PROVE Queues'
    <2>1. Quiet
      BY <1>2, QuietMoves DEF QuietStep
    <2> QED
      BY <2>1 DEF Quiet, Lists
  <1>3. ASSUME TrySendSecond(t) PROVE Queues'
    <2>1. Quiet
      BY <1>3, QuietMoves DEF QuietStep
    <2> QED
      BY <2>1 DEF Quiet, Lists
  <1>4. ASSUME TryRecvProbe(t) PROVE Queues'
    <2>1. Quiet
      BY <1>4, QuietMoves DEF QuietStep
    <2> QED
      BY <2>1 DEF Quiet, Lists
  <1>5. ASSUME TryRecvSecond(t) PROVE Queues'
    <2>1. Quiet
      BY <1>5, QuietMoves DEF QuietStep
    <2> QED
      BY <2>1 DEF Quiet, Lists
  <1>6. ASSUME TryRecvThird(t) PROVE Queues'
    <2>1. Quiet
      BY <1>6, QuietMoves DEF QuietStep
    <2> QED
      BY <2>1 DEF Quiet, Lists
  <1>7. ASSUME Send(t), SendClosed(t) PROVE Queues'
    <2>1. Quiet
      BY <1>7, QuietMoves DEF QuietStep
    <2> QED
      BY <2>1 DEF Quiet, Lists
  <1>8. ASSUME Send(t), SendDirect(t) PROVE Queues'
    BY <1>8, SendDirectMoves DEF Lists
  <1>9. ASSUME Send(t), SendEnqueue(t) PROVE Queues'
    <2>1. Quiet
      BY <1>9, QuietMoves DEF QuietStep
    <2> QED
      BY <2>1 DEF Quiet, Lists
  <1>10. ASSUME Send(t), SendFull(t), InCall(t, "trysend") PROVE Queues'
    <2>1. Quiet
      BY <1>10, QuietMoves DEF QuietStep
    <2> QED
      BY <2>1 DEF Quiet, Lists
  <1>11. ASSUME Send(t), SendFull(t), ~InCall(t, "trysend") PROVE Queues'
    BY <1>11, SendParksMoves DEF Lists
  <1>12. ASSUME Recv(t), RecvClosed(t) PROVE Queues'
    <2>1. Quiet
      BY <1>12, QuietMoves DEF QuietStep
    <2> QED
      BY <2>1 DEF Quiet, Lists
  <1>13. ASSUME Recv(t), RecvDirect(t) PROVE Queues'
    BY <1>13, RecvDirectMoves DEF Lists
  <1>14. ASSUME Recv(t), RecvDequeue(t) PROVE Queues'
    <2>1. Quiet
      BY <1>14, QuietMoves DEF QuietStep
    <2> QED
      BY <2>1 DEF Quiet, Lists
  <1>15. ASSUME Recv(t), RecvNothing(t), InCall(t, "tryrecv") PROVE Queues'
    <2>1. Quiet
      BY <1>15, QuietMoves DEF QuietStep
    <2> QED
      BY <2>1 DEF Quiet, Lists
  <1>16. ASSUME Recv(t), RecvNothing(t), ~InCall(t, "tryrecv") PROVE Queues'
    BY <1>16, RecvParksMoves DEF Lists
  <1>17. ASSUME Wake(t) PROVE Queues'
    <2>1. Quiet
      BY <1>17, QuietMoves DEF QuietStep
    <2> QED
      BY <2>1 DEF Quiet, Lists
  <1>18. ASSUME Register(t) PROVE Queues'
    BY <1>18, SignalMoves DEF Lists
  <1>19. ASSUME Post(t) PROVE Queues'
    BY <1>19, SignalMoves DEF Lists
  <1>20. ASSUME Clear(t) PROVE Queues'
    BY <1>20, SignalMoves DEF Lists
  <1>21. ASSUME Close(t) PROVE Queues'
    BY <1>21, CloseMoves DEF Lists
  <1>22. ASSUME Detach(t), At(t, "detachRecvq") PROVE Queues'
    BY <1>22, CloseMoves DEF Lists, At
  <1>23. ASSUME Detach(t), At(t, "detachSendq") PROVE Queues'
    BY <1>23, CloseMoves DEF Lists, At
  <1>24. ASSUME Cancel(t) PROVE Queues'
    BY <1>24, CloseMoves DEF Lists
  <1>25. ASSUME CancelDone(t), sendq # << >> PROVE Queues'
    BY <1>25, CloseMoves DEF Lists
  <1>26. ASSUME CancelDone(t), sendq = << >> PROVE Queues'
    BY <1>26, CloseMoves DEF Lists
  <1>27. ASSUME Exit(t) PROVE Queues'
    <2>1. Quiet
      BY <1>27, QuietMoves DEF QuietStep
    <2> QED
      BY <2>1 DEF Quiet, Lists
  <1> QED
    BY <1>1, <1>2, <1>3, <1>4, <1>5, <1>6, <1>7, <1>8, <1>9, <1>10, <1>11,
       <1>12, <1>13, <1>14, <1>15, <1>16, <1>17, <1>18, <1>19, <1>20, <1>21,
       <1>22, <1>23, <1>24, <1>25, <1>26, <1>27
       DEF Step, Send, Recv, Detach, CancelDone

-----------------------------------------------------------------------------
(* Nothing changes in a step that is none of these.                        *)
LEMMA BooksRest ==
    ASSUME ChanBooks, UNCHANGED vars
    PROVE  ChanBooks'
  <1>1. UNCHANGED <<qcap, buf, qlen, sendx, recvx, sendq, recvq, closed, lock,
                    accepted, received, pc, calls, slot, tclosed, sema,
                    signals, answer, seen, fault, aborted>>
    BY DEF vars, shared, ring, waiters, history
  <1>2. TypeOK' /\ ~fault' /\ NoneWaitsInVain'
    BY <1>1 DEF ChanBooks, TypeOK, NoneWaitsInVain
  <1>3. Conserved'
    BY <1>1, ConservedSame DEF ChanBooks
  <1>4. /\ Rest' = Rest /\ full' = full /\ empty' = empty
        /\ \A u : WakersOf(u)' = WakersOf(u) /\ Callers(u)' = Callers(u)
    BY <1>1 DEF Rest, full, empty, WakersOf, Callers
  <1>5. Queues'
    BY <1>1, <1>4 DEF ChanBooks, Books, Queues
  <1>6. Facts' = Facts
    BY <1>1, <1>4 DEF Facts
  <1>7. \A u : Called(u)' = Called(u)
    BY <1>1, <1>4 DEF Called
  <1>8. ASSUME NEW u \in Threads
        PROVE  /\ CallBooks(u)' /\ LockBooks(u)' /\ WaitBooks(u)'
               /\ SignalBooks(u)' /\ SendBooks(u)' /\ RecvBooks(u)'
               /\ SeenBooks(u)'
    <2>0. /\ CallBooks(u) /\ LockBooks(u) /\ WaitBooks(u) /\ SignalBooks(u)
          /\ SendBooks(u) /\ RecvBooks(u) /\ SeenBooks(u)
      BY Facts1
    <2> USE DEF At, InCall
    <2>1. CallBooks(u)'
      BY <1>1, <2>0 DEF CallBooks
    <2>2. LockBooks(u)'
      BY <1>1, <2>0 DEF LockBooks
    <2>3. WaitBooks(u)'
      BY <1>1, <1>4, <1>7, <2>0 DEF WaitBooks
    <2>4. SignalBooks(u)'
      BY <1>1, <1>4, <2>0 DEF SignalBooks
    <2>5. SendBooks(u)'
      BY <1>1, <1>4, <1>7, <2>0 DEF SendBooks, Taken, Message
    <2>6. RecvBooks(u)'
      <3>1. NothingLeft' = NothingLeft
        BY <1>1 DEF NothingLeft
      <3>2. \A v \in Threads : Served(v)' = Served(v)
        BY <1>1, <1>7 DEF Served
      <3> QED
        BY <1>1, <1>4, <1>7, <2>0, <3>1, <3>2 DEF RecvBooks
    <2>7. SeenBooks(u)'
      BY <1>1, <1>6, <2>0 DEF SeenBooks, SawFull, Filled
    <2> QED
      BY <2>1, <2>2, <2>3, <2>4, <2>5, <2>6, <2>7
  <1> QED
    BY <1>2, <1>3, <1>5, <1>8 DEF ChanBooks, Books

(* Every step keeps the books,                                             *)
LEMMA BooksStep ==
    ASSUME ChanBooks, NEW t \in Threads,
           Step(t) \/ Exit(t) \/ \E op \in Ops[t] : Begin(t, op),
           Observe
    PROVE  ChanBooks'
  <1>1. TypeOK' /\ ~fault' /\ Conserved' /\ NoneWaitsInVain' /\ Queues'
    BY TypeKept, FaultKept, ConservedKept, VainKept, QueuesKept
  <1>2. ASSUME NEW u \in Threads
        PROVE  /\ CallBooks(u)' /\ LockBooks(u)' /\ WaitBooks(u)'
               /\ SignalBooks(u)' /\ SendBooks(u)' /\ RecvBooks(u)'
               /\ SeenBooks(u)'
    <2>1. CallBooks(u)'
      <3>1. CallBooks(u) /\ CallBooks(t)' /\ Others(t)
        BY Facts1, CallKept
      <3>2. u # t => pc'[u] = pc[u] /\ answer'[u] = answer[u]
        BY <3>1 DEF Others
      <3> QED
        BY <3>1, <3>2 DEF CallBooks, At, InCall
    <2>2. LockBooks(u)' /\ WaitBooks(u)' /\ SignalBooks(u)'
      BY LockKept, WaitKept, SignalKept
    <2>3. SendBooks(u)' /\ RecvBooks(u)' /\ SeenBooks(u)'
      BY SendKept, RecvKept, SeenKept
    <2> QED
      BY <2>1, <2>2, <2>3
  <1> QED
    BY <1>1, <1>2 DEF ChanBooks, Books

(* which are right when the channel is made,                               *)
LEMMA BooksOpened ==
    ASSUME Init
    PROVE  ChanBooks
  <1> USE ChannelAssumption, EmptyList DEF Init, Idle
  <1>1. TypeOK
    <2>1. /\ qcap \in Nat /\ 0 \in 0 .. qcap
          /\ buf \in [0 .. qcap - 1 -> Messages \cup {None}]
      OBVIOUS
    <2>2. Idle \in Places
      BY DEF Places, Ats, Outside
    <2>3. RingType
      <3>1. /\ qlen \in 0 .. qcap /\ sendx \in Nat /\ recvx \in Nat
            /\ qcap > 0 => sendx < qcap /\ recvx < qcap
        BY <2>1
      <3>2. /\ sendq \in Seq(Threads) /\ recvq \in Seq(Threads)
            /\ accepted \in Seq(Messages) /\ received \in Seq(Messages)
        OBVIOUS
      <3>3. /\ closed \in BOOLEAN /\ aborted \in BOOLEAN
            /\ lock \in Threads \cup {None}
        BY Zenon
      <3> QED
        BY <2>1, <3>1, <3>2, <3>3, Zenon DEF RingType
    <2>4. ThreadType
      BY DEF ThreadType, Answers
    <2>5. PlaceType /\ SeenType
      BY <2>2 DEF PlaceType, SeenType
    <2> QED
      BY <2>3, <2>4, <2>5, TypeParts
  <1>2. ~fault /\ NoneWaitsInVain
    BY DEF NoneWaitsInVain
  <1>3. Conserved
    <2>1. Ring = << >>
      BY DEF Ring
    <2>2. accepted = received \o Ring /\ IsInjective(accepted)
      BY <2>1
    <2>3. qcap \in Nat
      OBVIOUS
    <2>4. qcap > 0 => (0 + 0) % qcap = 0
      BY <2>3, Wraps
    <2> QED
      BY <2>2, <2>4 DEF Conserved
  <1>4. Rest = << >> /\ Queues
    BY DEF Rest, Queues
  <1>5. \A u \in Threads : WakersOf(u) = {} /\ Callers(u) = {} /\ ~Called(u)
    BY DEF WakersOf, Callers, Called
  <1>6. ASSUME NEW u \in Threads
        PROVE  /\ CallBooks(u) /\ LockBooks(u) /\ WaitBooks(u)
               /\ SignalBooks(u) /\ SendBooks(u) /\ RecvBooks(u)
               /\ SeenBooks(u)
    <2> USE DEF At, InCall
    <2>0. /\ pc[u].at = "idle" /\ pc[u].op = None /\ pc[u].rest = << >>
          /\ answer[u] = "none" /\ lock # u
      OBVIOUS
    <2>1. CallBooks(u)
      BY <2>0 DEF CallBooks, Outside, Signalling, Closing, OpNames
    <2>2. LockBooks(u)
      BY <2>0 DEF LockBooks, OpNames
    <2>3. WaitBooks(u)
      BY <1>4, <1>5, <2>0 DEF WaitBooks
    <2>4. SignalBooks(u)
      BY <1>5, FS_EmptySet DEF SignalBooks
    <2>5. SendBooks(u)
      BY <1>4, <1>5, <2>0 DEF SendBooks, Sending, OpNames
    <2>6. RecvBooks(u)
      BY <1>4, <1>5, <2>0 DEF RecvBooks, Served, Receiving, OpNames
    <2>7. SeenBooks(u)
      BY <2>0 DEF SeenBooks, Outside
    <2> QED
      BY <2>1, <2>2, <2>3, <2>4, <2>5, <2>6, <2>7
  <1> QED
    BY <1>1, <1>2, <1>3, <1>4, <1>6 DEF ChanBooks, Books

(* and so always.                                                          *)
LEMMA BooksKept == Spec => []ChanBooks
  <1>1. Init => ChanBooks
    BY BooksOpened
  <1>2. ChanBooks /\ [Next]_vars => ChanBooks'
    <2> SUFFICES ASSUME ChanBooks, [Next]_vars PROVE ChanBooks'
      OBVIOUS
    <2>1. CASE UNCHANGED vars
      BY <2>1, BooksRest
    <2>2. CASE Over
      BY <2>2, BooksRest DEF Over
    <2>3. CASE Next /\ ~Over
      <3>1. PICK t \in Threads :
               /\ Step(t) \/ Exit(t) \/ \E op \in Ops[t] : Begin(t, op)
               /\ Observe
        BY <2>3 DEF Next
      <3> QED
        BY <3>1, BooksStep
    <2> QED
      BY <2>1, <2>2, <2>3
  <1> QED
    BY <1>1, <1>2, PTL DEF Spec

-----------------------------------------------------------------------------
(* Where a parked thread stands, counted.                                  *)
LEMMA CausesCounted ==
    ASSUME ChanBooks
    PROVE  OneCause
  <1> SUFFICES ASSUME NEW u \in Threads
               PROVE  Occurs(u, sendq) + Occurs(u, recvq) + sema[u]
                        + Cardinality(WakersOf(u)) + Occurs(u, Rest)
                        = IF At(u, "parked") THEN 1 ELSE 0
    BY DEF OneCause
  <1> DEFINE One(p) == IF p THEN 1 ELSE 0
  <1>1. WaitBooks(u) /\ Queues /\ TypeOK
    BY Facts1
  <1>2. /\ Occurs(u, sendq) = One(u \in Range(sendq))
        /\ Occurs(u, recvq) = One(u \in Range(recvq))
    BY <1>1, OccursOnce DEF TypeOK, Queues
  <1>3. Occurs(u, Rest) = One(u \in Range(Rest))
    BY <1>1, RestType, OccursOnce DEF Queues
  <1>4. Cardinality(WakersOf(u)) = One(WakersOf(u) # {})
    <2>1. CASE WakersOf(u) = {}
      BY <2>1, FS_EmptySet
    <2>2. CASE WakersOf(u) # {}
      <3>1. PICK t : WakersOf(u) = {t}
        BY <1>1, <2>2 DEF WaitBooks
      <3> QED
        BY <3>1, FS_Singleton
    <2> QED
      BY <2>1, <2>2
  <1>5. sema[u] = One(sema[u] = 1)
    BY <1>1 DEF TypeOK
  <1> DEFINE a == u \in Range(sendq)
             b == u \in Range(recvq)
             c == sema[u] = 1
             d == WakersOf(u) # {}
             e == u \in Range(Rest)
             p == At(u, "parked")
  <1>6. /\ a => p /\ ~b /\ ~c /\ ~d /\ ~e
        /\ b => p /\ ~c /\ ~d /\ ~e
        /\ e => p /\ ~c /\ ~d
        /\ c => p /\ ~d
        /\ d => p
        /\ p => a \/ b \/ c \/ d \/ e
    BY <1>1 DEF WaitBooks, Called, TypeOK
  <1>7. \A i, j, k, l, m, n \in BOOLEAN :
           /\ i => n /\ ~j /\ ~k /\ ~l /\ ~m
           /\ j => n /\ ~k /\ ~l /\ ~m
           /\ m => n /\ ~k /\ ~l
           /\ k => n /\ ~l
           /\ l => n
           /\ n => i \/ j \/ k \/ l \/ m
           => One(i) + One(j) + One(k) + One(l) + One(m) = One(n)
    OBVIOUS
  <1> QED
    BY <1>2, <1>3, <1>4, <1>5, <1>6, <1>7

(* They imply the invariant that the run checks,                           *)
LEMMA BooksSafe ==
    ASSUME ChanBooks
    PROVE  ChanInv
  BY CausesCounted DEF ChanBooks, ChanInv

(* When nothing is left, what was accepted was received.                   *)
LEMMA AllReceived ==
    ASSUME ChanBooks, qlen = 0
    PROVE  accepted = received
  <1>1. Ring = << >>
    BY DEF Ring
  <1>2. accepted = received \o Ring /\ received \in Seq(Messages)
    BY DEF ChanBooks, Conserved, TypeOK
  <1> QED
    BY <1>1, <1>2

(* and that its answers are honest.                                        *)
LEMMA BooksHonest ==
    ASSUME ChanBooks
    PROVE  HonestAnswers
  <1> SUFFICES ASSUME NEW t \in Threads
               PROVE  /\ answer[t] = "full" => SawFull(t)
                      /\ answer[t] = "empty" => "openEmpty" \in seen[t]
                      /\ answer[t] = "drained" =>
                            closed /\ sendq = << >> /\ accepted = received
                      /\ answer[t] = "sent" => Message(t) \in Range(accepted)
                      /\ answer[t] \in {"full", "closed", "cancelled"} =>
                            Message(t) \notin Range(accepted)
                      /\ answer[t] = "got" =>
                            /\ slot[t] \in Range(received)
                            /\ \A u \in Threads \ {t} :
                                  answer[u] = "got" => slot[u] # slot[t]
    BY DEF HonestAnswers
  <1>1. SendBooks(t) /\ RecvBooks(t) /\ SeenBooks(t)
    BY Facts1
  <1>2. answer[t] = "drained" =>
           closed /\ sendq = << >> /\ accepted = received
    BY <1>1, AllReceived DEF RecvBooks, NothingLeft
  <1>3. answer[t] = "got" =>
           /\ slot[t] \in Range(received)
           /\ \A u \in Threads \ {t} : answer[u] = "got" => slot[u] # slot[t]
    BY <1>1 DEF RecvBooks, Served
  <1>4. /\ answer[t] = "sent" => Message(t) \in Range(accepted)
        /\ answer[t] \in {"full", "closed", "cancelled"} =>
              Message(t) \notin Range(accepted)
    BY <1>1 DEF SendBooks, Taken
  <1> QED
    BY <1>1, <1>2, <1>3, <1>4 DEF SeenBooks

(* The channel neither loses, duplicates nor reorders a message, leaves    *)
(* nobody parked for what is there, gives every parked thread exactly one  *)
(* cause to wake up, and never touches the Thr of a thread that has        *)
(* returned, parked again or exited: for any threads, capacity and calls.  *)
THEOREM ChannelSafe == Spec => []ChanInv
  <1>1. ChanBooks => ChanInv
    BY BooksSafe
  <1> QED
    BY <1>1, BooksKept, PTL

(* "empty", and "full" of a buffered channel, were so at a moment of the   *)
(* call at which the channel was open; "full" of an unbuffered one means a *)
(* moment at which it was open and one at which no receiver waited, which  *)
(* need not be the same (FullWhileOpen is violated); "drained" is answered *)
(* only when nothing accepted is left, "sent" exactly when the message was *)
(* taken, and what a receiver got no other receiver got.                   *)
THEOREM AnswersTrue == Spec => []HonestAnswers
  <1>1. ChanBooks => HonestAnswers
    BY BooksHonest
  <1> QED
    BY <1>1, BooksKept, PTL
=============================================================================
