---------------------------- MODULE TrafficShaper ----------------------------
(***************************************************************************)
(* Bandwidth limits of a user: the shaper of each direction of a line      *)
(* (ww/net/traffic_shaper.c), the adapter that ties it to a user           *)
(* (tunnels/Internals/UserController/common/bandwidth.c) and the user's    *)
(* own credit and queue of waiters (ww/objects/user.c).                    *)
(*                                                                         *)
(* A direction lives on one worker and runs its calls alone; the user is   *)
(* shared by all of them under its two locks.  One step of a direction is  *)
(* what it does in one hold of those locks, so that another worker may     *)
(* spend credit, change the limit or leave the queue between the preview   *)
(* of a delivery and its commit.  The clock is the action Earn: credit     *)
(* grows up to the capacity in force, which is what a refill at the next   *)
(* question computes (module RateBucket).  A retry timer may fire at any   *)
(* time.                                                                   *)
(***************************************************************************)
EXTENDS Integers, Sequences, FiniteSets, SequencesExt, FiniteSetsExt

CONSTANTS
    Directions,
    None,
    Datagram,     \* the directions in datagram mode
    Loads,        \* the loads, see LoadType
    Slice,        \* the most one stream turn may ask for (16384)
    LineBudget,   \* bytes a line may retain
    UserBudget,   \* bytes a user may retain (4 MiB)
    MaxWaiters,   \* waiters of a user (1024)
    Quota         \* traffic the user may still spend

(* What a load leaves open: sizes[d], the payloads given to direction d in *)
(* turn; rates, the user's limits, where 0 is none and r holds r bytes of  *)
(* credit; changes, how often the limit is changed; fails, whether         *)
(* queueing or splitting a buffer may be refused.                          *)
LoadType ==
    [sizes : [Directions -> Seq(SUBSET Nat)], rates : SUBSET Nat,
     changes : Nat, fails : BOOLEAN]

ASSUME ShaperAssumption ==
    /\ Datagram \subseteq Directions /\ None \notin Directions
    /\ \A l \in Loads : l \in LoadType
    /\ Slice \in Nat \ {0} /\ Quota \in Nat

VARIABLES
    user,     \* user_bandwidth_state_t and what the checks read of the user
    sh,       \* sh[d]: the shaper, its ticket and what neighbours saw of it
    pc,       \* pc[d]: where the call in progress on d stands
    arg,      \* arg[d]: its locals
    stopping, \* shaping_stopping
    load,     \* the load
    changes,  \* changes of the limit so far
    charged   \* history: bytes charged to the user

vars == <<user, sh, pc, arg, stopping, load, changes, charged>>

Total(seq) == FoldSeq(LAMBDA a, b : a + b, 0, seq)
Lesser(a, b) == IF a < b THEN a ELSE b
Without(seq, d) == SelectSeq(seq, LAMBDA e : e # d)

-----------------------------------------------------------------------------
(* The user.                                                               *)

Cap(u) == IF u.over # None THEN u.overcap ELSE u.rate

(* userBandwidthHead.                                                      *)
First(u) ==
    LET ready == SelectSeq(u.waiters, LAMBDA d : u.eligible[d])
    IN  IF ready = <<>> THEN None ELSE ready[1]

\* Mutant of EndOversized: the larger cap ends but the credit is not cut.
EndOversized_NoClamp(u, d) ==
    IF d = None \/ u.over # d THEN u
    ELSE [u EXCEPT !.over = None, !.overcap = 0]

EndOversized(u, d) ==
    IF d = None \/ u.over # d THEN u
    ELSE [u EXCEPT !.over = None, !.overcap = 0,
                   !.credit = Lesser(@, u.rate)]

\* Mutant of SetEligible: a waiter that pauses stays in the running.
SetEligible_Sticky(u, d, e) ==
    IF d \notin Range(u.waiters) \/ u.eligible[d] = e \/ ~e THEN u
    ELSE [u EXCEPT !.eligible[d] = e,
                   !.waiters = Append(Without(@, d), d)]

(* userBandwidthSetEligible.                                               *)
SetEligible(u, d, e) ==
    IF d \notin Range(u.waiters) \/ u.eligible[d] = e THEN u
    ELSE [EndOversized(u, d) EXCEPT
            !.eligible[d] = e,
            !.waiters = IF e THEN Append(Without(@, d), d) ELSE @]

(* userBandwidthCancel.                                                    *)
Cancel(u, d) ==
    IF d \notin Range(u.waiters) THEN u
    ELSE [EndOversized(u, d) EXCEPT !.waiters = Without(@, d),
                                    !.eligible[d] = FALSE, !.cost[d] = 0]

Answer(u, decision, grant) ==
    [user |-> u, decision |-> decision, grant |-> grant]

(* userBandwidthPreviewLocked.  t is None for a caller without a ticket.   *)
(* An oversized datagram at the head installs a larger cap of its own.     *)
Preview(u, d, t, n) ==
    LET dg == d \in Datagram
        wanted == IF dg \/ (t = None /\ u.rate = 0) THEN n
                  ELSE Lesser(n, Slice)
        grant == IF ~dg THEN Lesser(wanted, u.credit)
                 ELSE IF u.credit >= wanted THEN wanted ELSE 0
        v == IF dg /\ n > u.rate /\ t # None /\ u.over = None
             THEN [u EXCEPT !.over = t, !.overcap = n] ELSE u
    IN  IF u.quota = 0 \/ (t # None /\ t \notin Range(u.waiters))
        THEN Answer(u, "reject", 0)
        ELSE IF (t # None /\ ~u.eligible[t]) \/ First(u) \notin {None, t}
        THEN Answer(u, "wait", 0)
        ELSE IF u.rate = 0 THEN Answer(u, "forward", wanted)
        ELSE IF grant # 0 \/ n = 0 THEN Answer(v, "forward", grant)
        ELSE Answer(v, "wait", 0)

(* userCommitDelivery.  The grant is previewed again before it is charged. *)
Commit(u, d, t, n, more) ==
    LET p == Preview(u, d, t, n)
        paid == [p.user EXCEPT !.credit = IF u.rate = 0 THEN @ ELSE @ - n]
        v == [EndOversized(paid, t) EXCEPT !.quota = IF n >= @ THEN 0 ELSE @ - n]
        w == IF t = None THEN v
             ELSE [v EXCEPT !.eligible[t] = more,
                            !.waiters = Append(Without(@, t), t)]
    IN  IF p.decision # "forward" THEN p
        ELSE IF p.grant < n THEN Answer(p.user, "wait", 0)
        ELSE Answer(w, IF w.quota = 0 THEN "close" ELSE "forward", n)

(* userBandwidthReconcileLocked, when the limit becomes r.                 *)
Reconcile(u, r) ==
    LET settled == IF u.rate = 0 THEN u.credit ELSE Lesser(u.credit, u.rate)
    IN  [u EXCEPT !.rate = r, !.over = None, !.overcap = 0,
                  !.credit = IF u.rate = 0 THEN r
                             ELSE IF r # 0 THEN Lesser(settled, r)
                             ELSE settled]

-----------------------------------------------------------------------------
(* The shaper.                                                             *)

Pending(s) == Len(s.queue) + Len(s.cand)
Ticket(s, d) == IF s.ticket THEN d ELSE None
Stopping(d) == stopping \/ sh[d].stopped

(* The front of the FIFO: a prepared candidate goes before the queue.      *)
Fifo(s) == s.cand \o s.queue

(* usercontrollerBandwidthPreview.                                         *)
Ask(u, d, t, n) ==
    IF Stopping(d) THEN Answer(u, "reject", 0) ELSE Preview(u, d, t, n)

(* trafficshaperNotify with usercontrollerBandwidthStateChanged: the       *)
(* ticket is given up with the last payload.                               *)
NotifyUser(u, s, d) ==
    IF ~s.ticket THEN u
    ELSE IF Pending(s) = 0 THEN Cancel(u, d)
    ELSE SetEligible(u, d, ~s.ext /\ ~s.stopped /\ ~Stopping(d))
Notified(s) == [s EXCEPT !.ticket = @ /\ Pending(s) # 0]

(* trafficshaperSchedule, with and without a delay.  A continuation        *)
(* already queued stands for either.                                       *)
Later(s) == IF s.cont THEN s ELSE [s EXCEPT !.timer = TRUE]
Soon(s) == IF s.cont THEN s ELSE [s EXCEPT !.timer = FALSE, !.cont = TRUE]
(* A stopped shaper, or a worker that is closing, refuses.                 *)
MaySchedule(s) == IF s.stopped THEN {FALSE} ELSE {TRUE, ~stopping}

(* trafficshaperDestroy: quiesce, drop what is queued, release it, notify. *)
Destroyed(s) ==
    [s EXCEPT !.stopped = TRUE, !.timer = FALSE, !.cont = FALSE,
              !.lost = @ + Total(Fifo(s)), !.queue = <<>>, !.cand = <<>>,
              !.cost = 0, !.ticket = FALSE, !.dead = TRUE]

NoArg == [n |-> 0, close |-> FALSE]

Init ==
    /\ load \in Loads
    /\ \E r \in load.rates :
          user = [rate |-> r, credit |-> r, over |-> None, overcap |-> 0,
                  waiters |-> <<>>,
                  eligible |-> [d \in Directions |-> FALSE],
                  cost |-> [d \in Directions |-> 0], quota |-> Quota]
    /\ sh = [d \in Directions |->
               [queue |-> <<>>, cand |-> <<>>, timer |-> FALSE,
                cont |-> FALSE, ext |-> FALSE, loc |-> FALSE,
                stopped |-> FALSE, dead |-> FALSE, held |-> FALSE,
                ticket |-> FALSE, cost |-> 0, taken |-> 0,
                given |-> 0, out |-> 0, lost |-> 0]]
    /\ pc = [d \in Directions |-> "idle"]
    /\ arg = [d \in Directions |-> NoArg]
    /\ stopping = FALSE
    /\ changes = 0
    /\ charged = 0

(* What a step leaves: the user, d's shaper, the place of d's call and its *)
(* locals, which end with the call.                                        *)
Goes(d, u, s, p, a) ==
    /\ user' = u
    /\ sh' = [sh EXCEPT ![d] = s]
    /\ pc' = [pc EXCEPT ![d] = p]
    /\ arg' = [arg EXCEPT ![d] = a]
Becomes(d, u, s, p) ==
    Goes(d, u, s, p, IF p = "idle" THEN NoArg ELSE arg[d])

(* usercontrollerCloseLine, n bytes in hand lost with the rest.            *)
CloseLine(d, u, s, n) ==
    Becomes(d, Cancel(u, d), Destroyed([s EXCEPT !.lost = @ + n]), "idle")

Idle(d) == pc[d] = "idle" /\ ~sh[d].dead
Charge(r) == charged' = IF r.decision \in {"forward", "close"}
                        THEN charged + r.grant ELSE charged

(* A payload arrives (usercontrollerTunnel*Payload and the start of        *)
(* usercontrollerBandwidthSubmit).  A pause is advisory: it may come.      *)
Payload(d) ==
    /\ Idle(d) /\ sh[d].taken < Len(load.sizes[d])
    /\ \E n \in load.sizes[d][sh[d].taken + 1] :
          LET s == [sh[d] EXCEPT !.taken = @ + 1, !.given = @ + n] IN
          IF user.quota = 0 \/ Stopping(d) THEN CloseLine(d, user, s, n)
          ELSE Goes(d, user, s, IF Pending(s) = 0 THEN "fast" ELSE "submit",
                    [NoArg EXCEPT !.n = n])
    /\ UNCHANGED <<stopping, changes, charged, load>>

(* The transparent path of an unlimited user.                              *)
Fast(d) ==
    /\ pc[d] = "fast"
    /\ LET p == Preview(user, d, None, arg[d].n)
       IN  Becomes(d, p.user, sh[d],
                   IF user.rate = 0 /\ p.decision = "forward"
                   THEN "fastcommit" ELSE "submit")
    /\ UNCHANGED <<stopping, changes, charged, load>>

(* A commit without a ticket, then the hand-over; otherwise the payload    *)
(* goes on to the next stage.                                              *)
Direct(d, next) ==
    LET n == arg[d].n
        r == Commit(user, d, None, n, FALSE)
        s == [sh[d] EXCEPT !.out = @ + n] IN
    /\ CASE r.decision = "forward" -> Becomes(d, r.user, s, "idle")
         [] r.decision = "close" -> CloseLine(d, r.user, s, 0)
         [] r.decision = "reject" -> CloseLine(d, r.user, sh[d], n)
         [] r.decision = "wait" -> Becomes(d, r.user, sh[d], next)
    /\ Charge(r)
    /\ UNCHANGED <<stopping, changes, load>>
FastCommit(d) == pc[d] = "fastcommit" /\ Direct(d, "submit")
SubmitCommit(d) == pc[d] = "submitcommit" /\ Direct(d, "reserve")

(* trafficshaperSubmit.                                                    *)
Submit(d) ==
    /\ pc[d] = "submit"
    /\ LET n == arg[d].n
           p == Ask(user, d, None, n)
       IN  IF sh[d].ext \/ Pending(sh[d]) # 0
           THEN Becomes(d, user, sh[d], "reserve")
           ELSE IF p.decision = "reject" THEN CloseLine(d, user, sh[d], n)
           ELSE Becomes(d, p.user, sh[d],
                        IF p.decision = "forward" /\ p.grant >= n
                        THEN "submitcommit" ELSE "reserve")
    /\ UNCHANGED <<stopping, changes, charged, load>>

(* trafficshaperReserve with usercontrollerBandwidthReserve: the line's    *)
(* budget, a ticket, the user's budget.                                    *)
Fits(u, s, d, n) ==
    /\ s.cost + n <= LineBudget
    /\ s.ticket \/ Len(u.waiters) < MaxWaiters
    /\ MapThenSumSet(LAMBDA e : u.cost[e], Directions) + n <= UserBudget
Reserve(d) ==
    /\ pc[d] = "reserve"
    /\ LET s == sh[d]
           n == arg[d].n
           u == IF s.ticket THEN user
                ELSE [user EXCEPT !.waiters = Append(@, d)]
       IN  IF Fits(user, s, d, n)
           THEN Becomes(d, [u EXCEPT !.cost[d] = @ + n],
                        [s EXCEPT !.ticket = TRUE, !.cost = @ + n,
                                  !.queue = Append(@, n)], "publish")
           ELSE Becomes(d, user, s, "refused")
    /\ UNCHANGED <<stopping, changes, charged, load>>

(* A refused datagram is dropped; a refused stream ends.                   *)
Refused(d) ==
    /\ pc[d] = "refused"
    /\ LET n == arg[d].n IN
       IF d \in Datagram
       THEN Becomes(d, NotifyUser(user, sh[d], d),
                    [Notified(sh[d]) EXCEPT !.lost = @ + n], "idle")
       ELSE CloseLine(d, user, sh[d], n)
    /\ UNCHANGED <<stopping, changes, charged, load>>

(* The queue may be unable to grow: what was reserved is released.         *)
Publish(d) ==
    /\ pc[d] = "publish"
    /\ \/ Becomes(d, NotifyUser(user, sh[d], d), sh[d], "arm")
       \/ /\ load.fails
          /\ LET n == arg[d].n IN
             Becomes(d, [user EXCEPT !.cost[d] = @ - n],
                     [sh[d] EXCEPT !.cost = @ - n, !.queue = Front(@)],
                     "refused")
    /\ UNCHANGED <<stopping, changes, charged, load>>

(* The end of trafficshaperSubmit: schedule the drain, hold the producer.  *)
Hold(s, d) ==
    IF d \in Datagram \/ s.loc THEN s
    ELSE [s EXCEPT !.loc = TRUE, !.held = @ \/ ~s.ext]
Arm(d) ==
    /\ pc[d] = "arm"
    /\ LET s == sh[d]
           p == Ask(user, d, Ticket(s, d), Fifo(s)[1])
       IN  IF s.ext THEN Becomes(d, user, Hold(s, d), "idle")
           ELSE \E ok \in MaySchedule(s) :
                IF p.decision = "reject" \/ ~ok
                THEN CloseLine(d, p.user, s, 0)
                ELSE Becomes(d, p.user,
                             Hold(IF p.decision = "wait" THEN Later(s)
                                  ELSE Soon(s), d), "idle")
    /\ UNCHANGED <<stopping, changes, charged, load>>

(* trafficshaperPrepare: m bytes of the front become the candidate.        *)
Prepared(s, m) ==
    LET front == Fifo(s)[1]
        rest == Tail(Fifo(s))
    IN  [s EXCEPT !.cand = <<m>>,
                  !.queue = IF m = front THEN rest ELSE <<front - m>> \o rest]

\* Mutant of DrainSome: only a queue, not a held producer, earns a turn.
DrainSome_NoTick(d, s, p) ==
    LET m == Lesser(p.grant, Fifo(s)[1])
        t == Prepared(s, m) IN
    Goes(d, p.user, IF t.queue # <<>> THEN Soon(t) ELSE t, "commit",
         [NoArg EXCEPT !.n = m])

(* trafficshaperDrain, once the preview grants something: the candidate is *)
(* split off and the next turn scheduled before the commit.                *)
DrainSome(d, s, p) ==
    LET m == Lesser(p.grant, Fifo(s)[1])
        t == Prepared(s, m)
        a == [NoArg EXCEPT !.n = m]
        split == m # Fifo(s)[1] IN
    \E ok \in {TRUE, ~(split /\ load.fails)} :
       IF ~ok THEN CloseLine(d, p.user, s, 0)
       ELSE IF t.queue = <<>> /\ ~t.loc
       THEN Goes(d, p.user, t, "commit", a)
       ELSE \E may \in MaySchedule(t) :
            IF may THEN Goes(d, p.user, Soon(t), "commit", a)
            ELSE CloseLine(d, p.user, t, 0)

DrainEmpty(d, s) ==
    Becomes(d, NotifyUser(user, s, d),
            [Notified(s) EXCEPT !.loc = FALSE,
                                !.held = @ /\ (s.ext \/ ~s.loc)], "idle")

Drain(d, s) ==
    LET p == Ask(user, d, Ticket(s, d), Fifo(s)[1])
        m == Lesser(p.grant, Fifo(s)[1]) IN
    IF Pending(s) = 0 THEN DrainEmpty(d, s)
    ELSE IF s.ext THEN Becomes(d, user, s, "idle")
    ELSE IF p.decision = "reject" THEN CloseLine(d, p.user, s, 0)
    ELSE IF p.decision = "wait" \/ (d \in Datagram /\ m # Fifo(s)[1])
    THEN \E ok \in MaySchedule(s) :
           IF ok THEN Becomes(d, p.user, Later(s), "idle")
           ELSE CloseLine(d, p.user, s, 0)
    ELSE DrainSome(d, s, p)

(* trafficshaperContinuationRun and trafficshaperTimerCallback.            *)
Continue(d) ==
    /\ Idle(d) /\ sh[d].cont
    /\ Drain(d, [sh[d] EXCEPT !.cont = FALSE])
    /\ UNCHANGED <<stopping, changes, charged, load>>
Fire(d) ==
    /\ Idle(d) /\ sh[d].timer
    /\ Drain(d, [sh[d] EXCEPT !.timer = FALSE])
    /\ UNCHANGED <<stopping, changes, charged, load>>

CommitQueued(d) ==
    /\ pc[d] = "commit"
    /\ LET s == sh[d]
           r == Commit(user, d, Ticket(s, d), arg[d].n, s.queue # <<>>)
       IN  /\ CASE r.decision = "wait" -> Becomes(d, r.user, s, "again")
                [] r.decision = "reject" -> CloseLine(d, r.user, s, 0)
                [] OTHER -> Goes(d, r.user, s, "deliver",
                                 [arg[d] EXCEPT !.close = r.decision = "close"])
           /\ Charge(r)
    /\ UNCHANGED <<stopping, changes, load>>

(* The commit found the credit gone: ask again and wait.                   *)
Again(d) ==
    /\ pc[d] = "again"
    /\ LET s == sh[d]
           p == Ask(user, d, Ticket(s, d), arg[d].n)
       IN  \E ok \in MaySchedule(s) :
             IF p.decision = "reject" \/ ~ok THEN CloseLine(d, p.user, s, 0)
             ELSE Becomes(d, p.user, Later(s), "idle")
    /\ UNCHANGED <<stopping, changes, charged, load>>

(* Release the cost, notify, forward, and close a line whose user is done. *)
Deliver(d) ==
    /\ pc[d] = "deliver"
    /\ LET n == arg[d].n
           s == [sh[d] EXCEPT !.cand = <<>>, !.cost = @ - n]
           u == [user EXCEPT !.cost[d] = @ - n]
           t == [Notified(s) EXCEPT !.out = @ + n]
           v == NotifyUser(u, s, d)
       IN  IF arg[d].close THEN CloseLine(d, v, t, 0)
           ELSE Becomes(d, v, t, "idle")
    /\ UNCHANGED <<stopping, changes, charged, load>>

(* The consumer pauses or resumes (usercontrollerBandwidthSetExternalPause *)
(* and trafficshaperSetExternalPause).                                     *)
SetExternalPause(d, paused) ==
    /\ Idle(d) /\ sh[d].ext # paused
    /\ LET s == [sh[d] EXCEPT !.ext = paused]
           u == NotifyUser(user, s, d)
           t == Notified(s)
       IN  IF user.rate = 0 /\ Pending(s) = 0 /\ ~s.loc
           THEN Becomes(d, user, [s EXCEPT !.held = paused], "idle")
           ELSE IF paused
           THEN Becomes(d, u, [t EXCEPT !.held = TRUE], "idle")
           ELSE IF Pending(s) # 0 \/ s.loc
           THEN \E ok \in MaySchedule(s) :
                  IF ok THEN Becomes(d, u, [Soon(t) EXCEPT !.held = @ /\ s.loc],
                                     "idle")
                  ELSE CloseLine(d, u, t, 0)
           ELSE Becomes(d, u, [t EXCEPT !.held = FALSE], "idle")
    /\ UNCHANGED <<stopping, changes, charged, load>>

(* A neighbour finishes the line, or the sweep finds its user ineligible.  *)
Finish(d) ==
    /\ Idle(d)
    /\ CloseLine(d, user, sh[d], 0)
    /\ UNCHANGED <<stopping, changes, charged, load>>

(* usercontrollerTunnelOnQuiesceRequest and ...OnWorkerQuiesce.            *)
RequestStop ==
    /\ ~stopping
    /\ stopping' = TRUE
    /\ UNCHANGED <<user, sh, pc, arg, changes, charged, load>>
Quiesce(d) ==
    /\ stopping /\ Idle(d) /\ ~sh[d].stopped
    /\ LET s == [sh[d] EXCEPT !.stopped = TRUE, !.timer = FALSE, !.cont = FALSE]
       IN  Becomes(d, NotifyUser(user, s, d), Notified(s), "idle")
    /\ UNCHANGED <<stopping, changes, charged, load>>

(* The user's configuration changes; time passes; the user expires.        *)
SetLimit ==
    /\ changes < load.changes
    /\ \E r \in load.rates \ {user.rate} : user' = Reconcile(user, r)
    /\ changes' = changes + 1
    /\ UNCHANGED <<sh, pc, arg, stopping, charged, load>>
Earn ==
    /\ user.rate # 0 /\ user.credit < Cap(user)
    /\ user' = [user EXCEPT !.credit = @ + 1]
    /\ UNCHANGED <<sh, pc, arg, stopping, changes, charged, load>>
Expire ==
    /\ user.quota # 0
    /\ user' = [user EXCEPT !.quota = 0]
    /\ UNCHANGED <<sh, pc, arg, stopping, changes, charged, load>>

Step(d) ==
    \/ Fast(d) \/ FastCommit(d) \/ Submit(d) \/ SubmitCommit(d)
    \/ Reserve(d) \/ Refused(d) \/ Publish(d) \/ Arm(d)
    \/ CommitQueued(d) \/ Again(d) \/ Deliver(d)

Next ==
    \/ \E d \in Directions :
          \/ Payload(d) \/ Step(d) \/ Continue(d) \/ Fire(d)
          \/ SetExternalPause(d, TRUE) \/ SetExternalPause(d, FALSE)
          \/ Finish(d) \/ Quiesce(d)
    \/ RequestStop \/ SetLimit \/ Earn \/ Expire

Spec == Init /\ [][Next]_vars

(* A worker finishes the call it runs and serves its tasks and timers;     *)
(* time passes.                                                            *)
Fairness ==
    /\ WF_vars(Earn)
    /\ \A d \in Directions : WF_vars(Step(d)) /\ WF_vars(Continue(d) \/ Fire(d))
FairSpec == Spec /\ Fairness
-----------------------------------------------------------------------------
(* Properties.                                                             *)

InHand(d) ==
    IF pc[d] \in {"fast", "fastcommit", "submit", "submitcommit", "reserve",
                  "refused"}
    THEN arg[d].n ELSE 0

(* A payload retained by a shaper that may deliver has a turn coming, and  *)
(* so has a producer the shaper holds: no order of submissions, drains,    *)
(* pauses and failures leaves work with neither timer nor continuation.    *)
TurnComing ==
    \A d \in Directions :
       LET s == sh[d] IN
       pc[d] = "idle" /\ ~s.stopped =>
         /\ ~(s.timer /\ s.cont)
         /\ (Pending(s) # 0 \/ s.loc) => s.timer \/ s.cont \/ s.ext
         /\ s.loc /\ Pending(s) = 0 => s.timer \/ s.cont
         /\ s.held = (s.ext \/ s.loc)

(* Every byte given to a direction was forwarded, is in hand, is queued or *)
(* was dropped; the user is charged exactly for what was forwarded, a      *)
(* commit in progress apart; the costs its waiters hold are those of the   *)
(* payloads queued, and a closed line holds nothing.                       *)
NothingMislaid ==
    /\ \A d \in Directions :
          LET s == sh[d] IN
          /\ s.given = s.out + s.lost + InHand(d) + Total(Fifo(s))
          /\ s.cost = Total(Fifo(s)) /\ user.cost[d] = s.cost
          /\ s.ticket <=> d \in Range(user.waiters)
          /\ pc[d] = "idle" => (s.ticket <=> Pending(s) # 0)
          /\ s.dead => ~s.timer /\ ~s.cont /\ ~s.ticket
    /\ charged = MapThenSumSet(LAMBDA d : sh[d].out +
                   (IF pc[d] = "deliver" THEN arg[d].n ELSE 0), Directions)

(* The shaper's promises to its line, its neighbours and the user that     *)
(* pays: nothing it retains is without a turn to come, and no byte is      *)
(* lost, forwarded twice or charged wrongly (trafficshaperSubmit and       *)
(* trafficshaperDrain with the callbacks of bandwidth.c).                  *)
ShaperInv == TurnComing /\ NothingMislaid

(* userBandwidth*: a larger cap belongs to an oversized datagram at the    *)
(* head of the queue and to nobody else, whichever worker pauses, cancels, *)
(* commits or changes the limit; the credit never exceeds the cap in       *)
(* force, and nobody queues twice.                                         *)
BandwidthInv ==
    /\ user.over # None =>
         /\ user.rate # 0 /\ user.overcap > user.rate
         /\ user.over = First(user) /\ user.over \in Datagram
    /\ user.rate # 0 => user.credit \in 0 .. Cap(user)
    /\ \A i, j \in 1 .. Len(user.waiters) :
          user.waiters[i] = user.waiters[j] => i = j
    /\ Len(user.waiters) <= MaxWaiters

(* A payload of a direction that is not paused for ever is forwarded or    *)
(* dropped, or the worker is stopped, whatever the other directions of the *)
(* user do: one that pauses or fails does not block the queue.             *)
PayloadSettles ==
    \A d \in Directions :
       <>[](~sh[d].ext) =>
         ((sh[d].given > sh[d].out + sh[d].lost) ~>
            (sh[d].given = sh[d].out + sh[d].lost \/ sh[d].stopped))
=============================================================================
