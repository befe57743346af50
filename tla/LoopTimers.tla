----------------------------- MODULE LoopTimers -----------------------------
(***************************************************************************)
(* The lifetime of the timers of one event loop (ww/event/wloop.c).        *)
(*                                                                         *)
(* A timer is reached from the heap, from the pending list of the current  *)
(* pass, from the list of quiesced timers and from the handle its owner    *)
(* keeps.  A one-shot timer leaves the heap when it expires and is freed   *)
(* when its callback has returned; any callback of the pass may delete or  *)
(* reset it, or another timer further down the list, before that.  When    *)
(* the loop is closed, callbacks are suppressed and the storage is kept    *)
(* until the owner, or the destruction of the loop, gives it back.         *)
(*                                                                         *)
(* All of it happens on the loop's own thread; only the close may come     *)
(* from another one, at any point.  Time is left out: any timer of the     *)
(* heap may be due, which allows every order of expiry.                    *)
(***************************************************************************)
EXTENDS Integers, Sequences, FiniteSets

CONSTANTS
    Timers,      \* timers ever added
    INFINITE,    \* the repeat count of a timer that goes on for ever
    Repeats, PeriodRepeats,    \* bound: counts given to the two kinds
    NoTimer

VARIABLES
    open,           \* wloopNormalDispatchAllowed
    mem,            \* mem[t]: its storage is "none", "live" or "freed"
    heap,           \* timers linked in loop->timers or loop->realtimers
    ntimers,        \* loop->ntimers
    pendings,       \* rest of the pending list, in dispatch order
    active, destroy, pending, pending_reset, quiesced,    \* the flags
    period,         \* timers of wtimerAddPeriod, which cannot be reset
    repeat,         \* repeat[t]
    opc,            \* where the thread that owns the loop is
    cur,            \* the timer whose callback is running
    held,           \* timers whose owner still keeps the handle
    expired,        \* timers that have expired since they were last armed
    doubleFree      \* some storage was freed twice

flagVars == <<active, destroy, pending, pending_reset, quiesced>>
ownerVars == <<held, expired>>
timerVars == <<mem, heap, ntimers, flagVars, period, repeat, doubleFree>>
vars == <<open, timerVars, pendings, opc, cur, ownerVars>>

-----------------------------------------------------------------------------
Init ==
    /\ open = TRUE
    /\ mem = [t \in Timers |-> "none"]
    /\ heap = {}
    /\ ntimers = 0
    /\ pendings = << >>
    /\ active = {} /\ destroy = {} /\ pending = {}
    /\ pending_reset = {} /\ quiesced = {} /\ period = {}
    /\ repeat = [t \in Timers |-> 0]
    /\ opc = "unstarted"
    /\ cur = NoTimer
    /\ held = {}
    /\ expired = {}
    /\ doubleFree = FALSE

(* wtimerFreeAllocation.                                                   *)
Free(t) ==
    /\ mem' = [mem EXCEPT ![t] = "freed"]
    /\ doubleFree' = (doubleFree \/ mem[t] # "live")
KeepStorage == UNCHANGED <<mem, doubleFree>>

(* Owners act from the loop's callbacks, before the loop runs, and while   *)
(* their worker quiesces and drains.                                       *)
OwnerActs == opc \in {"unstarted", "callback", "io", "stopped", "quiesced"}

-----------------------------------------------------------------------------
(* A new timer enters its heap; refused on a closed loop.                  *)
NewTimer(t, r) ==
    /\ OwnerActs /\ open /\ mem[t] = "none"
    /\ mem' = [mem EXCEPT ![t] = "live"]
    /\ heap' = heap \cup {t}
    /\ ntimers' = ntimers + 1
    /\ active' = active \cup {t}
    /\ repeat' = [repeat EXCEPT ![t] = r]
    /\ held' = held \cup {t}
    /\ UNCHANGED <<open, pendings, destroy, pending, pending_reset, quiesced,
                   opc, cur, expired, doubleFree>>

(* wtimerAdd and wtimerAddPeriod.                                          *)
Add(t, r) == NewTimer(t, r) /\ UNCHANGED period
AddPeriod(t, r) == NewTimer(t, r) /\ period' = period \cup {t}

(* wtimerReset: an expired one-shot goes back to the heap, and the         *)
(* expiration that is still pending is cancelled.  Refused for a period,   *)
(* for a quiesced timer and on a closed loop.                              *)
Reset(t) ==
    /\ OwnerActs /\ t \in held \ period /\ t \notin quiesced /\ open
    /\ heap' = heap \cup {t}
    /\ ntimers' = IF t \in destroy THEN ntimers + 1 ELSE ntimers
    /\ repeat' = [repeat EXCEPT ![t] = IF @ = 0 THEN 1 ELSE @]
    /\ pending_reset' = IF t \in pending THEN pending_reset \cup {t}
                                         ELSE pending_reset \ {t}
    /\ destroy' = destroy \ {t}
    /\ active' = active \cup {t}
    /\ expired' = expired \ {t}
    /\ UNCHANGED <<open, mem, pendings, pending, quiesced, period, opc, cur,
                   held, doubleFree>>

(* __wtimer_del: out of the heap once.                                     *)
Unlink(t) ==
    /\ heap' = heap \ {t}
    /\ ntimers' = IF t \in destroy THEN ntimers ELSE ntimers - 1
    /\ destroy' = destroy \cup {t}

\* Mutant of Delete: the storage of a pending timer is freed at once.
Delete_Now(t) ==
    /\ OwnerActs /\ t \in held
    /\ Unlink(t)
    /\ active' = active \ {t}
    /\ quiesced' = quiesced \ {t}
    /\ Free(t)
    /\ held' = held \ {t}
    /\ UNCHANGED <<open, pendings, pending, pending_reset, period, repeat,
                   opc, cur, expired>>

(* wtimerDelete: a quiesced timer is freed; a pending one is only marked,  *)
(* because the dispatch still holds a pointer to it.                       *)
Delete(t) ==
    /\ OwnerActs /\ t \in held
    /\ IF t \in quiesced
       THEN /\ quiesced' = quiesced \ {t}
            /\ Free(t)
            /\ UNCHANGED <<heap, ntimers, active, destroy>>
       ELSE IF t \notin active
       THEN KeepStorage /\ UNCHANGED <<heap, ntimers, active, destroy, quiesced>>
       ELSE /\ Unlink(t)
            /\ active' = active \ {t}
            /\ IF t \in pending THEN KeepStorage ELSE Free(t)
            /\ UNCHANGED quiesced
    /\ held' = held \ {t}
    /\ UNCHANGED <<open, pendings, pending, pending_reset, period, repeat,
                   opc, cur, expired>>

-----------------------------------------------------------------------------
(* A pass of the loop: timers expire, then the pending list is dispatched. *)
Go(from, to) == opc = from /\ opc' = to

RunLoop ==
    /\ Go("unstarted", "loop")
    /\ UNCHANGED <<open, timerVars, pendings, cur, ownerVars>>

(* wloopProcessTimers is entered on an open loop.                          *)
ProcessTimers ==
    /\ Go("loop", "timers") /\ open
    /\ UNCHANGED <<open, timerVars, pendings, cur, ownerVars>>

(* The pending list: the front of its priority.  Periods have the lower    *)
(* one and come after the others.                                          *)
Higher == Cardinality({i \in 1 .. Len(pendings) : pendings[i] \notin period})
Pend(t) ==
    LET n == IF t \in period THEN Higher ELSE 0
    IN  SubSeq(pendings, 1, n) \o <<t>> \o SubSeq(pendings, n + 1, Len(pendings))

(* A due timer: the last repetition takes it out of the heap, any other    *)
(* one moves it within the heap; it joins the pending list.                *)
Expire(t) ==
    /\ opc = "timers" /\ t \in heap \ pending
    /\ repeat' = [repeat EXCEPT ![t] = IF @ = INFINITE THEN @ ELSE @ - 1]
    /\ IF repeat[t] = 1 THEN Unlink(t) ELSE UNCHANGED <<heap, ntimers, destroy>>
    /\ pending' = pending \cup {t}
    /\ pendings' = Pend(t)
    /\ expired' = expired \cup {t}
    /\ UNCHANGED <<open, mem, active, pending_reset, quiesced, period, opc,
                   cur, held, doubleFree>>

ProcessPendings ==
    /\ Go("timers", "dispatch")
    /\ UNCHANGED <<open, timerVars, pendings, cur, ownerVars>>

(* wloopReleasePending: a timer marked for destruction is freed, or kept   *)
(* on the quiesced list when its callback was suppressed.                  *)
ReleasePending(t, suppressed) ==
    /\ pending' = pending \ {t}
    /\ pending_reset' = pending_reset \ {t}
    /\ \/ /\ t \in destroy /\ suppressed
          /\ active' = active \ {t}
          /\ quiesced' = quiesced \cup {t}
          /\ KeepStorage
       \/ /\ t \in destroy /\ ~suppressed
          /\ active' = active \ {t}
          /\ Free(t)
          /\ UNCHANGED quiesced
       \/ /\ t \notin destroy
          /\ KeepStorage
          /\ UNCHANGED <<active, quiesced>>

Pop == pendings' = Tail(pendings)

(* The closed loop suppresses the callback.                                *)
Suppress ==
    /\ opc = "dispatch" /\ pendings # << >> /\ ~open
    /\ ReleasePending(Head(pendings), TRUE)
    /\ Pop
    /\ UNCHANGED <<open, heap, ntimers, destroy, period, repeat, opc, cur,
                   ownerVars>>

\* Mutant of Cancelled: only the deletion of a pending timer is noticed.
Cancelled_Deleted(t) == t \notin active

(* Deleted or reset by an earlier callback of the pass.                    *)
Cancelled(t) == t \notin active \/ t \in pending_reset

Skip ==
    /\ opc = "dispatch" /\ pendings # << >> /\ open
    /\ Cancelled(Head(pendings))
    /\ ReleasePending(Head(pendings), FALSE)
    /\ Pop
    /\ UNCHANGED <<open, heap, ntimers, destroy, period, repeat, opc, cur,
                   ownerVars>>

Fire ==
    /\ Go("dispatch", "callback") /\ pendings # << >> /\ open
    /\ ~Cancelled(Head(pendings))
    /\ cur' = Head(pendings)
    /\ Pop
    /\ UNCHANGED <<open, timerVars, ownerVars>>

(* The callback returns; the owner of a finished one-shot timer forgets    *)
(* its handle.                                                             *)
Return ==
    /\ Go("callback", "dispatch")
    /\ ReleasePending(cur, FALSE)
    /\ held' = IF cur \in destroy THEN held \ {cur} ELSE held
    /\ cur' = NoTimer
    /\ UNCHANGED <<open, heap, ntimers, destroy, period, repeat, pendings,
                   expired>>

DispatchDone ==
    /\ Go("dispatch", "loop") /\ pendings = << >>
    /\ UNCHANGED <<open, timerVars, pendings, cur, ownerVars>>

(* Another callback of the loop, run after the timers of its pass, which   *)
(* have the higher priority.  Control callbacks run on a closed loop too.  *)
IoBegin ==
    /\ Go("loop", "io")
    /\ UNCHANGED <<open, timerVars, pendings, cur, ownerVars>>
IoEnd ==
    /\ Go("io", "loop")
    /\ UNCHANGED <<open, timerVars, pendings, cur, ownerVars>>

-----------------------------------------------------------------------------
(* wloopCloseNormalAdmission, by any thread.                               *)
Close ==
    /\ open /\ opc # "destroyed"
    /\ open' = FALSE
    /\ UNCHANGED <<timerVars, pendings, opc, cur, ownerVars>>

LeaveLoop ==
    /\ Go("loop", "stopped") /\ ~open
    /\ UNCHANGED <<open, timerVars, pendings, cur, ownerVars>>

(* wloopQuiesceNormalWork: wtimerQuiesce for every timer of the heaps.     *)
QuiesceTimers ==
    /\ Go("stopped", "quiesced")
    /\ heap' = {}
    /\ ntimers' = ntimers - Cardinality(heap)
    /\ active' = active \ heap
    /\ quiesced' = quiesced \cup heap
    /\ UNCHANGED <<open, mem, destroy, pending, pending_reset, period, repeat,
                   doubleFree, pendings, cur, ownerVars>>

(* wloopCleanup frees the heaps and the quiesced list; the handles that    *)
(* are left go with their owners.                                          *)
Destroy ==
    /\ opc \in {"unstarted", "quiesced"}
    /\ opc' = "destroyed"
    /\ mem' = [t \in Timers |-> IF t \in heap \cup quiesced THEN "freed" ELSE mem[t]]
    /\ doubleFree' = (doubleFree \/ \E t \in heap \cup quiesced : mem[t] # "live")
    /\ heap' = {} /\ quiesced' = {} /\ held' = {}
    /\ UNCHANGED <<open, ntimers, active, destroy, pending, pending_reset,
                   period, repeat, pendings, cur, expired>>

Terminated == opc = "destroyed" /\ UNCHANGED vars

-----------------------------------------------------------------------------
(* Storage is interchangeable: the next to be allocated is fixed.          *)
Unused ==
    LET none == {t \in Timers : mem[t] = "none"}
    IN  {t \in none : t = CHOOSE u \in none : TRUE}

Owners ==
    \/ \E t \in Unused, r \in Repeats : Add(t, r)
    \/ \E t \in Unused, r \in PeriodRepeats : AddPeriod(t, r)
    \/ \E t \in Timers : Reset(t)
    \/ \E t \in Timers : Delete(t)

Pass ==
    \/ RunLoop
    \/ ProcessTimers
    \/ \E t \in Timers : Expire(t)
    \/ ProcessPendings
    \/ Suppress
    \/ Skip
    \/ Fire
    \/ Return
    \/ DispatchDone
    \/ IoBegin
    \/ IoEnd

Next ==
    \/ Owners
    \/ Pass
    \/ Close
    \/ LeaveLoop
    \/ QuiesceTimers
    \/ Destroy
    \/ Terminated

Spec == Init /\ [][Next]_vars

-----------------------------------------------------------------------------
Live == {t \in Timers : mem[t] = "live"}

(* The type invariant of the timers.                                       *)
TypeOK ==
    /\ open \in BOOLEAN
    /\ mem \in [Timers -> {"none", "live", "freed"}]
    /\ heap \in SUBSET Timers
    /\ ntimers \in Nat
    /\ pendings \in Seq(Timers)
    /\ \A s \in {active, destroy, pending, pending_reset, quiesced, period, held,
                expired} :
          s \in SUBSET Timers
    /\ repeat \in [Timers -> {INFINITE} \cup Nat]
    /\ opc \in {"unstarted", "loop", "timers", "dispatch", "callback", "io",
                "stopped", "quiesced", "destroyed"}
    /\ cur \in Timers \cup {NoTimer}
    /\ doubleFree \in BOOLEAN

(* Every pointer leads to live storage: the heap, the pending list, the    *)
(* quiesced list, the running callback and every handle an owner keeps;    *)
(* and no storage is freed twice.                                          *)
NoDangling ==
    /\ ~doubleFree
    /\ heap \cup quiesced \cup held \subseteq Live
    /\ \A i \in 1 .. Len(pendings) : pendings[i] \in Live
    /\ opc = "callback" => cur \in Live

(* The lists agree with the flags that guard them: the heap holds exactly  *)
(* the live timers that are neither marked nor quiesced and ntimers, which *)
(* decides whether the loop looks at it, is their number; the pending flag *)
(* marks exactly the timers the dispatch still refers to, each in one      *)
(* place.                                                                  *)
ListsExact ==
    /\ opc # "destroyed" =>
          /\ heap = Live \ (destroy \cup quiesced)
          /\ ntimers = Cardinality(heap)
    /\ pending = {pendings[i] : i \in 1 .. Len(pendings)} \cup ({cur} \ {NoTimer})
    /\ Cardinality(pending) = Len(pendings) + (IF cur = NoTimer THEN 0 ELSE 1)

(* No storage is lost: a timer whose owner has let go of it is still       *)
(* reachable from the dispatch or the quiesced list, and nothing is left   *)
(* of a destroyed loop.                                                    *)
NoLeak ==
    /\ Live \ held \subseteq pending \cup quiesced
    /\ opc = "destroyed" => Live = {}

(* The flags of one timer.  Before it is added it has none; a marked timer *)
(* waits for its dispatch or is quiesced; a timer of the heap has an owner *)
(* and a repetition left; an owner's timer is active or quiesced, and a    *)
(* timer that was reset and then marked again was deleted; a pending timer *)
(* that was not reset has expired.                                         *)
FlagsOf(t) ==
    /\ mem[t] = "none" =>
          t \notin heap \cup active \cup destroy \cup pending \cup quiesced \cup held
    /\ t \in pending => mem[t] = "live" /\ t \notin quiesced
    /\ t \in pending_reset => t \in pending
    /\ t \in quiesced => mem[t] = "live" /\ t \notin active
    /\ t \in held => mem[t] = "live" /\ (t \in quiesced \/ t \in active)
    /\ t \in active /\ mem[t] = "live" => t \in held
    /\ t \in heap => t \in held /\ mem[t] = "live" /\ repeat[t] # 0
    /\ mem[t] = "live" /\ t \in destroy => t \in pending \cup quiesced
    /\ t \in pending_reset \cap destroy => t \notin held
    /\ t \in pending \ pending_reset => t \in expired

(* Where the owner is while it holds a pending list or runs a callback.    *)
DispatchShape ==
    /\ opc = "callback" <=> cur # NoTimer
    /\ pendings # << >> => opc \in {"timers", "dispatch", "callback"}
    /\ \A i, j \in 1 .. Len(pendings) : pendings[i] = pendings[j] => i = j
    /\ \A i \in 1 .. Len(pendings) : pendings[i] # cur

(* What makes the storage of timers inductive.                             *)
FlagsAgree == DispatchShape /\ \A t \in Timers : FlagsOf(t)

(* The storage of timers: nothing dangles, nothing is lost and the lists   *)
(* are exact, whichever of delete, reset, expiry, dispatch and quiesce     *)
(* comes first.                                                            *)
TimersInv == TypeOK /\ NoDangling /\ ListsExact /\ NoLeak /\ FlagsAgree

(* A callback is run only on an open loop, for a timer that its owner has  *)
(* not deleted and that has expired since it was last armed: a reset       *)
(* cancels the pending expiration.                                         *)
FiresOnlyDue ==
    [][opc' = "callback" /\ opc # "callback" =>
          open /\ cur' \in held /\ cur' \in expired]_vars
=============================================================================
