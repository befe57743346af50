-------------------------------- MODULE Loop --------------------------------
(***************************************************************************)
(* One event loop as a whole (ww/event/wloop.c): the wake and the queues   *)
(* of EventLoop together with the timers of LoopTimers.                    *)
(*                                                                         *)
(* The two share the admission, which one store closes for both, and the   *)
(* thread that owns the loop.  A pass polls, lets timers expire, runs the  *)
(* timers and then, with a lower priority, the wake (wloopProcessEvents);  *)
(* an event that the wake runs may add, reset and delete timers.           *)
(***************************************************************************)
EXTENDS EventLoop, FiniteSets

CONSTANTS
    Timers, INFINITE, Repeats, PeriodRepeats, NoTimer    \* of LoopTimers

ASSUME TimersAssumption ==
    /\ IsFiniteSet(Timers)
    /\ NoTimer \notin Timers
    /\ Repeats \cup PeriodRepeats \subseteq (Nat \ {0}) \cup {INFINITE}
    /\ INFINITE \notin Nat

VARIABLES
    mem, heap, ntimers, pendings, active, destroy, pending, pending_reset,
    quiesced, period, repeat, tpc, cur, held, expired, doubleFree

T == INSTANCE LoopTimers WITH open <- normal_admission_open, opc <- tpc

timerVars == <<mem, heap, ntimers, pendings, active, destroy, pending,
               pending_reset, quiesced, period, repeat, tpc, cur, held, expired,
               doubleFree>>
loopVars == <<vars, timerVars>>

Apart == UNCHANGED timerVars
AtRest == tpc \notin {"timers", "dispatch", "callback", "io"}

LoopInit == Init /\ T!Init

-----------------------------------------------------------------------------
(* Events are interchangeable: the one posted next is fixed.               *)
Fresh(all, done) ==
    LET left == all \ Elements(done) IN {e \in left : e = CHOOSE x \in left : TRUE}
PostNext ==
    \/ \E e \in Fresh(Normal, posted) : PostEvent(e)
    \/ \E e \in Fresh(Control, control_posted) : PostControlEvent(e)
    \/ PostFails

(* What other threads do.  The first store of a close suppresses timers    *)
(* as well.                                                                *)
Others ==
    \/ PostNext /\ Apart
    \/ CloseAdmission /\ T!Close
    \/ (RequestStop \/ CloseWake) /\ Apart

(* What owners of timers do, in a callback or while the loop does not run. *)
Owners == T!Owners /\ UNCHANGED vars

(* The loop begins, or is never run.                                       *)
Begin == (RunLoop \/ SkipLoop) /\ T!RunLoop

(* A poll that returns on an open loop is followed by the timers.          *)
ThenTimers ==
    \/ ntimers # 0 /\ T!ProcessTimers
    \/ ~normal_admission_open /\ Apart
    \/ ntimers = 0 /\ Apart
Poll == (PollWake \/ PollOther) /\ ThenTimers

TimerPass ==
    /\ \/ \E t \in Timers : T!Expire(t)
       \/ T!ProcessPendings
       \/ T!Suppress
       \/ T!Skip
       \/ T!Fire
       \/ T!Return
       \/ T!DispatchDone
       \/ T!IoEnd
    /\ UNCHANGED vars

(* An event's callback, in which owners act.                               *)
Callback == (RunControl \/ StartNormal) /\ T!IoBegin

(* The owner's other steps, once the timers of the pass are through.       *)
Serve ==
    /\ AtRest
    /\ \/ CheckStop
       \/ PollFails
       \/ DispatchWake
       \/ ReadWake
       \/ ReadNothing
       \/ DeliverWake
       \/ Snapshot
       \/ TakeControl
       \/ TakeNormal
       \/ NextNormal
       \/ QuiesceControl
    /\ Apart

(* The end: wloopQuiesceNormalWork and wloopCleanup for both.              *)
BeginQuiesce == QuiesceBegin /\ T!LeaveLoop
FinishQuiesce == QuiesceFinish /\ T!QuiesceTimers
DestroyLoop == Destroy /\ T!Destroy

LoopNext ==
    \/ Others
    \/ Owners
    \/ Begin
    \/ Poll
    \/ TimerPass
    \/ Callback
    \/ Serve
    \/ BeginQuiesce
    \/ FinishQuiesce
    \/ DestroyLoop
    \/ Terminated /\ Apart

LoopSpec == LoopInit /\ [][LoopNext]_loopVars

(* The owner's thread goes on, its callbacks return and its timers are     *)
(* processed; the rest is the fairness of EventLoop.                       *)
LoopFairSpec ==
    /\ LoopSpec
    /\ WF_loopVars(TimerPass) /\ WF_loopVars(Serve \/ Callback \/ Poll)
    /\ WF_loopVars(BeginQuiesce \/ FinishQuiesce)
    /\ SF_loopVars(PollWake /\ ThenTimers)
    /\ SF_loopVars(ReadWake /\ AtRest /\ Apart)
    /\ WF_loopVars((RequestStop \/ CloseWake) /\ Apart)
    /\ WF_loopVars(opc = "failed" /\ CloseAdmission /\ T!Close)

-----------------------------------------------------------------------------
(* The storage of timers: nothing dangles, nothing is lost and the lists   *)
(* are exact, whichever of delete, reset, expiry, dispatch and quiesce     *)
(* comes first (LoopTimers).                                               *)
TimersInv == T!TimersInv

(* A callback is run only on an open loop, for a timer that its owner has  *)
(* not deleted and that has expired since it was last armed (LoopTimers).  *)
FiresOnlyDue == T!FiresOnlyDue
=============================================================================
