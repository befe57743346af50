------------------------------ MODULE EventLoop ------------------------------
(***************************************************************************)
(* Posting to one event loop and waking it (ww/event/wloop.c).             *)
(*                                                                         *)
(* Any thread posts a normal or a control event.  Under the events mutex   *)
(* it first makes sure that a wake is armed, one write to a descriptor for *)
(* any number of events, and then queues the event.  The loop polls the    *)
(* descriptor, consumes the wake, clears the flag, takes a snapshot of the *)
(* two queues and runs it in bounded batches, control events first.  A     *)
(* quiesce request closes the normal admission with two stores and arms a  *)
(* last wake; the owner then leaves the loop, runs the control events that *)
(* are left and drops the normal ones.                                     *)
(*                                                                         *)
(* One action is one critical section, one atomic access or one step of    *)
(* the owner between two of them.  Other I/O, timers and idles appear only *)
(* as polls that return without the wake.                                  *)
(***************************************************************************)
EXTENDS Integers, Sequences

CONSTANTS
    Normal,      \* events given to wloopPostEvent
    Control,     \* events given to wloopPostControlEvent
    BatchSize    \* CUSTOM_EVENT_DRAIN_BATCH_SIZE

ASSUME LoopAssumption == BatchSize \in Nat \ {0}

VARIABLES
    normal_admission_open,
    stop_requested,
    control_admission_open,
    closing,         \* where wloopCloseNormalAdmission is, or what it returned
    fds,             \* the wake descriptors exist
    readable,        \* unread wake data is in the descriptor
    wakeup_pending,
    custom_events, control_events,    \* the two queues
    opc,             \* where the thread that owns the loop is
    custom_left, control_left,        \* normal_remaining, control_remaining
    batch, control_batch,             \* unstarted rest of the local batch
    posted, ran,                      \* normal events accepted and started
    control_posted, control_ran       \* the same for control events

admissionVars == <<normal_admission_open, stop_requested, closing>>
wakeVars == <<fds, readable, wakeup_pending>>
normalVars == <<custom_events, custom_left, batch, posted, ran>>
controlVars == <<control_events, control_left, control_batch, control_posted,
                 control_ran>>
vars == <<admissionVars, control_admission_open, wakeVars, normalVars,
          controlVars, opc>>

Lesser(a, b) == IF a < b THEN a ELSE b
Elements(s) == {s[i] : i \in 1 .. Len(s)}

-----------------------------------------------------------------------------
(* wloopInit: both admissions are open, the descriptors are made later.    *)
Init ==
    /\ normal_admission_open = TRUE
    /\ stop_requested = FALSE
    /\ control_admission_open = TRUE
    /\ closing = "no"
    /\ fds = FALSE
    /\ readable = FALSE
    /\ wakeup_pending = FALSE
    /\ custom_events = << >>
    /\ control_events = << >>
    /\ opc = "unstarted"
    /\ custom_left = 0
    /\ control_left = 0
    /\ batch = << >>
    /\ control_batch = << >>
    /\ posted = << >>
    /\ ran = << >>
    /\ control_posted = << >>
    /\ control_ran = << >>

(* wloopNormalDispatchAllowed.                                             *)
DispatchAllowed == normal_admission_open /\ ~stop_requested

(* normal_admission_mutex is held from the first store of a close to the   *)
(* end of its wake; wloopNormalAdmissionBegin waits for it.                *)
AdmissionFree == closing \notin {"stopping", "arming"}

(* The loop's mutexes exist.                                               *)
Alive == opc # "destroyed"

-----------------------------------------------------------------------------
(* Arming the wake, under custom_events_mutex.                             *)

(* wloopArmWakeupLocked succeeds: nothing to do when a wake is pending;    *)
(* else the descriptors are created if need be and written.  A write that  *)
(* would block found unread data; an interrupted one is repeated.          *)
ArmWakeup ==
    \/ wakeup_pending /\ UNCHANGED wakeVars
    \/ /\ ~wakeup_pending
       /\ fds' = TRUE
       /\ readable' = TRUE
       /\ wakeup_pending' = TRUE

(* The descriptors cannot be created, or the write fails for good.         *)
ArmFails ==
    /\ ~wakeup_pending
    /\ fds' \in BOOLEAN /\ (fds => fds')
    /\ UNCHANGED <<readable, wakeup_pending>>

\* Mutant of Enqueue: the newest event is served first.
Enqueue_Front(q, e) == <<e>> \o q

Enqueue(q, e) == Append(q, e)

(* wloopNormalAdmissionBegin of wloopPostEvent.                            *)
MayPost == Alive /\ AdmissionFree /\ DispatchAllowed

PostEvent(e) ==
    /\ MayPost /\ e \notin Elements(posted)
    /\ ArmWakeup
    /\ custom_events' = Enqueue(custom_events, e)
    /\ posted' = Append(posted, e)
    /\ UNCHANGED <<admissionVars, control_admission_open, custom_left, batch,
                   ran, controlVars, opc>>

MayPostControl == Alive /\ control_admission_open

PostControlEvent(e) ==
    /\ MayPostControl /\ e \notin Elements(control_posted)
    /\ ArmWakeup
    /\ control_events' = Enqueue(control_events, e)
    /\ control_posted' = Append(control_posted, e)
    /\ UNCHANGED <<admissionVars, control_admission_open, control_left,
                   control_batch, control_ran, normalVars, opc>>

(* Either post is refused because no wake could be armed.                  *)
PostFails ==
    /\ MayPost \/ MayPostControl
    /\ ArmFails
    /\ UNCHANGED <<admissionVars, control_admission_open, normalVars,
                   controlVars, opc>>

-----------------------------------------------------------------------------
(* wloopCloseNormalAdmission, of wloopRequestQuiesce and wloopStop, by any *)
(* thread.  A second request finds the admission closed and returns.       *)
CloseAdmission ==
    /\ Alive /\ closing = "no"
    /\ normal_admission_open' = FALSE
    /\ closing' = "stopping"
    /\ UNCHANGED <<stop_requested, control_admission_open, wakeVars,
                   normalVars, controlVars, opc>>

RequestStop ==
    /\ closing = "stopping"
    /\ stop_requested' = TRUE
    /\ closing' = "arming"
    /\ UNCHANGED <<normal_admission_open, control_admission_open, wakeVars,
                   normalVars, controlVars, opc>>

CloseWake ==
    /\ closing = "arming"
    /\ \/ ArmWakeup /\ closing' = "woken"
       \/ ArmFails /\ closing' = "degraded"
    /\ UNCHANGED <<normal_admission_open, stop_requested,
                   control_admission_open, normalVars, controlVars, opc>>

-----------------------------------------------------------------------------
(* The owner thread in wloopRun.                                           *)
Go(from, to) == opc = from /\ opc' = to
queueVars == <<admissionVars, control_admission_open, normalVars, controlVars>>

(* The descriptors are created before the first pass; a worker asked to    *)
(* quiesce early never calls wloopRun.                                     *)
RunLoop ==
    /\ \/ Go("unstarted", "check") /\ fds' = TRUE
       \/ Go("unstarted", "failed") /\ ~fds /\ UNCHANGED fds
    /\ UNCHANGED <<queueVars, readable, wakeup_pending>>

SkipLoop ==
    /\ Go("unstarted", "stopped")
    /\ stop_requested
    /\ UNCHANGED <<queueVars, wakeVars>>

(* The head of the loop, and the check after a pass.                       *)
CheckStop ==
    /\ Go("check", IF stop_requested THEN "stopped" ELSE "poll")
    /\ UNCHANGED <<queueVars, wakeVars>>

(* The poll reports the wake descriptor: its wio becomes pending, unless   *)
(* the dispatch is no longer allowed when the poll returns.                *)
PollWake ==
    /\ Go("poll", IF DispatchAllowed THEN "dispatch" ELSE "check")
    /\ readable
    /\ UNCHANGED <<queueVars, wakeVars>>

(* The poll returns without it: WLOOP_MAX_BLOCK_TIME has passed, it was    *)
(* interrupted, or other work was dispatched.                              *)
PollOther ==
    /\ Go("poll", "check")
    /\ UNCHANGED <<queueVars, wakeVars>>

PollFails ==
    /\ Go("poll", "failed")
    /\ UNCHANGED <<queueVars, wakeVars>>

(* wloopProcessPendings takes the admission for the pending wio.           *)
DispatchWake ==
    /\ Go("dispatch", IF DispatchAllowed THEN "read" ELSE "check")
    /\ AdmissionFree
    /\ UNCHANGED <<queueVars, wakeVars>>

(* wio_handle_events and nio_read: the wake data is consumed.              *)
ReadWake ==
    /\ DispatchAllowed
    /\ Go("read", "consumed")
    /\ readable' = FALSE
    /\ UNCHANGED <<queueVars, fds, wakeup_pending>>

(* The dispatch was closed before the read, or the read was interrupted.   *)
ReadNothing ==
    /\ Go("read", "check")
    /\ UNCHANGED <<queueVars, wakeVars>>

(* nio_read drops the data it has read when the dispatch is closed.        *)
DeliverWake ==
    /\ Go("consumed", IF DispatchAllowed THEN "snapshot" ELSE "check")
    /\ UNCHANGED <<queueVars, wakeVars>>

\* Mutant of Snapshot: the flag is left for the end of the callback.
Snapshot_KeepFlag ==
    /\ Go("snapshot", "control")
    /\ control_left' = Len(control_events)
    /\ custom_left' = Len(custom_events)
    /\ UNCHANGED <<wakeVars, admissionVars, control_admission_open,
                   custom_events, batch, posted, ran, control_events,
                   control_batch, control_posted, control_ran>>

(* eventFDReadCB: the flag is cleared and the queues are measured.         *)
Snapshot ==
    /\ Go("snapshot", "control")
    /\ wakeup_pending' = FALSE
    /\ control_left' = Len(control_events)
    /\ custom_left' = Len(custom_events)
    /\ UNCHANGED <<fds, readable, admissionVars, control_admission_open,
                   custom_events, batch, posted, ran, control_events,
                   control_batch, control_posted, control_ran>>

(* One batch of the captured control events is popped under the mutex.     *)
TakeControl ==
    /\ Go("control", IF control_left = 0 THEN "normal" ELSE "crun")
    /\ LET n == Lesser(control_left, BatchSize) IN
          /\ control_batch' = SubSeq(control_events, 1, n)
          /\ control_events' = SubSeq(control_events, n + 1, Len(control_events))
          /\ control_left' = control_left - n
    /\ UNCHANGED <<admissionVars, control_admission_open, wakeVars, normalVars,
                   control_posted, control_ran>>

(* Control events run whether or not the dispatch is allowed.              *)
RunControl ==
    /\ Go("crun", IF Len(control_batch) = 1 THEN "control" ELSE "crun")
    /\ control_ran' = Append(control_ran, Head(control_batch))
    /\ control_batch' = Tail(control_batch)
    /\ UNCHANGED <<admissionVars, control_admission_open, wakeVars, normalVars,
                   control_events, control_left, control_posted>>

(* One batch of the captured normal events, or the end of the callback     *)
(* when none are left or the dispatch is closed.                           *)
TakeNormal ==
    LET n == IF DispatchAllowed THEN Lesser(custom_left, BatchSize) ELSE 0 IN
    /\ Go("normal", IF n = 0 THEN "check" ELSE "next")
    /\ batch' = SubSeq(custom_events, 1, n)
    /\ custom_events' = SubSeq(custom_events, n + 1, Len(custom_events))
    /\ custom_left' = IF n = 0 THEN 0 ELSE custom_left - n
    /\ UNCHANGED <<admissionVars, control_admission_open, wakeVars, controlVars,
                   posted, ran>>

(* The check before each copied event; closure discards the rest.          *)
NextNormal ==
    /\ Go("next", IF batch # << >> /\ DispatchAllowed THEN "start" ELSE "normal")
    /\ batch' = IF DispatchAllowed THEN batch ELSE << >>
    /\ UNCHANGED <<admissionVars, control_admission_open, wakeVars, controlVars,
                   custom_events, custom_left, posted, ran>>

(* The callback starts with the authority of the wake's own dispatch: the  *)
(* admission may have closed since the check.                              *)
StartNormal ==
    /\ Go("start", "next")
    /\ ran' = Append(ran, Head(batch))
    /\ batch' = Tail(batch)
    /\ UNCHANGED <<admissionVars, control_admission_open, wakeVars, controlVars,
                   custom_events, custom_left, posted>>

-----------------------------------------------------------------------------
(* wloopQuiesceNormalWork and wloopDestroy, on the owner thread.  A loop   *)
(* that failed is quiesced once its worker has been asked to.              *)
QuiesceBegin ==
    /\ opc \in {"stopped", "failed"} /\ ~DispatchAllowed
    /\ opc' = "quiesce"
    /\ control_admission_open' = FALSE
    /\ UNCHANGED <<admissionVars, wakeVars, normalVars, controlVars>>

\* Mutant of QuiesceControl: the control events are dropped.
QuiesceControl_Drop ==
    /\ opc = "quiesce" /\ control_events # << >>
    /\ control_events' = Tail(control_events)
    /\ UNCHANGED <<admissionVars, control_admission_open, wakeVars, normalVars,
                   control_left, control_batch, control_posted, control_ran, opc>>

QuiesceControl ==
    /\ opc = "quiesce" /\ control_events # << >>
    /\ control_ran' = Append(control_ran, Head(control_events))
    /\ control_events' = Tail(control_events)
    /\ UNCHANGED <<admissionVars, control_admission_open, wakeVars, normalVars,
                   control_left, control_batch, control_posted, opc>>

QuiesceFinish ==
    /\ Go("quiesce", "quiesced")
    /\ control_events = << >>
    /\ custom_events' = << >>
    /\ wakeup_pending' = FALSE
    /\ UNCHANGED <<admissionVars, control_admission_open, fds, readable,
                   custom_left, batch, posted, ran, controlVars>>

(* wloopCleanup; a worker that never started is destroyed as it is.        *)
Destroy ==
    /\ opc \in {"quiesced", "unstarted"} /\ AdmissionFree
    /\ opc' = "destroyed"
    /\ fds' = FALSE
    /\ readable' = FALSE
    /\ wakeup_pending' = FALSE
    /\ custom_events' = << >>
    /\ control_events' = << >>
    /\ UNCHANGED <<admissionVars, control_admission_open, custom_left, batch,
                   posted, ran, control_left, control_batch, control_posted,
                   control_ran>>

Terminated == opc = "destroyed" /\ UNCHANGED vars

-----------------------------------------------------------------------------
Post ==
    \/ \E e \in Normal : PostEvent(e)
    \/ \E e \in Control : PostControlEvent(e)
    \/ PostFails

Close == CloseAdmission \/ RequestStop \/ CloseWake

HandleWake ==
    \/ DispatchWake
    \/ ReadWake
    \/ ReadNothing
    \/ DeliverWake
    \/ Snapshot
    \/ TakeControl
    \/ RunControl
    \/ TakeNormal
    \/ NextNormal
    \/ StartNormal

Quiesce == QuiesceBegin \/ QuiesceControl \/ QuiesceFinish

Next ==
    \/ Post
    \/ Close
    \/ RunLoop
    \/ SkipLoop
    \/ CheckStop
    \/ PollWake
    \/ PollOther
    \/ PollFails
    \/ HandleWake
    \/ Quiesce
    \/ Destroy
    \/ Terminated

Spec == Init /\ [][Next]_vars

(* The owner thread keeps running and its polls are bounded; a wake that   *)
(* stays readable is reported by some later poll and is then read.  A      *)
(* request that has begun to close goes on, and a loop that failed is      *)
(* asked to quiesce by its worker.  Nothing forces a post, another close   *)
(* or the start of the loop.                                               *)
Fairness ==
    /\ WF_vars(CheckStop)
    /\ WF_vars(PollWake \/ PollOther)
    /\ SF_vars(PollWake)
    /\ SF_vars(ReadWake)
    /\ WF_vars(HandleWake)
    /\ WF_vars(Quiesce)
    /\ WF_vars(RequestStop)
    /\ WF_vars(CloseWake)
    /\ WF_vars(opc = "failed" /\ CloseAdmission)

FairSpec == Spec /\ Fairness

-----------------------------------------------------------------------------
Waking == {"dispatch", "read", "consumed", "snapshot", "control", "crun",
           "normal", "next", "start"}
OwnerStates == {"unstarted", "check", "poll", "failed", "stopped", "quiesce",
                "quiesced", "destroyed"} \cup Waking

AdmissionType ==
    /\ normal_admission_open \in BOOLEAN
    /\ stop_requested \in BOOLEAN
    /\ control_admission_open \in BOOLEAN
    /\ closing \in {"no", "stopping", "arming", "woken", "degraded"}
    /\ opc \in OwnerStates
WakeType ==
    /\ fds \in BOOLEAN
    /\ readable \in BOOLEAN
    /\ wakeup_pending \in BOOLEAN
NormalType ==
    /\ custom_events \in Seq(Normal)
    /\ custom_left \in Nat
    /\ batch \in Seq(Normal)
    /\ posted \in Seq(Normal)
    /\ ran \in Seq(Normal)
ControlType ==
    /\ control_events \in Seq(Control)
    /\ control_left \in Nat
    /\ control_batch \in Seq(Control)
    /\ control_posted \in Seq(Control)
    /\ control_ran \in Seq(Control)

(* The type invariant of the loop.                                         *)
TypeOK == AdmissionType /\ WakeType /\ NormalType /\ ControlType

(* Where the owner can hold a batch or the rest of a snapshot, and that a  *)
(* snapshot never exceeds its queue.                                       *)
NormalShape ==
    /\ opc = "start" => batch # << >>
    /\ opc \notin {"next", "start"} => batch = << >>
    /\ opc \notin {"control", "crun", "normal", "next", "start"} =>
          custom_left = 0
    /\ custom_left <= Len(custom_events)
ControlShape ==
    /\ opc = "crun" <=> control_batch # << >>
    /\ opc \notin {"control", "crun"} => control_left = 0
    /\ control_left <= Len(control_events)

(* How the admissions follow the close and the owner.                      *)
ClosingShape ==
    /\ normal_admission_open <=> closing = "no"
    /\ stop_requested <=> closing \in {"arming", "woken", "degraded"}
    /\ opc \in {"quiesce", "quiesced"} =>
          ~control_admission_open /\ ~normal_admission_open
    /\ ~control_admission_open => opc \in {"quiesce", "quiesced", "destroyed"}

(* wakeup_pending means that a notification is armed: until the admission  *)
(* closes, the descriptor is readable or the owner has read it and is on   *)
(* its way to clear the flag.  And no post relies on descriptors that are  *)
(* not there.                                                              *)
ArmedIsReadable ==
    /\ normal_admission_open /\ wakeup_pending =>
          readable \/ opc \in {"consumed", "snapshot"}
    /\ readable \/ wakeup_pending => fds

(* No event is left without a wake: what the running callback has not      *)
(* captured in its snapshot has a wake of its own pending.                 *)
QueuedIsArmed ==
    /\ normal_admission_open =>
          (Len(custom_events) > custom_left => wakeup_pending)
    /\ control_admission_open =>
          (Len(control_events) > control_left => wakeup_pending)

(* A wake is never lost, and never missing.                                *)
WakeNotLost == ArmedIsReadable /\ QueuedIsArmed

(* Control events are served in order and never lost: each accepted one    *)
(* has run, is in the current batch or is still queued, until the loop is  *)
(* destroyed; and all of them have run when the loop is quiesced.          *)
ControlKept ==
    /\ opc # "destroyed" =>
          control_posted = control_ran \o control_batch \o control_events
    /\ opc = "quiesced" => control_ran = control_posted

(* Normal events are served in order, each at most once, and none is       *)
(* skipped: what has run is the oldest part of what was accepted.  None is *)
(* dropped while the admission is open or a batch is being run.            *)
NormalInOrder ==
    /\ Len(ran) <= Len(posted) /\ ran = SubSeq(posted, 1, Len(ran))
    /\ opc # "destroyed" /\ (DispatchAllowed \/ opc \in {"next", "start"}) =>
          posted = ran \o batch \o custom_events

(* From the closing store on, no further dispatch of the wake and no       *)
(* further event of a batch is admitted: at most the callback whose check  *)
(* came before may still start.                                            *)
ClosedStartsNothing ==
    [][~normal_admission_open /\ opc' \in {"read", "start"} => opc' = opc]_vars

(* After the closing store no normal event is accepted, and after the      *)
(* control admission is closed no control event.                           *)
ClosedTakesNothing ==
    [][/\ ~normal_admission_open => posted' = posted
       /\ ~control_admission_open => control_posted' = control_posted]_vars

(* The inductive invariant behind the wake and the two queues.             *)
LoopInv ==
    /\ TypeOK
    /\ NormalShape /\ ControlShape /\ ClosingShape
    /\ ArmedIsReadable /\ QueuedIsArmed
    /\ ControlKept /\ NormalInOrder

(* What wloopRequestQuiesce promises when it returns true: the owner is    *)
(* not left blocked in its poll without a pending wake.                    *)
QuiesceWakeArmed == closing = "woken" /\ opc = "poll" => readable

(* An accepted event runs while the loop runs, unless the admission is     *)
(* closed.                                                                 *)
PostedRuns ==
    \A e \in Normal :
        e \in Elements(posted) /\ opc \in Waking \cup {"check", "poll"} ~>
            e \in Elements(ran) \/ ~normal_admission_open

(* A control event accepted by a running loop is run, closed or not.       *)
ControlRuns ==
    \A e \in Control :
        e \in Elements(control_posted) /\ opc \notin {"unstarted", "destroyed"}
            ~> e \in Elements(control_ran)

(* The loop notices a quiesce request even if its wake could not be armed. *)
QuiesceNoticed ==
    ~normal_admission_open /\ opc \notin {"unstarted", "destroyed"}
        ~> opc \in {"quiesced", "destroyed"}

(* A running loop serves what it accepted, normal events until the closing *)
(* store and control events beyond it, and notices that it must stop.      *)
LoopServes == PostedRuns /\ ControlRuns /\ QuiesceNoticed
=============================================================================
