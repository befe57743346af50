--------------------------- MODULE WorkerMessages ---------------------------
(***************************************************************************)
(* Cross-thread messages to one event worker (ww/instance/worker_messages).*)
(*                                                                         *)
(* Any thread submits a callback for the worker.  The transaction runs     *)
(* under worker->control_mutex: the message is appended to a deque and, if *)
(* no drain is pending, one drain root is posted to the worker's event     *)
(* loop.  The drain runs bounded batches and posts its own successor.  A   *)
(* delayed message keeps a pooled record and a loop timer.  When the       *)
(* worker is asked to quiesce, both admissions close under the same mutex, *)
(* the owner thread cancels what it has not run, and teardown detaches the *)
(* queue from the worker.                                                  *)
(*                                                                         *)
(* One action is one critical section or one step of the owner thread      *)
(* between two of them.  The loop is abstracted to what the messages use:  *)
(* the drain roots it holds, its timers and its normal admission.          *)
(***************************************************************************)
EXTENDS Integers, Sequences, FiniteSets

CONSTANTS
    Msgs,         \* submissions
    Producers,    \* foreign threads
    Owner,        \* the worker's own thread, submitting from a callback
    NoMsg,        \* the absence of a message
    BatchSize,    \* kWorkerMessageDrainBatchSize
    MaxEntries    \* maximum_entries of the deque

ASSUME MessagesAssumption ==
    /\ Owner \notin Producers
    /\ NoMsg \notin Msgs
    /\ BatchSize \in Nat \ {0}
    /\ MaxEntries \in Nat \ {0}

VARIABLES
    admission,       \* worker->message_admission_open
    attached,        \* worker->loop and worker->message_queue are not NULL
    normalOpen,      \* wloopNormalDispatchAllowed(loop)
    lifecycle,       \* worker->lifecycle
    queued,          \* message_queue->queued: entries [msg, setup]
    timed,           \* message_queue->timed: messages linked in the list
    wakeup_pending,  \* message_queue->wakeup_pending
    roots,           \* drain roots in the loop's custom_events
    opc,             \* where the owner thread is
    batch,           \* unstarted rest of the drain's local snapshot
    cur,             \* the message whose timer runTimedTask is handling
    taken,           \* entries of a local cancellation list
    takenTimed,      \* records of a local cancellation list
    timer,           \* timer[m]: the loop timer whose userdata is m
    rearmed,         \* messages whose timer already fired early once
    records,         \* pooled timed records in use
    sub,             \* sub[p]: p's submission between check and lock
    result,          \* result[m]: what the submission of m returned
    runs, cleanups,  \* how often m's callback and m's cleanup were called
    reason,          \* the cancel reason given to m's cleanup
    fault            \* the first abort, double release or dangling timer

loopVars == <<normalOpen, roots, timer, rearmed>>
queueVars == <<admission, attached, queued, timed, wakeup_pending>>
localVars == <<batch, cur, taken, takenTimed>>
ledgerVars == <<result, runs, cleanups, reason>>
dataVars == <<queueVars, loopVars, localVars, ledgerVars, records, sub, fault>>
vars == <<dataVars, lifecycle, opc>>

Submitters == Producers \cup {Owner}
Idle == [msg |-> NoMsg, delayed |-> FALSE, retain |-> FALSE]

Entries == [msg : Msgs, setup : BOOLEAN]
Submissions == [msg : Msgs, delayed : BOOLEAN, retain : BOOLEAN]

(* worker_lifecycle_e, in order.                                           *)
Initialized == 0
Running == 1
QuiesceRequested == 2
Quiesced == 3
DrainRequested == 4
Drained == 5
TeardownRequested == 6
Exited == 7
Joined == 8

Smaller(a, b) == IF a < b THEN a ELSE b

-----------------------------------------------------------------------------
(* workerInit: the queue is installed, the loop exists, admission is still *)
(* closed and no thread runs the worker.                                   *)
Init ==
    /\ admission = FALSE
    /\ attached = TRUE
    /\ normalOpen = TRUE
    /\ lifecycle = Initialized
    /\ queued = << >>
    /\ timed = {}
    /\ wakeup_pending = FALSE
    /\ roots = 0
    /\ opc = "unstarted"
    /\ batch = << >>
    /\ cur = NoMsg
    /\ taken = << >>
    /\ takenTimed = {}
    /\ timer = [m \in Msgs |-> "none"]
    /\ rearmed = {}
    /\ records = {}
    /\ sub = [p \in Submitters |-> Idle]
    /\ result = [m \in Msgs |-> "new"]
    /\ runs = [m \in Msgs |-> 0]
    /\ cleanups = [m \in Msgs |-> 0]
    /\ reason = [m \in Msgs |-> "none"]
    /\ fault = "none"

-----------------------------------------------------------------------------
(* Settlement of one message.                                              *)

(* The callback of m is invoked.                                           *)
Run(m) ==
    /\ runs' = [runs EXCEPT ![m] = @ + 1]
    /\ UNCHANGED <<cleanups, reason>>

(* The cleanup of m is invoked with a cancel reason.                       *)
Clean(m, why) ==
    /\ cleanups' = [cleanups EXCEPT ![m] = @ + 1]
    /\ reason' = [reason EXCEPT ![m] = why]
    /\ UNCHANGED runs

(* reuseTimedWorkerMessage: the record goes back to the pool once.         *)
Release(m) ==
    /\ records' = records \ {m}
    /\ fault' = IF m \in records THEN fault ELSE "doubleRelease"

(* A refused submission either runs the cleanup or leaves the message to   *)
(* the caller (retain); a delayed one gives its record back.               *)
Refuse(m, retain, why) ==
    /\ result' = [result EXCEPT ![m] = IF retain THEN "retained" ELSE "cleaned"]
    /\ IF retain THEN UNCHANGED <<runs, cleanups, reason>> ELSE Clean(m, why)

RefuseHeld(s, why) ==
    /\ Refuse(s.msg, s.retain, why)
    /\ IF s.delayed THEN Release(s.msg) ELSE UNCHANGED <<records, fault>>

Accept(m) ==
    /\ result' = [result EXCEPT ![m] = "accepted"]
    /\ UNCHANGED <<runs, cleanups, reason>>

-----------------------------------------------------------------------------
(* Submission.  The owner submits from inside one of its callbacks, or     *)
(* from a cleanup it runs as a control callback after the close.           *)

InCallback == opc \in {"io", "callback", "tcallback"}
InCleanup == opc \in {"cancel", "clean", "destroy"}
MaySubmit(p) == sub[p] = Idle /\ (p = Owner => InCallback \/ InCleanup)

(* The target WID is not a registered worker: refused at once.             *)
RejectUndeliverable(p, m, retain) ==
    /\ MaySubmit(p) /\ result[m] = "new"
    /\ Refuse(m, retain, "TargetUnavailable")
    /\ UNCHANGED <<queueVars, loopVars, localVars, lifecycle, opc, records,
                   sub, fault>>

(* The unlocked check of message_admission_open; a delayed message then    *)
(* takes its record from the pool.                                         *)
SubmitCheck(p, m, delayed, retain) ==
    /\ MaySubmit(p) /\ result[m] = "new"
    /\ IF admission
       THEN /\ sub' = [sub EXCEPT ![p] = [msg |-> m, delayed |-> delayed,
                                          retain |-> retain]]
            /\ result' = [result EXCEPT ![m] = "submitting"]
            /\ records' = IF delayed THEN records \cup {m} ELSE records
            /\ UNCHANGED <<runs, cleanups, reason>>
       ELSE /\ Refuse(m, retain, "AdmissionClosed")
            /\ UNCHANGED <<sub, records>>
    /\ UNCHANGED <<queueVars, loopVars, localVars, lifecycle, opc, fault>>

(* sendWorkerMessageWithCleanup on the owner inside a normal callback runs *)
(* the message inline.                                                     *)
SendInline(m) ==
    /\ InCallback /\ sub[Owner] = Idle /\ result[m] = "new"
    /\ result' = [result EXCEPT ![m] = "inline"]
    /\ Run(m)
    /\ UNCHANGED <<queueVars, loopVars, localVars, lifecycle, opc, records,
                   sub, fault>>

(* The locked transaction of p's submission s; the owner arms a delayed    *)
(* message directly, everyone else queues it.                              *)
Queues(p) == sub[p] # Idle /\ (p = Owner => ~sub[p].delayed)
EntryOf(s) == [msg |-> s.msg, setup |-> s.delayed]

EnqueueRefused(p) ==
    /\ Queues(p)
    /\ \/ /\ ~admission \/ ~attached
          /\ RefuseHeld(sub[p], "AdmissionClosed")
       \/ /\ admission /\ attached
          /\ Len(queued) >= MaxEntries
          /\ RefuseHeld(sub[p], "EnqueueFailure")
    /\ sub' = [sub EXCEPT ![p] = Idle]
    /\ UNCHANGED <<queueVars, loopVars, localVars, lifecycle, opc>>

\* Mutant of CanPush: the locked section trusts the unlocked check.
CanPush_NoRecheck == Len(queued) < MaxEntries

CanPush == admission /\ attached /\ Len(queued) < MaxEntries

\* Mutant of Push: the deque is pushed at the wrong end.
Push_Front(e) == queued' = <<e>> \o queued

Push(e) == queued' = Append(queued, e)

\* Mutant of PostWakeup: the wake is armed but the root is not queued.
PostWakeup_Lost == UNCHANGED roots

(* workerMessagePostWakeup succeeds on an open loop.                       *)
PostWakeup == roots' = roots + 1

(* A drain root is already queued or executing.                            *)
EnqueueCoalesced(p) ==
    /\ Queues(p) /\ CanPush
    /\ wakeup_pending
    /\ Push(EntryOf(sub[p]))
    /\ Accept(sub[p].msg)
    /\ sub' = [sub EXCEPT ![p] = Idle]
    /\ UNCHANGED <<admission, attached, timed, wakeup_pending, loopVars,
                   localVars, lifecycle, opc, records, fault>>

(* The submission posts the drain root.                                    *)
EnqueueWoken(p) ==
    /\ Queues(p) /\ CanPush
    /\ ~wakeup_pending
    /\ normalOpen
    /\ Push(EntryOf(sub[p]))
    /\ wakeup_pending' = TRUE
    /\ PostWakeup
    /\ Accept(sub[p].msg)
    /\ sub' = [sub EXCEPT ![p] = Idle]
    /\ UNCHANGED <<admission, attached, timed, normalOpen, timer, rearmed,
                   localVars, lifecycle, opc, records, fault>>

(* wloopPostEvent refuses (a hard wake failure or a closed loop): the push *)
(* is rolled back and the submission refused.                              *)
EnqueueWakeFailed(p) ==
    /\ Queues(p) /\ CanPush
    /\ ~wakeup_pending
    /\ RefuseHeld(sub[p], "EnqueueFailure")
    /\ sub' = [sub EXCEPT ![p] = Idle]
    /\ UNCHANGED <<queueVars, loopVars, localVars, lifecycle, opc>>

(* setupTimedTaskChecked under the lock: link the record and its timer.    *)
MayArm == admission /\ attached /\ normalOpen
Arm(m) ==
    /\ timed' = timed \cup {m}
    /\ timer' = [timer EXCEPT ![m] = "heap"]

OwnerArm ==
    /\ sub[Owner] # Idle /\ sub[Owner].delayed
    /\ \/ /\ MayArm
          /\ Arm(sub[Owner].msg)
          /\ Accept(sub[Owner].msg)
          /\ UNCHANGED <<records, fault>>
       \/ /\ ~MayArm
          /\ RefuseHeld(sub[Owner], "AdmissionClosed")
          /\ UNCHANGED <<timed, timer>>
    /\ sub' = [sub EXCEPT ![Owner] = Idle]
    /\ UNCHANGED <<admission, attached, queued, wakeup_pending, normalOpen,
                   roots, rearmed, localVars, lifecycle, opc>>

-----------------------------------------------------------------------------
(* The owner thread: the loop pops the drain root, then workerMessage-     *)
(* DrainQueue takes a batch, runs it and posts its successor.              *)

RootQueued == roots > 0

(* eventFDReadCB copies the root out of custom_events.                     *)
PopRoot ==
    /\ opc = "poll" /\ RootQueued /\ normalOpen
    /\ roots' = roots - 1
    /\ opc' = "popped"
    /\ UNCHANGED <<queueVars, normalOpen, timer, rearmed, localVars,
                   ledgerVars, lifecycle, records, sub, fault>>

(* eventFDReadCB checks the dispatch again before each event of its batch. *)
RunRoot ==
    /\ opc = "popped"
    /\ opc' = IF normalOpen THEN "drain" ELSE "poll"
    /\ UNCHANGED <<dataVars, lifecycle>>

DrainTake ==
    /\ opc = "drain"
    /\ IF normalOpen /\ queued # << >>
       THEN LET n == Smaller(BatchSize, Len(queued)) IN
            /\ batch' = SubSeq(queued, 1, n)
            /\ queued' = SubSeq(queued, n + 1, Len(queued))
            /\ opc' = "next"
            /\ UNCHANGED wakeup_pending
       ELSE /\ wakeup_pending' = FALSE
            /\ opc' = "poll"
            /\ UNCHANGED <<batch, queued>>
    /\ UNCHANGED <<admission, attached, timed, loopVars, cur, taken,
                   takenTimed, ledgerVars, lifecycle, records, sub, fault>>

(* Every record of the snapshot is an independent root: after closure the  *)
(* rest of the batch is cancelled.                                         *)
DrainNext ==
    /\ opc = "next"
    /\ opc' = IF batch = << >> THEN "post"
              ELSE IF normalOpen THEN "start" ELSE "cancel"
    /\ UNCHANGED <<dataVars, lifecycle>>

\* Mutant of CleanEntry: the cancelled entry is dropped silently.
CleanEntry_Dropped(e, why) == UNCHANGED <<runs, cleanups, reason, records, fault>>

(* The cleanup of an entry: a setup wrapper also releases its record.      *)
CleanEntry(e, why) ==
    /\ Clean(e.msg, why)
    /\ IF e.setup THEN Release(e.msg) ELSE UNCHANGED <<records, fault>>

DrainCancel ==
    /\ opc = "cancel" /\ batch # << >>
    /\ CleanEntry(Head(batch), "Quiesced")
    /\ batch' = Tail(batch)
    /\ opc' = IF Len(batch) = 1 THEN "post" ELSE "cancel"
    /\ UNCHANGED <<queueVars, loopVars, cur, taken, takenTimed, result,
                   lifecycle, sub>>

(* The check has passed; admission may close before the callback starts.   *)
DrainStart ==
    /\ opc = "start" /\ ~Head(batch).setup
    /\ Run(Head(batch).msg)
    /\ batch' = Tail(batch)
    /\ opc' = "callback"
    /\ UNCHANGED <<queueVars, loopVars, cur, taken, takenTimed, result,
                   lifecycle, records, sub, fault>>

(* The callback of a wrapper is setupTimedTask.                            *)
DrainSetup ==
    /\ opc = "start" /\ Head(batch).setup
    /\ \/ /\ MayArm
          /\ Arm(Head(batch).msg)
          /\ UNCHANGED <<runs, cleanups, reason, records, fault>>
       \/ /\ ~MayArm
          /\ CleanEntry(Head(batch), "AdmissionClosed")
          /\ UNCHANGED <<timed, timer>>
    /\ batch' = Tail(batch)
    /\ opc' = "next"
    /\ UNCHANGED <<admission, attached, queued, wakeup_pending, normalOpen,
                   roots, rearmed, cur, taken, takenTimed, result, lifecycle,
                   sub>>

DrainReturn ==
    /\ opc = "callback" /\ sub[Owner] = Idle
    /\ opc' = "next"
    /\ UNCHANGED <<dataVars, lifecycle>>

(* After the batch: stop when the queue is empty or the loop has closed,   *)
DrainStop ==
    /\ opc = "post"
    /\ queued = << >> \/ ~normalOpen
    /\ wakeup_pending' = FALSE
    /\ opc' = "poll"
    /\ UNCHANGED <<admission, attached, queued, timed, loopVars, localVars,
                   ledgerVars, lifecycle, records, sub, fault>>

(* or append a successor root at the loop's tail,                          *)
DrainSuccessor ==
    /\ opc = "post" /\ queued # << >> /\ normalOpen
    /\ PostWakeup
    /\ opc' = "poll"
    /\ UNCHANGED <<queueVars, normalOpen, timer, rearmed, localVars,
                   ledgerVars, lifecycle, records, sub, fault>>

(* or, after a hard wake failure, take another batch from this callback.   *)
DrainFallback ==
    /\ opc = "post" /\ queued # << >> /\ normalOpen
    /\ opc' = "drain"
    /\ UNCHANGED <<dataVars, lifecycle>>

(* Any other normal callback of the loop, from which the owner submits.    *)
IoCallback ==
    /\ opc = "poll" /\ normalOpen
    /\ opc' = "io"
    /\ UNCHANGED <<dataVars, lifecycle>>

IoReturn ==
    /\ opc = "io" /\ sub[Owner] = Idle
    /\ opc' = "poll"
    /\ UNCHANGED <<dataVars, lifecycle>>

-----------------------------------------------------------------------------
(* Timers of delayed messages: heap -> pending -> runTimedTask, or         *)
(* quiesced when the dispatch finds the loop closed.                       *)

TimerExpire(m) ==
    /\ opc = "poll" /\ normalOpen /\ timer[m] = "heap"
    /\ timer' = [timer EXCEPT ![m] = "pending"]
    /\ UNCHANGED <<queueVars, normalOpen, roots, rearmed, localVars,
                   ledgerVars, lifecycle, opc, records, sub, fault>>

TimerDispatch(m) ==
    /\ opc = "poll" /\ timer[m] = "pending"
    /\ IF normalOpen
       THEN /\ cur' = m
            /\ opc' = "timer"
            /\ fault' = IF m \in records THEN fault ELSE "dangling"
            /\ UNCHANGED timer
       ELSE /\ timer' = [timer EXCEPT ![m] = "quiesced"]
            /\ UNCHANGED <<cur, opc, fault>>
    /\ UNCHANGED <<queueVars, normalOpen, roots, rearmed, batch, taken,
                   takenTimed, ledgerVars, lifecycle, records, sub>>

(* workerTimedMessageDetachFromOwner aborts on a detached queue or an      *)
(* unlinked record.                                                        *)
Linked(m) == attached /\ m \in timed

Unlink(m) == timed' = timed \ {m}

(* wtimerDelete, or the release of a fired one-shot timer.                 *)
DeleteTimer(m) == timer' = [timer EXCEPT ![m] = "none"]

(* A timer rounded early is reset, once; the next firing is due.           *)
TimerReset ==
    /\ opc = "timer" /\ cur \notin rearmed /\ normalOpen
    /\ rearmed' = rearmed \cup {cur}
    /\ timer' = [timer EXCEPT ![cur] = "heap"]
    /\ cur' = NoMsg
    /\ opc' = "poll"
    /\ UNCHANGED <<queueVars, normalOpen, roots, batch, taken, takenTimed,
                   ledgerVars, lifecycle, records, sub, fault>>

(* The reset is refused by a closed loop: the message is cancelled here    *)
(* and the loop frees the fired one-shot timer.                            *)
TimerResetRefused ==
    /\ opc = "timer" /\ cur \notin rearmed /\ ~normalOpen
    /\ Unlink(cur)
    /\ Clean(cur, "AdmissionClosed")
    /\ records' = records \ {cur}
    /\ fault' = IF ~Linked(cur) THEN "detached"
                ELSE IF cur \notin records THEN "doubleRelease" ELSE fault
    /\ DeleteTimer(cur)
    /\ cur' = NoMsg
    /\ opc' = "poll"
    /\ UNCHANGED <<admission, attached, queued, wakeup_pending, normalOpen,
                   roots, rearmed, batch, taken, takenTimed, result,
                   lifecycle, sub>>

(* A due message leaves the timed list under the lock.                     *)
TimerDue ==
    /\ opc = "timer"
    /\ Unlink(cur)
    /\ fault' = IF Linked(cur) THEN fault ELSE "detached"
    /\ opc' = "tcheck"
    /\ UNCHANGED <<admission, attached, queued, wakeup_pending, loopVars,
                   localVars, ledgerVars, lifecycle, records, sub>>

TimerRun ==
    /\ opc = "tcheck" /\ normalOpen
    /\ Run(cur)
    /\ opc' = "tcallback"
    /\ UNCHANGED <<queueVars, loopVars, localVars, result, lifecycle, records,
                   sub, fault>>

TimerCancelled ==
    /\ opc = "tcheck" /\ ~normalOpen
    /\ Clean(cur, "Quiesced")
    /\ Release(cur)
    /\ DeleteTimer(cur)
    /\ cur' = NoMsg
    /\ opc' = "poll"
    /\ UNCHANGED <<queueVars, normalOpen, roots, rearmed, batch, taken,
                   takenTimed, result, lifecycle, sub>>

TimerReturn ==
    /\ opc = "tcallback" /\ sub[Owner] = Idle
    /\ Release(cur)
    /\ DeleteTimer(cur)
    /\ cur' = NoMsg
    /\ opc' = "poll"
    /\ UNCHANGED <<queueVars, normalOpen, roots, rearmed, batch, taken,
                   takenTimed, ledgerVars, lifecycle, sub>>

-----------------------------------------------------------------------------
(* Worker lifecycle.                                                       *)

Publish(phase) ==
    lifecycle' = IF lifecycle < phase THEN phase ELSE lifecycle

(* workerMessagesOpenAdmission, the last step of workerInit.               *)
OpenAdmission ==
    /\ attached /\ lifecycle = Initialized /\ ~admission
    /\ opc = "unstarted"
    /\ admission' = TRUE
    /\ UNCHANGED <<attached, queued, timed, wakeup_pending, loopVars,
                   localVars, ledgerVars, lifecycle, opc, records, sub, fault>>

(* workerSpawn creates the thread,                                         *)
Spawn ==
    /\ opc = "unstarted" /\ admission
    /\ opc' = "spawned"
    /\ UNCHANGED <<dataVars, lifecycle>>

(* which enters workerRun and waits for the run flag.                      *)
StartThread ==
    /\ opc = "spawned"
    /\ opc' = "boot"
    /\ Publish(Running)
    /\ UNCHANGED dataVars

(* Either the run flag is published or a quiesce request ends the wait.    *)
EnterLoop ==
    /\ opc = "boot"
    /\ opc' = IF lifecycle < QuiesceRequested THEN "poll" ELSE "quiesce"
    /\ UNCHANGED <<dataVars, lifecycle>>

(* workerRequestQuiesceInternal: both admissions close under the mutex.    *)
CloseBoth ==
    /\ Publish(QuiesceRequested)
    /\ admission' = FALSE
    /\ normalOpen' = FALSE

RequestQuiesce ==
    /\ opc # "unstarted"
    /\ attached /\ lifecycle < TeardownRequested
    /\ CloseBoth
    /\ UNCHANGED <<attached, queued, timed, wakeup_pending, roots, timer,
                   rearmed, localVars, ledgerVars, opc, records, sub, fault>>

NoPendingTimer == \A m \in Msgs : timer[m] # "pending"

(* wloopRun returns on stop_requested after its pendings are processed.    *)
ExitLoop ==
    /\ opc = "poll" /\ ~normalOpen /\ NoPendingTimer
    /\ opc' = "quiesce"
    /\ UNCHANGED <<dataVars, lifecycle>>

(* wloopRun fails: the worker requests its own quiesce.                    *)
LoopFails ==
    /\ opc = "poll" /\ NoPendingTimer
    /\ CloseBoth
    /\ opc' = "quiesce"
    /\ UNCHANGED <<attached, queued, timed, wakeup_pending, roots, timer,
                   rearmed, localVars, ledgerVars, records, sub, fault>>

(* workerMessagesTakePending: move both collections to local lists.        *)
TakePending ==
    /\ taken' = queued
    /\ takenTimed' = timed
    /\ queued' = << >>
    /\ timed' = {}
    /\ wakeup_pending' = FALSE

(* workerMessagesCleanupCollections: first the queue, then the records,    *)
(* whose timers are deleted.                                               *)
CleanTaken(why) ==
    \/ /\ taken # << >>
       /\ CleanEntry(Head(taken), why)
       /\ taken' = Tail(taken)
       /\ UNCHANGED <<takenTimed, timer>>
    \/ /\ taken = << >>
       /\ \E m \in takenTimed :
            /\ Clean(m, why)
            /\ Release(m)
            /\ takenTimed' = takenTimed \ {m}
            /\ DeleteTimer(m)
       /\ UNCHANGED taken

QuiesceTake ==
    /\ opc = "quiesce"
    /\ TakePending
    /\ opc' = "clean"
    /\ UNCHANGED <<admission, attached, loopVars, batch, cur, ledgerVars,
                   lifecycle, records, sub, fault>>

QuiesceClean ==
    /\ opc = "clean"
    /\ CleanTaken("Quiesced")
    /\ UNCHANGED <<queueVars, normalOpen, roots, rearmed, batch, cur, result,
                   lifecycle, opc, sub>>

(* wloopQuiesceNormalWork drops the roots and retires the armed timers.    *)
QuiesceLoop ==
    /\ opc = "clean" /\ taken = << >> /\ takenTimed = {}
    /\ roots' = 0
    /\ timer' = [m \in Msgs |->
                    IF timer[m] = "heap" THEN "quiesced" ELSE timer[m]]
    /\ Publish(Quiesced)
    /\ opc' = "quiesced"
    /\ UNCHANGED <<queueVars, normalOpen, rearmed, localVars, ledgerVars,
                   records, sub, fault>>

\* Mutant of RequestPhase: the required phase itself is refused.
RequestPhase_Strict(required, requested) ==
    /\ lifecycle > required /\ lifecycle < requested
    /\ Publish(requested)

(* workerRequestPhase; asking again changes nothing.                       *)
RequestPhase(required, requested) ==
    /\ lifecycle >= required /\ lifecycle < requested
    /\ Publish(requested)

RequestDrain ==
    /\ RequestPhase(Quiesced, DrainRequested)
    /\ UNCHANGED <<dataVars, opc>>

PerformDrain ==
    /\ opc = "quiesced" /\ lifecycle >= DrainRequested
    /\ Publish(Drained)
    /\ opc' = "drained"
    /\ UNCHANGED dataVars

RequestTeardown ==
    /\ RequestPhase(Drained, TeardownRequested)
    /\ UNCHANGED <<dataVars, opc>>

(* workerMessagesCloseAdmissionAndDetach, then DestroyDetached.            *)
Detach ==
    /\ admission' = FALSE
    /\ attached' = FALSE
    /\ TakePending
    /\ opc' = "destroy"
    /\ UNCHANGED <<loopVars, batch, cur, ledgerVars, lifecycle, records, sub,
                   fault>>

PerformTeardown ==
    /\ opc = "drained" /\ lifecycle >= TeardownRequested
    /\ Detach

(* Startup rollback: the thread was never created.                         *)
DestroyUnstarted ==
    /\ opc = "unstarted" /\ lifecycle = Initialized
    /\ Detach

DestroyClean ==
    /\ opc = "destroy"
    /\ CleanTaken("Teardown")
    /\ UNCHANGED <<queueVars, normalOpen, roots, rearmed, batch, cur, result,
                   lifecycle, opc, sub>>

(* wloopDestroy frees the loop with its events and timers.                 *)
DestroyDone ==
    /\ opc = "destroy" /\ taken = << >> /\ takenTimed = {}
    /\ roots' = 0
    /\ timer' = [m \in Msgs |-> "none"]
    /\ Publish(IF lifecycle = Initialized THEN Joined ELSE Exited)
    /\ opc' = "gone"
    /\ UNCHANGED <<queueVars, normalOpen, rearmed, localVars, ledgerVars,
                   records, sub, fault>>

Join ==
    /\ opc = "gone" /\ lifecycle = Exited
    /\ Publish(Joined)
    /\ UNCHANGED <<dataVars, opc>>

(* The worker has been joined; only refused submissions can follow.        *)
Terminated == lifecycle = Joined /\ UNCHANGED vars

-----------------------------------------------------------------------------
Submit ==
    \/ \E p \in Submitters, m \in Msgs, r \in BOOLEAN :
          RejectUndeliverable(p, m, r)
    \/ \E p \in Submitters, m \in Msgs, d, r \in BOOLEAN :
          SubmitCheck(p, m, d, r)
    \/ \E m \in Msgs : SendInline(m)

Transact(p) ==
    \/ EnqueueRefused(p)
    \/ EnqueueCoalesced(p)
    \/ EnqueueWoken(p)
    \/ EnqueueWakeFailed(p)

Drain ==
    \/ RunRoot
    \/ DrainTake
    \/ DrainNext
    \/ DrainCancel
    \/ DrainStart
    \/ DrainSetup
    \/ DrainReturn
    \/ DrainStop
    \/ DrainSuccessor
    \/ DrainFallback

RunTimed ==
    \/ TimerReset
    \/ TimerResetRefused
    \/ TimerDue
    \/ TimerRun
    \/ TimerCancelled
    \/ TimerReturn

WindDown ==
    \/ ExitLoop
    \/ QuiesceTake
    \/ QuiesceClean
    \/ QuiesceLoop
    \/ PerformDrain
    \/ PerformTeardown
    \/ DestroyClean
    \/ DestroyDone

Control ==
    \/ OpenAdmission
    \/ Spawn
    \/ DestroyUnstarted
    \/ RequestQuiesce
    \/ RequestDrain
    \/ RequestTeardown
    \/ Join

Next ==
    \/ Submit
    \/ \E p \in Submitters : Transact(p)
    \/ OwnerArm
    \/ PopRoot
    \/ Drain
    \/ IoCallback
    \/ IoReturn
    \/ \E m \in Msgs : TimerExpire(m)
    \/ \E m \in Msgs : TimerDispatch(m)
    \/ RunTimed
    \/ StartThread
    \/ EnterLoop
    \/ LoopFails
    \/ WindDown
    \/ Control
    \/ Terminated

Spec == Init /\ [][Next]_vars

(* Threads that are running keep running: a submission reaches its lock,   *)
(* the owner's code and its callbacks return, and startup either starts    *)
(* the worker or destroys it.  Each pass of the loop polls the wake        *)
(* descriptor and the timers, so other I/O cannot starve them: strong      *)
(* fairness for the root and the timers.  A requested shutdown goes on to  *)
(* drain and tear down; nothing forces a quiesce request or a loop failure.*)
Fairness ==
    /\ \A p \in Submitters : WF_vars(Transact(p))
    /\ WF_vars(OwnerArm)
    /\ SF_vars(PopRoot)
    /\ WF_vars(Drain)
    /\ WF_vars(IoReturn)
    /\ SF_vars(\E m \in Msgs : TimerExpire(m))
    /\ SF_vars(\E m \in Msgs : TimerDispatch(m))
    /\ WF_vars(RunTimed)
    /\ WF_vars(StartThread)
    /\ WF_vars(EnterLoop)
    /\ WF_vars(WindDown)
    /\ WF_vars(Spawn \/ DestroyUnstarted)
    /\ WF_vars(RequestDrain)
    /\ WF_vars(RequestTeardown)

FairSpec == Spec /\ Fairness

-----------------------------------------------------------------------------
OwnerStates ==
    {"unstarted", "spawned", "boot", "poll", "io", "popped", "drain", "next",
     "start", "cancel", "callback", "post", "timer", "tcheck", "tcallback",
     "quiesce", "clean", "quiesced", "drained", "destroy", "gone"}
Reasons == {"none", "TargetUnavailable", "AdmissionClosed", "EnqueueFailure",
            "Quiesced", "Teardown"}

TimerStates == {"none", "heap", "pending", "quiesced"}
Results == {"new", "submitting", "accepted", "cleaned", "retained", "inline"}
Faults == {"none", "doubleRelease", "dangling", "detached"}

QueueType ==
    /\ admission \in BOOLEAN
    /\ attached \in BOOLEAN
    /\ queued \in Seq(Entries)
    /\ timed \in SUBSET Msgs
    /\ wakeup_pending \in BOOLEAN
LoopType ==
    /\ normalOpen \in BOOLEAN
    /\ roots \in Nat
    /\ timer \in [Msgs -> TimerStates]
    /\ rearmed \in SUBSET Msgs
LocalType ==
    /\ batch \in Seq(Entries)
    /\ cur \in Msgs \cup {NoMsg}
    /\ taken \in Seq(Entries)
    /\ takenTimed \in SUBSET Msgs
LedgerType ==
    /\ result \in [Msgs -> Results]
    /\ runs \in [Msgs -> Nat]
    /\ cleanups \in [Msgs -> Nat]
    /\ reason \in [Msgs -> Reasons]
OwnerType ==
    /\ lifecycle \in Initialized .. Joined
    /\ opc \in OwnerStates
RecordType ==
    /\ records \in SUBSET Msgs
    /\ sub \in [Submitters -> Submissions \cup {Idle}]
    /\ fault \in Faults

(* The type invariant of the worker's queue, loop, owner and submitters.   *)
TypeOK ==
    /\ QueueType
    /\ LoopType
    /\ LocalType
    /\ LedgerType
    /\ OwnerType
    /\ RecordType

(* What the owner holds where: a started record heads the batch, a timer   *)
(* being handled is known.                                                 *)
OwnerShape ==
    /\ opc = "start" => batch # << >>
    /\ opc \in {"timer", "tcheck", "tcallback"} => cur \in Msgs

TypeInv == TypeOK /\ OwnerShape

Settled(m) == runs[m] + cleanups[m]
In(m, q) == \E i \in 1 .. Len(q) : q[i].msg = m

(* Every place that can own an accepted, unsettled message.                *)
Queueing(m) == In(m, queued) \/ In(m, batch) \/ In(m, taken)
Timing(m) ==
    \/ m \in timed \cup takenTimed
    \/ m = cur /\ opc = "tcheck"

(* The submission contract: a callback runs or a cleanup runs, never both  *)
(* and never twice, whichever thread settles the message, and a message    *)
(* its caller retained gets neither.                                       *)
SettledOnce ==
    \A m \in Msgs :
        /\ Settled(m) <= 1
        /\ result[m] \in {"new", "submitting", "retained"} => Settled(m) = 0
        /\ result[m] \in {"cleaned", "inline"} => Settled(m) = 1

(* An accepted message that nobody has settled is in the hands of exactly  *)
(* one owner: the queue, the drain's batch, a cancellation list, the timed *)
(* list or the running timer.  Nothing accepted is lost or held twice.     *)
AcceptedIsHeld ==
    \A m \in Msgs :
        /\ result[m] = "accepted" /\ Settled(m) = 0
              <=> Queueing(m) \/ Timing(m)
        /\ ~(Queueing(m) /\ Timing(m))

(* The drain-root protocol: while the loop is open a non-empty queue has a *)
(* drain pending, and a pending drain is exactly one root, queued in the   *)
(* loop or executing on the owner.                                         *)
Draining == opc \in {"popped", "drain", "next", "start", "cancel", "callback",
                     "post"}
ActiveRoots == roots + (IF Draining THEN 1 ELSE 0)
WakeCovered ==
    normalOpen /\ attached =>
        /\ queued # << >> => wakeup_pending
        /\ wakeup_pending <=> ActiveRoots = 1

(* Two drains never run over the same queue: a root is never queued while  *)
(* the owner is inside the drain, open or closed.                          *)
SingleDrain == ActiveRoots <= 1

(* How the owner's position follows the lifecycle and the loop's closure.  *)
OwnerPhase ==
    /\ attached <=> opc \notin {"destroy", "gone"}
    /\ opc \in {"quiesce", "clean", "quiesced", "drained"} => ~normalOpen
    /\ attached /\ lifecycle >= QuiesceRequested => ~normalOpen
    /\ lifecycle >= Quiesced => opc \in {"quiesced", "drained", "destroy", "gone"}

(* The inductive invariant behind the drain-root protocol.                 *)
WakeInv == WakeCovered /\ SingleDrain /\ OwnerPhase

(* The pooled records of timed messages.  A timer the loop can still fire  *)
(* belongs to a linked record, or to one that runTimedTask or the quiescing*)
(* owner is settling; a record is in use only while its message is being   *)
(* submitted, is held or is inside its own callback; and neither abort of  *)
(* runTimedTask, no double release and no firing on a released record can  *)
(* happen.                                                                 *)
TimedRecordsSafe ==
    /\ fault = "none"
    /\ \A m \in Msgs :
          timer[m] \in {"heap", "pending"} =>
              m \in records /\ m \in timed \cup takenTimed \cup {cur}
    /\ \A m \in records :
          \/ \E p \in Submitters : sub[p].msg = m /\ sub[p].delayed
          \/ Queueing(m)
          \/ m \in timed \cup takenTimed \cup {cur}

(* A quiesced worker owes nothing: whatever it accepted has been settled   *)
(* before kWorkerLifecycleQuiesced is published, so that the teardown      *)
(* reason is only ever seen by messages to a worker that never started.    *)
QuiescedOwesNothing ==
    /\ lifecycle \in Quiesced .. Exited =>
          /\ queued = << >> /\ timed = {} /\ batch = << >> /\ roots = 0
          /\ \A m \in Msgs : result[m] = "accepted" => Settled(m) = 1
    /\ (\E m \in Msgs : reason[m] = "Teardown") => lifecycle \in {Initialized, Joined}

(* What the owner holds where: the drain's batch, the timer being handled  *)
(* and the cancellation lists exist only while it works on them, and once  *)
(* it has taken the queue away nothing comes after it.                     *)
OwnerLists ==
    /\ batch # << >> => opc \in {"next", "start", "cancel", "callback"}
    /\ opc \in {"timer", "tcheck", "tcallback"} <=> cur # NoMsg
    /\ taken # << >> \/ takenTimed # {} =>
          opc = "clean" \/ (opc = "destroy" /\ lifecycle = Initialized)
    /\ opc \in {"clean", "quiesced", "drained", "destroy", "gone"} =>
          ~admission /\ queued = << >> /\ timed = {}
    /\ lifecycle >= Quiesced => roots = 0

(* The two admissions close together, once the worker is asked to quiesce, *)
(* and a worker that has not started has no loop yet.                      *)
Admissions ==
    /\ admission => normalOpen
    /\ normalOpen /\ ~admission => opc \in {"unstarted", "destroy", "gone"}
    /\ ~normalOpen => lifecycle >= QuiesceRequested
    /\ lifecycle = Initialized => opc \in {"unstarted", "spawned", "destroy"}
    /\ opc = "unstarted" => lifecycle = Initialized
    /\ opc = "cancel" => ~normalOpen
    /\ opc = "destroy" => lifecycle = Initialized \/ lifecycle >= Quiesced

(* No message has two entries.                                             *)
Distinct(q) == \A i, j \in 1 .. Len(q) : q[i].msg = q[j].msg => i = j
EntriesDistinct ==
    /\ Distinct(batch) /\ Distinct(queued) /\ Distinct(taken)
    /\ \A m \in Msgs : ~(In(m, batch) /\ In(m, queued))

(* A message between its check and its lock belongs to one submitter.      *)
SubmissionsHeld ==
    /\ \A p \in Submitters : sub[p] # Idle =>
          /\ result[sub[p].msg] = "submitting"
          /\ sub[p].delayed => sub[p].msg \in records
    /\ \A p, q \in Submitters :
          p # q /\ sub[p] # Idle => sub[p].msg # sub[q].msg

(* Whoever holds a timed message holds its record; a timer being handled   *)
(* is linked until the message is due, and its record stays in use until   *)
(* the callback has returned.                                              *)
Wrapped(m, q) == \E i \in 1 .. Len(q) : q[i].msg = m /\ q[i].setup
RecordsHeld ==
    /\ \A m \in Msgs :
          (\/ Wrapped(m, queued) \/ Wrapped(m, batch) \/ Wrapped(m, taken)
           \/ m \in timed \cup takenTimed \cup {cur}) => m \in records
    /\ opc = "timer" => cur \in timed
    /\ opc \in {"tcheck", "tcallback"} => cur \notin timed
    /\ opc = "tcallback" => result[cur] = "accepted" /\ Settled(cur) = 1

(* The teardown reason comes from the rollback of a worker without thread. *)
TeardownUnstarted ==
    (\E m \in Msgs : reason[m] = "Teardown") =>
        \/ opc = "destroy" /\ lifecycle = Initialized
        \/ opc = "gone" /\ lifecycle = Joined

(* What makes the ledger inductive.                                        *)
Custody ==
    /\ OwnerLists /\ Admissions /\ EntriesDistinct
    /\ SubmissionsHeld /\ RecordsHeld /\ TeardownUnstarted

(* workerSubmitMessage's whole promise: every accepted message is held by  *)
(* one owner until it is settled once, the records of timed messages       *)
(* outlive their timers, and a quiesced worker owes nothing, whatever the  *)
(* order of submitters, timers, drains and the quiesce request.            *)
MessageLedger ==
    /\ TypeInv
    /\ SettledOnce
    /\ AcceptedIsHeld
    /\ TimedRecordsSafe
    /\ QuiescedOwesNothing
    /\ Custody

(* No callback starts on a worker that has published its quiescence.       *)
NoCallbackAfterQuiesced == [][lifecycle >= Quiesced => runs' = runs]_vars

(* Nothing is accepted once a quiesce request or a detach has taken effect,*)
(* although the submission may have passed its unlocked check before.      *)
NoAcceptAfterClose ==
    [][~admission =>
          \A m \in Msgs : result'[m] = "accepted" => result[m] = "accepted"]_vars

(* Messages leave the worker in the order in which it accepted them: a     *)
(* step removes some of the oldest and adds new ones at the end only.      *)
Waiting == batch \o queued \o taken
FirstOut ==
    [][\E k \in 0 .. Len(Waiting) :
          LET kept == SubSeq(Waiting, k + 1, Len(Waiting))
              n == Len(kept)
          IN  /\ n <= Len(Waiting')
              /\ SubSeq(Waiting', 1, n) = kept
              /\ \A j \in n + 1 .. Len(Waiting') :
                    ~In(Waiting'[j].msg, Waiting)]_vars

(* A worker asked to quiesce is eventually gone, whatever it was doing.    *)
QuiesceTerminates == lifecycle = QuiesceRequested ~> opc = "gone"

-----------------------------------------------------------------------------
(* Refinement: the phase and the status of each message that a submitter   *)
(* can tell apart.                                                         *)
phaseBar ==
    IF lifecycle >= Quiesced THEN "quiesced"
    ELSE IF admission THEN "open"
    ELSE IF attached /\ lifecycle = Initialized THEN "starting"
    ELSE "closed"

statusBar ==
    [m \in Msgs |->
        IF runs[m] > 0 THEN "ran"
        ELSE IF cleanups[m] > 0 THEN "cancelled"
        ELSE IF result[m] = "retained" THEN "returned"
        ELSE IF result[m] = "accepted" THEN "pending"
        ELSE "new"]

Delivery == INSTANCE MessageDelivery WITH phase <- phaseBar, status <- statusBar

(* The worker's queue, batches, timers and shutdown implement the delivery *)
(* contract.                                                               *)
ImplementsDelivery == Delivery!Spec

(* The same with the contract's liveness: no accepted message is forgotten.*)
ImplementsFairDelivery == Delivery!FairSpec
=============================================================================
