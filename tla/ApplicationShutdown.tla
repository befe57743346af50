------------------------ MODULE ApplicationShutdown ------------------------
(***************************************************************************)
(* Startup and shutdown of the process: the shutdown controller (ww/       *)
(* instance/application_shutdown), the main thread's coordinator (ww/      *)
(* instance/global_state), the lifecycle of every event worker (ww/        *)
(* instance/worker) and the POSIX signal mailbox (ww/managers/             *)
(* signal_manager).                                                        *)
(*                                                                         *)
(* Worker 0 is the main thread.  Any thread may request a shutdown; the    *)
(* first request installs a quiesce request on worker 0 and then publishes *)
(* itself, holding the controller's mutex in between.  The main thread     *)
(* leaves its loop, claims the sequence and takes all workers through      *)
(* quiesced, drained and exited, one barrier at a time.                    *)
(*                                                                         *)
(* What a phase does inside a worker is left to WorkerMessages; here only  *)
(* the order between threads is kept.                                      *)
(***************************************************************************)
EXTENDS Integers, FiniteSets

CONSTANTS
    NWorkers,    \* event workers besides worker 0
    Producers,   \* device threads, joined by nodemanagerQuiesceWait
    Codes,       \* exit codes a request may carry
    SignalCode,  \* 128 + signum
    Timeouts     \* whether a 30 s phase wait may expire

Main == 0
Nobody == -1
Others == 1 .. NWorkers
Workers == 0 .. NWorkers
Threads == Workers \cup Producers

ASSUME ShutdownAssumption ==
    /\ NWorkers \in Nat
    /\ Producers \cap (Workers \cup {Nobody}) = {}
    /\ Codes \subseteq Nat
    /\ SignalCode \in Nat \ {0}
    /\ Timeouts \in BOOLEAN

VARIABLES
    phase,        \* controller->phase
    reason,       \* controller->reason
    context,      \* controller->cleanup_context
    exit_code,    \* controller->exit_code
    committed,    \* controller->runtime_committed
    frozen,       \* controller->status_frozen
    claimed,      \* controller->coordinator_claimed
    holder,       \* who holds controller->mutex across an accepted request
    req,          \* req[t]: t's call of applicationShutdownRequestInternal
    fatal,        \* fatal_exit_status
    run_flag,     \* GSTATE.workers_run_flag
    lifecycle,    \* lifecycle[w]: worker->lifecycle
    lcontext,     \* lcontext[w]: worker->lifecycle_context
    destroyed,    \* workers whose resources_destroyed is set
    pc,           \* pc[t]: where thread t is
    next,         \* the coordinator's loop variable
    components,   \* what nodemanager has been told
    failedLoops,  \* workers whose wloopRun returned an error
    pending,      \* posix_pending_signal
    stopSeen,     \* posix_stop_signal_seen
    handlers,     \* the signal handlers are installed
    reported,     \* codes of the requests the controller has taken
    ended,        \* how the process ended
    status        \* its exit status

controller == <<phase, reason, context, exit_code, committed, frozen, claimed,
                holder, reported, fatal>>
worker == <<lifecycle, lcontext, destroyed>>
signal == <<pending, stopSeen, handlers>>
outcome == <<ended, status>>
vars == <<controller, req, run_flag, worker, pc, next, components,
          failedLoops, signal, outcome>>

(* application_shutdown_phase_e *)
PRunning == 0
PRequested == 1
PClosingAdmissions == 2
PQuiescingWorkers == 3
PQuiescingExternalProducers == 4
PDrainingWorkers == 5
PStoppingComponents == 6
PDestroyingWorkers == 7
PFinalizing == 8

(* worker_lifecycle_e *)
Initialized == 0
Running == 1
QuiesceRequested == 2
Quiesced == 3
DrainRequested == 4
Drained == 5
TeardownRequested == 6
Exited == 7
Joined == 8

NoRequest == [code |-> 0, why |-> "none", update |-> FALSE]
Call(c, w, u) == [code |-> c, why |-> w, update |-> u]

WorkerFailure == Call(1, "WorkerFailure", TRUE)
SubsystemFailure == Call(1, "SubsystemFailure", TRUE)
SignalRequest == Call(SignalCode, "Signal", TRUE)
StartupFailure == Call(1, "StartupFailure", TRUE)

Alive == ended = "no"
Free == holder = Nobody

-----------------------------------------------------------------------------
(* createGlobalState has constructed the workers and the managers and is   *)
(* about to spawn the threads.                                             *)
Init ==
    /\ phase = PRunning
    /\ reason = "none"
    /\ context = "none"
    /\ exit_code = 0
    /\ committed = FALSE
    /\ frozen = FALSE
    /\ claimed = FALSE
    /\ holder = Nobody
    /\ req = [t \in Threads |-> NoRequest]
    /\ fatal = 0
    /\ run_flag = FALSE
    /\ lifecycle = [w \in Workers |-> Initialized]
    /\ lcontext = [w \in Workers |-> "none"]
    /\ destroyed = {}
    /\ pc = [t \in Threads |-> IF t = Main THEN "spawn" ELSE "absent"]
    /\ next = 1
    /\ components = "off"
    /\ failedLoops = {}
    /\ pending = FALSE
    /\ stopSeen = FALSE
    /\ handlers = FALSE
    /\ reported = {}
    /\ ended = "no"
    /\ status = 0

-----------------------------------------------------------------------------
(* Building blocks.                                                        *)

Goto(t, l) == pc' = [pc EXCEPT ![t] = l]
At(t, l) == Alive /\ pc[t] = l /\ req[t] = NoRequest

Publish(w, l) ==
    lifecycle' = [lifecycle EXCEPT ![w] = IF @ < l THEN l ELSE @]

(* applicationShutdownAdvancePhase, under the controller's mutex.          *)
AdvancePhase(p) ==
    /\ Free
    /\ phase' = IF phase < p THEN p ELSE phase
    /\ UNCHANGED <<reason, context, exit_code, committed, frozen, claimed,
                   holder, reported, fatal>>

(* abortProgramNow: the first recorded failure is the status.              *)
Abort(code) ==
    /\ ended' = "abort"
    /\ status' = IF fatal # 0 THEN fatal ELSE code

QuiesceAsked(w) == lifecycle[w] >= QuiesceRequested

(* workerRequestQuiesceInternal refuses a torn down worker and a second    *)
(* request with another context.                                           *)
QuiesceUnavailable(w, ctx) ==
    \/ lifecycle[w] >= TeardownRequested
    \/ QuiesceAsked(w) /\ lcontext[w] # ctx

InstallQuiesce(w, ctx) ==
    /\ lcontext' = [lcontext EXCEPT ![w] = IF @ = "none" THEN ctx ELSE @]
    /\ Publish(w, QuiesceRequested)
    /\ UNCHANGED destroyed

RequestQuiesce(w, ctx) ==
    IF QuiesceUnavailable(w, ctx)
    THEN UNCHANGED worker
    ELSE InstallQuiesce(w, ctx)

-----------------------------------------------------------------------------
(* applicationShutdownRequestInternal.                                     *)

(* applicationShutdownArbitrateStatusLocked: the first nonzero code before *)
(* the freeze and the first reason are kept.                               *)
Arbitrate(r) ==
    /\ exit_code' = IF ~frozen /\ exit_code = 0 THEN r.code ELSE exit_code
    /\ fatal' = IF fatal = 0 THEN exit_code' ELSE fatal
    /\ reason' = IF reason = "none" THEN r.why ELSE reason
    /\ reported' = IF frozen THEN reported ELSE reported \cup {r.code}

(* A shutdown is under way: only the status may change.                    *)
RequestAlreadyAccepted(t) ==
    /\ Alive /\ req[t] # NoRequest /\ Free
    /\ phase # PRunning
    /\ IF req[t].update
       THEN Arbitrate(req[t])
       ELSE UNCHANGED <<exit_code, fatal, reason, reported>>
    /\ req' = [req EXCEPT ![t] = NoRequest]
    /\ UNCHANGED <<phase, context, committed, frozen, claimed, holder,
                   run_flag, worker, pc, next, components, failedLoops,
                   signal, outcome>>

Selected == IF committed THEN "process" ELSE "rollback"

(* The first request: worker 0 is told to quiesce.  If worker 0 cannot     *)
(* take the request the caller aborts; only a signal is ignored.           *)
RequestInstall(t) ==
    /\ Alive /\ req[t] # NoRequest /\ Free
    /\ phase = PRunning
    /\ IF QuiesceUnavailable(Main, Selected)
       THEN /\ req' = [req EXCEPT ![t] = NoRequest]
            /\ IF req[t].why = "Signal" THEN UNCHANGED outcome ELSE Abort(1)
            /\ UNCHANGED <<worker, holder>>
       ELSE /\ InstallQuiesce(Main, Selected)
            /\ holder' = t
            /\ UNCHANGED <<req, outcome>>
    /\ UNCHANGED <<phase, reason, context, exit_code, committed, frozen,
                   claimed, reported, fatal, run_flag, pc, next, components,
                   failedLoops, signal>>

(* Then, still under the mutex, the request is published.                  *)
RequestPublish(t) ==
    /\ Alive /\ holder = t
    /\ Arbitrate(req[t])
    /\ context' = Selected
    /\ phase' = PRequested
    /\ holder' = Nobody
    /\ req' = [req EXCEPT ![t] = NoRequest]
    /\ UNCHANGED <<committed, frozen, claimed, run_flag, worker, pc, next,
                   components, failedLoops, signal, outcome>>

Request(t) ==
    \/ RequestAlreadyAccepted(t)
    \/ RequestInstall(t)
    \/ RequestPublish(t)

-----------------------------------------------------------------------------
(* Signals: the first one is put in the mailbox, a second one ends the     *)
(* process at once.                                                        *)
Signal ==
    /\ Alive /\ handlers
    /\ IF stopSeen
       THEN /\ ended' = "forced"
            /\ status' = SignalCode
            /\ UNCHANGED signal
       ELSE /\ stopSeen' = TRUE
            /\ pending' = TRUE
            /\ UNCHANGED <<handlers, outcome>>
    /\ UNCHANGED <<controller, req, run_flag, worker, pc, next, components,
                   failedLoops>>

(* signalmanagerConsumePendingShutdownSignal on the main thread.           *)
Consume ==
    /\ req' = IF pending THEN [req EXCEPT ![Main] = SignalRequest] ELSE req
    /\ pending' = FALSE
    /\ UNCHANGED <<stopSeen, handlers>>

-----------------------------------------------------------------------------
(* Startup, on the main thread.                                            *)

SpawnWorker ==
    /\ At(Main, "spawn") /\ next \in Others
    /\ Goto(next, "thread")
    /\ next' = next + 1
    /\ UNCHANGED <<controller, req, run_flag, worker, components, failedLoops,
                   signal, outcome>>

(* A thread cannot be created: this worker and the later ones are          *)
(* destroyed here (globalstateDestroyWorkersThatNeverStarted).             *)
SpawnFails ==
    /\ At(Main, "spawn") /\ next \in Others
    /\ destroyed' = destroyed \cup {w \in Others : w >= next}
    /\ lifecycle' = [w \in Workers |->
                        IF w \in Others /\ w >= next THEN Joined
                        ELSE lifecycle[w]]
    /\ Goto(Main, "failed")
    /\ UNCHANGED <<controller, req, run_flag, lcontext, next, components,
                   failedLoops, signal, outcome>>

(* signalmanagerStart.                                                     *)
StartSignals(ok) ==
    /\ At(Main, "spawn") /\ next \notin Others
    /\ handlers' = ok
    /\ Goto(Main, IF ok THEN "start" ELSE "failed")
    /\ UNCHANGED <<controller, req, run_flag, worker, next, components,
                   failedLoops, pending, stopSeen, outcome>>

(* The configurations are built and started, then waterwallStartup-        *)
(* Checkpoint takes a pending signal.                                      *)
StartupWork(ok) ==
    /\ At(Main, "start")
    /\ components' = "running"
    /\ Consume
    /\ Goto(Main, IF ok THEN "checkpoint" ELSE "arbitrate")
    /\ UNCHANGED <<controller, run_flag, worker, next, failedLoops, outcome>>

StartupCheckpoint ==
    /\ At(Main, "checkpoint") /\ Free
    /\ Goto(Main, IF phase = PRunning THEN "run" ELSE "coordinate")
    /\ UNCHANGED <<controller, req, run_flag, worker, next, components,
                   failedLoops, signal, outcome>>

(* signalmanagerArbitrateStartupFailure: a pending signal goes first.      *)
ArbitrateStartup ==
    /\ At(Main, "arbitrate")
    /\ Consume
    /\ Goto(Main, "failed")
    /\ UNCHANGED <<controller, run_flag, worker, next, components,
                   failedLoops, outcome>>

StartupFailed ==
    /\ At(Main, "failed")
    /\ req' = [req EXCEPT ![Main] = StartupFailure]
    /\ Goto(Main, "coordinate")
    /\ UNCHANGED <<controller, run_flag, worker, next, components,
                   failedLoops, signal, outcome>>

(* globalstateRunMainThreadWithStartupHooks.                               *)
RunMainThread ==
    /\ At(Main, "run")
    /\ Consume
    /\ Goto(Main, "commit")
    /\ UNCHANGED <<controller, run_flag, worker, next, components,
                   failedLoops, outcome>>

(* applicationShutdownCommitRuntime decides between running and rollback.  *)
CommitRuntime ==
    /\ At(Main, "commit") /\ Free
    /\ committed' = (phase = PRunning)
    /\ Goto(Main, IF phase = PRunning THEN "publish" ELSE "coordinate")
    /\ UNCHANGED <<phase, reason, context, exit_code, frozen, claimed, holder,
                   reported, fatal, req, run_flag, worker, next, components,
                   failedLoops, signal, outcome>>

PublishRunFlag ==
    /\ At(Main, "publish")
    /\ run_flag' = TRUE
    /\ Goto(Main, "thread")
    /\ UNCHANGED <<controller, req, worker, next, components, failedLoops,
                   signal, outcome>>

-----------------------------------------------------------------------------
(* workerRun, on the main thread and on every spawned one.                 *)

WorkerStart(w) ==
    /\ At(w, "thread")
    /\ Publish(w, Running)
    /\ Goto(w, "boot")
    /\ UNCHANGED <<controller, req, run_flag, lcontext, destroyed, next,
                   components, failedLoops, signal, outcome>>

AfterLoop(w) == IF w = Main THEN "leave" ELSE "quiesce"

\* Mutant of WorkerEnter: the wait only looks at the run flag.
WorkerEnter_FlagOnly(w) ==
    /\ At(w, "boot")
    /\ pc' = IF run_flag THEN [pc EXCEPT ![w] = "loop"] ELSE pc
    /\ UNCHANGED <<controller, req, run_flag, worker, next, components,
                   failedLoops, signal, outcome>>

(* The wait for the run flag ends on the flag or on a quiesce request.     *)
WorkerEnter(w) ==
    /\ At(w, "boot")
    /\ run_flag \/ QuiesceAsked(w)
    /\ Goto(w, IF run_flag /\ ~QuiesceAsked(w) THEN "loop" ELSE AfterLoop(w))
    /\ UNCHANGED <<controller, req, run_flag, worker, next, components,
                   failedLoops, signal, outcome>>

(* A normal callback starts while the loop is open; it may request the     *)
(* shutdown after the loop has been closed.                                *)
LoopCallback(w) ==
    /\ At(w, "loop") /\ ~QuiesceAsked(w)
    /\ Goto(w, "callback")
    /\ UNCHANGED <<controller, req, run_flag, worker, next, components,
                   failedLoops, signal, outcome>>

CallbackRequest(w, r) ==
    /\ At(w, "callback")
    /\ req' = [req EXCEPT ![w] = r]
    /\ Goto(w, "loop")
    /\ UNCHANGED <<controller, run_flag, worker, next, components,
                   failedLoops, signal, outcome>>

(* worker0ShutdownPipeReadCB.                                              *)
PipeRead ==
    /\ At(Main, "loop") /\ ~QuiesceAsked(Main) /\ pending
    /\ Consume
    /\ UNCHANGED <<controller, run_flag, worker, pc, next, components,
                   failedLoops, outcome>>

LoopExit(w) ==
    /\ At(w, "loop") /\ QuiesceAsked(w)
    /\ Goto(w, AfterLoop(w))
    /\ UNCHANGED <<controller, req, run_flag, worker, next, components,
                   failedLoops, signal, outcome>>

(* wloopRun fails: a spawned worker first quiesces itself.                 *)
LoopFails(w) ==
    /\ At(w, "loop")
    /\ failedLoops' = failedLoops \cup {w}
    /\ IF w = Main THEN UNCHANGED worker ELSE RequestQuiesce(w, "process")
    /\ req' = [req EXCEPT ![w] = WorkerFailure]
    /\ Goto(w, AfterLoop(w))
    /\ UNCHANGED <<controller, run_flag, next, components, signal, outcome>>

(* A spawned worker falls back to process shutdown when nobody gave it a   *)
(* context, then quiesces,                                                 *)
WorkerQuiesce(w) ==
    /\ At(w, "quiesce")
    /\ lcontext' = [lcontext EXCEPT ![w] = IF @ = "none" THEN "process" ELSE @]
    /\ Publish(w, Quiesced)
    /\ Goto(w, "waitDrain")
    /\ UNCHANGED <<controller, req, run_flag, destroyed, next, components,
                   failedLoops, signal, outcome>>

(* waits to be told to drain,                                              *)
WorkerDrain(w) ==
    /\ At(w, "waitDrain") /\ lifecycle[w] >= DrainRequested
    /\ Publish(w, Drained)
    /\ Goto(w, "waitTeardown")
    /\ UNCHANGED <<controller, req, run_flag, lcontext, destroyed, next,
                   components, failedLoops, signal, outcome>>

(* and waits to be told to tear down: resources_destroyed is set first,    *)
WorkerTeardown(w) ==
    /\ At(w, "waitTeardown") /\ lifecycle[w] >= TeardownRequested
    /\ destroyed' = destroyed \cup {w}
    /\ Goto(w, "teardown")
    /\ UNCHANGED <<controller, req, run_flag, lifecycle, lcontext, next,
                   components, failedLoops, signal, outcome>>

(* the resources go and the thread ends.                                   *)
WorkerExit(w) ==
    /\ At(w, "teardown")
    /\ Publish(w, Exited)
    /\ Goto(w, "finished")
    /\ UNCHANGED <<controller, req, run_flag, lcontext, destroyed, next,
                   components, failedLoops, signal, outcome>>

(* A device thread fails, asks for a shutdown and ends.                    *)
ProducerFails(t, r) ==
    /\ At(t, "absent") /\ components \in {"running", "asked"}
    /\ req' = [req EXCEPT ![t] = r]
    /\ Goto(t, "finished")
    /\ UNCHANGED <<controller, run_flag, worker, next, components,
                   failedLoops, signal, outcome>>

-----------------------------------------------------------------------------
(* applicationShutdownCoordinate and globalstateRunShutdownSequence, on    *)
(* the main thread.  A step that ends a stage also advances the phase.     *)

LeaveLoop ==
    /\ At(Main, "leave")
    /\ Consume
    /\ Goto(Main, "coordinate")
    /\ UNCHANGED <<controller, run_flag, worker, next, components,
                   failedLoops, outcome>>

\* Mutant of PhaseReadable: the phase is read without the mutex.
PhaseReadable_Unlocked == TRUE

(* applicationShutdownGetPhase takes the controller's mutex.               *)
PhaseReadable == Free

(* Nobody asked: the coordinator reports a worker failure itself.          *)
Coordinate ==
    /\ At(Main, "coordinate") /\ PhaseReadable
    /\ req' = IF phase = PRunning
              THEN [req EXCEPT ![Main] = WorkerFailure] ELSE req
    /\ Goto(Main, "claim")
    /\ UNCHANGED <<controller, run_flag, worker, next, components,
                   failedLoops, signal, outcome>>

(* The coordination is claimed once; the caller of a second coordination,  *)
(* which returns at once, aborts.                                          *)
Claim ==
    /\ At(Main, "claim") /\ Free
    /\ claimed' = TRUE
    /\ IF claimed THEN Abort(1) /\ UNCHANGED pc
                  ELSE Goto(Main, "close") /\ UNCHANGED outcome
    /\ UNCHANGED <<phase, reason, context, exit_code, committed, frozen,
                   holder, reported, fatal, req, run_flag, worker, next,
                   components, failedLoops, signal>>

(* A tunnel's hook may record a failure (TunDevice, Windows DNS).          *)
MayRecordFailure ==
    \/ UNCHANGED req
    \/ req' = [req EXCEPT ![Main] = SubsystemFailure]

(* nodemanagerQuiesceRequest tells the tunnels the selected context,       *)
QuiesceComponents ==
    /\ At(Main, "close")
    /\ AdvancePhase(PClosingAdmissions)
    /\ IF context = "none"
       THEN Abort(1) /\ UNCHANGED <<components, req, pc, next>>
       ELSE /\ components' = IF components = "running" THEN "asked" ELSE components
            /\ MayRecordFailure
            /\ Goto(Main, "askQuiesce")
            /\ next' = 1
            /\ UNCHANGED outcome
    /\ UNCHANGED <<run_flag, worker, failedLoops, signal>>

(* then every other live worker is told, whatever it answers.              *)
AskQuiesce ==
    /\ At(Main, "askQuiesce") /\ next \in Others
    /\ IF next \in destroyed THEN UNCHANGED worker
                             ELSE RequestQuiesce(next, context)
    /\ next' = next + 1
    /\ UNCHANGED <<controller, req, run_flag, pc, components, failedLoops,
                   signal, outcome>>

QuiesceMain ==
    /\ At(Main, "askQuiesce") /\ next \notin Others
    /\ AdvancePhase(PQuiescingWorkers)
    /\ Publish(Main, Quiesced)
    /\ Goto(Main, "waitQuiesced")
    /\ UNCHANGED <<req, run_flag, lcontext, destroyed, next, components,
                   failedLoops, signal, outcome>>

(* globalstateRequireWorkerPhase: a worker whose resources are destroyed   *)
(* is not waited for.                                                      *)
Reached(l) == \A w \in Workers : w \in destroyed \/ lifecycle[w] >= l

AllQuiesced ==
    /\ At(Main, "waitQuiesced") /\ Reached(Quiesced)
    /\ AdvancePhase(PQuiescingExternalProducers)
    /\ Goto(Main, "quiesceWait")
    /\ UNCHANGED <<req, run_flag, worker, next, components, failedLoops,
                   signal, outcome>>

\* Mutant of ProducersDone: the device threads are not joined.
ProducersDone_NoJoin == TRUE

(* The tunnels' onQuiesceWait hooks join the device threads.               *)
ProducersDone == \A t \in Producers : req[t] = NoRequest

QuiesceWait ==
    /\ At(Main, "quiesceWait") /\ ProducersDone
    /\ AdvancePhase(PDrainingWorkers)
    /\ components' = IF components = "asked" THEN "joined" ELSE components
    /\ MayRecordFailure
    /\ Goto(Main, "askDrain")
    /\ next' = 0
    /\ UNCHANGED <<run_flag, worker, failedLoops, signal, outcome>>

(* workerRequestDrain and workerRequestTeardown for the coordinator's next *)
(* worker: aborts when it has not reached the required phase.              *)
AskPhase(required, requested) ==
    /\ next \in Workers
    /\ next' = next + 1
    /\ IF next \in destroyed THEN UNCHANGED <<lifecycle, outcome>>
       ELSE IF lifecycle[next] >= required
            THEN Publish(next, requested) /\ UNCHANGED outcome
            ELSE Abort(1) /\ UNCHANGED lifecycle
    /\ UNCHANGED <<controller, req, run_flag, lcontext, destroyed, pc,
                   components, failedLoops, signal>>

AskDrain == At(Main, "askDrain") /\ AskPhase(Quiesced, DrainRequested)

DrainMain ==
    /\ At(Main, "askDrain") /\ next \notin Workers
    /\ Publish(Main, Drained)
    /\ Goto(Main, "waitDrained")
    /\ UNCHANGED <<controller, req, run_flag, lcontext, destroyed, next,
                   components, failedLoops, signal, outcome>>

AllDrained ==
    /\ At(Main, "waitDrained") /\ Reached(Drained)
    /\ AdvancePhase(PStoppingComponents)
    /\ Goto(Main, "stop")
    /\ UNCHANGED <<req, run_flag, worker, next, components, failedLoops,
                   signal, outcome>>

(* nodemanagerStop.                                                        *)
StopComponents ==
    /\ At(Main, "stop")
    /\ AdvancePhase(PDestroyingWorkers)
    /\ components' = "stopped"
    /\ MayRecordFailure
    /\ Goto(Main, "askTeardown")
    /\ next' = 0
    /\ UNCHANGED <<run_flag, worker, failedLoops, signal, outcome>>

AskTeardown ==
    At(Main, "askTeardown") /\ AskPhase(Drained, TeardownRequested)

TeardownMain ==
    /\ At(Main, "askTeardown") /\ next \notin Workers
    /\ destroyed' = destroyed \cup {Main}
    /\ Publish(Main, Exited)
    /\ Goto(Main, "waitExited")
    /\ UNCHANGED <<controller, req, run_flag, lcontext, next, components,
                   failedLoops, signal, outcome>>

AllExited ==
    /\ At(Main, "waitExited") /\ Reached(Exited)
    /\ Goto(Main, "join")
    /\ next' = 1
    /\ UNCHANGED <<controller, req, run_flag, worker, components, failedLoops,
                   signal, outcome>>

(* workerWaitForPhase gives up after 30 s, unless the worker has meanwhile *)
(* arrived.                                                                *)
PhaseTimeout ==
    /\ Timeouts
    /\ \/ At(Main, "waitQuiesced") /\ ~Reached(Quiesced)
       \/ At(Main, "waitDrained") /\ ~Reached(Drained)
       \/ At(Main, "waitExited") /\ ~Reached(Exited)
    /\ Abort(1)
    /\ UNCHANGED <<controller, req, run_flag, worker, pc, next, components,
                   failedLoops, signal>>

(* What safeThreadJoin waits for; a worker never spawned has no thread.    *)
ThreadOver(w) == pc[w] \in {"absent", "finished"}

Join ==
    /\ At(Main, "join") /\ next \in Others
    /\ ThreadOver(next)
    /\ Publish(next, Joined)
    /\ next' = next + 1
    /\ UNCHANGED <<controller, req, run_flag, lcontext, destroyed, pc,
                   components, failedLoops, signal, outcome>>

(* The exit observers and the application finalizer.                       *)
Finalizer ==
    /\ At(Main, "join") /\ next \notin Others
    /\ MayRecordFailure
    /\ Goto(Main, "freeze")
    /\ UNCHANGED <<controller, run_flag, worker, next, components,
                   failedLoops, signal, outcome>>

(* applicationShutdownBeginFinalizing: the status is frozen, once.         *)
BeginFinalizing ==
    /\ At(Main, "freeze") /\ Free
    /\ IF phase # PDestroyingWorkers \/ frozen
       THEN /\ Abort(1)
            /\ UNCHANGED <<phase, frozen, pc>>
       ELSE /\ phase' = PFinalizing
            /\ frozen' = TRUE
            /\ status' = exit_code
            /\ Goto(Main, "destroy")
            /\ UNCHANGED ended
    /\ UNCHANGED <<reason, context, exit_code, committed, claimed, holder,
                   reported, fatal, req, run_flag, worker, next, components,
                   failedLoops, signal>>

(* finishGlobalState: the managers and the controller are destroyed.       *)
FinishGlobalState ==
    /\ At(Main, "destroy")
    /\ pending' = FALSE
    /\ stopSeen' = FALSE
    /\ handlers' = FALSE
    /\ ended' = "exit"
    /\ UNCHANGED <<controller, req, run_flag, worker, pc, next, components,
                   failedLoops, status>>

Ended == ~Alive /\ UNCHANGED vars

-----------------------------------------------------------------------------
Startup ==
    \/ SpawnWorker
    \/ SpawnFails
    \/ \E ok \in BOOLEAN : StartSignals(ok) \/ StartupWork(ok)
    \/ StartupCheckpoint
    \/ ArbitrateStartup
    \/ StartupFailed
    \/ RunMainThread
    \/ CommitRuntime
    \/ PublishRunFlag

Coordination ==
    \/ LeaveLoop
    \/ Coordinate
    \/ Claim
    \/ QuiesceComponents
    \/ AskQuiesce
    \/ QuiesceMain
    \/ AllQuiesced
    \/ QuiesceWait
    \/ AskDrain
    \/ DrainMain
    \/ AllDrained
    \/ StopComponents
    \/ AskTeardown
    \/ TeardownMain
    \/ AllExited
    \/ Join
    \/ Finalizer
    \/ BeginFinalizing
    \/ FinishGlobalState

(* requestProgramShutdown and signalmanagerRequestShutdownPreserving-      *)
(* AcceptedStatus, from a tunnel's callback or a device thread.            *)
Requests == {Call(c, IF u THEN "Programmatic" ELSE "SubsystemFailure", u) :
                c \in Codes, u \in BOOLEAN}

ThreadStep(w) ==
    \/ WorkerStart(w)
    \/ WorkerEnter(w)
    \/ \E r \in Requests : CallbackRequest(w, r)
    \/ LoopExit(w)

WorkerStep(w) ==
    \/ WorkerQuiesce(w)
    \/ WorkerDrain(w)
    \/ WorkerTeardown(w)
    \/ WorkerExit(w)

Next ==
    \/ \E t \in Threads : Request(t)
    \/ Startup
    \/ Coordination
    \/ \E w \in Workers : ThreadStep(w)
    \/ \E w \in Others : WorkerStep(w)
    \/ \E w \in Workers : LoopCallback(w)
    \/ \E w \in Workers : LoopFails(w)
    \/ PipeRead
    \/ \E t \in Producers, r \in Requests : ProducerFails(t, r)
    \/ Signal
    \/ PhaseTimeout
    \/ Ended

Spec == Init /\ [][Next]_vars

(* Running threads keep running and callbacks return; nothing has to fail, *)
(* no signal has to arrive and no callback has to ask for a shutdown.  The *)
(* self-pipe is watched at high priority: strong fairness for its read,    *)
(* which other callbacks interrupt.                                        *)
Fairness ==
    /\ \A t \in Threads : WF_vars(Request(t))
    /\ WF_vars(Startup)
    /\ WF_vars(Coordination)
    /\ \A w \in Workers : WF_vars(ThreadStep(w))
    /\ \A w \in Others : WF_vars(WorkerStep(w))
    /\ SF_vars(PipeRead)

FairSpec == Spec /\ Fairness

-----------------------------------------------------------------------------
MainStates ==
    {"spawn", "start", "checkpoint", "arbitrate", "failed", "run", "commit",
     "publish", "leave", "coordinate", "claim", "close", "askQuiesce",
     "waitQuiesced", "quiesceWait", "askDrain", "waitDrained", "stop",
     "askTeardown", "waitExited", "join", "freeze", "destroy"}
LoopStates == {"thread", "boot", "loop", "callback"}
WorkerStates == {"absent", "quiesce", "waitDrain", "waitTeardown", "teardown",
                 "finished"}
ReasonNames == {"none", "Programmatic", "Signal", "WorkerFailure",
                "SubsystemFailure", "StartupFailure"}
ExitCodes == Codes \cup {0, 1, SignalCode}
Calls == [code : ExitCodes, why : ReasonNames, update : BOOLEAN]
Contexts == {"none", "rollback", "process"}

(* The type invariant of the controller, the workers and their threads.    *)
TypeOK ==
    /\ phase \in PRunning .. PFinalizing
    /\ reason \in ReasonNames
    /\ context \in Contexts
    /\ exit_code \in ExitCodes
    /\ committed \in BOOLEAN
    /\ frozen \in BOOLEAN
    /\ claimed \in BOOLEAN
    /\ holder \in Threads \cup {Nobody}
    /\ req \in [Threads -> Calls]
    /\ fatal \in ExitCodes
    /\ run_flag \in BOOLEAN
    /\ lifecycle \in [Workers -> Initialized .. Joined]
    /\ lcontext \in [Workers -> Contexts]
    /\ destroyed \in SUBSET Workers
    /\ pc \in [Threads -> MainStates \cup LoopStates \cup WorkerStates]
    /\ next \in 0 .. NWorkers + 1
    /\ components \in {"off", "running", "asked", "joined", "stopped"}
    /\ failedLoops \in SUBSET Workers
    /\ pending \in BOOLEAN
    /\ stopSeen \in BOOLEAN
    /\ handlers \in BOOLEAN
    /\ reported \in SUBSET ExitCodes
    /\ ended \in {"no", "exit", "abort", "forced"}
    /\ status \in ExitCodes

(* One lifecycle context per shutdown: whoever closed a worker, the        *)
(* coordinator, its own failed loop or the startup rollback, every worker  *)
(* cleans up under the context the controller selected.                    *)
ContextsAgree ==
    /\ \A w, v \in Workers :
          lcontext[w] # "none" /\ lcontext[v] # "none" => lcontext[w] = lcontext[v]
    /\ phase # PRunning =>
          \A w \in Workers : lcontext[w] \in {"none", context}
    /\ run_flag /\ context # "none" => context = "process"

(* The phase barriers: no worker is told to drain before every live worker *)
(* has quiesced and the device threads are gone, the tunnels are stopped   *)
(* only when every worker has drained, and no worker is told to tear down  *)
(* before that stop.                                                       *)
Live == {w \in Workers : w \notin destroyed}
PhaseBarriers ==
    /\ (\E w \in Live : lifecycle[w] >= DrainRequested) =>
          /\ \A w \in Live : lifecycle[w] >= Quiesced
          /\ \A t \in Producers : req[t] = NoRequest
          /\ components \notin {"running", "asked"}
    /\ components = "stopped" => \A w \in Live : lifecycle[w] >= Drained
    /\ (\E w \in Live : lifecycle[w] >= TeardownRequested) =>
          components = "stopped"

(* Nobody is left to touch the controller or a worker's mutex when         *)
(* destroyGlobalState frees them.                                          *)
NobodyLeft ==
    pc[Main] = "destroy" =>
        /\ \A t \in Threads : req[t] = NoRequest
        /\ \A w \in Others : pc[w] \in {"absent", "finished"}
        /\ holder = Nobody

(* Where the coordinator is tells how far the shutdown is: the phase, the  *)
(* lifecycle of worker 0, and what the components have been told.          *)
Starting == {"spawn", "start", "checkpoint", "arbitrate", "failed", "run",
             "commit"}
Coordinating ==
    {"close", "askQuiesce", "waitQuiesced", "quiesceWait", "askDrain",
     "waitDrained", "stop", "askTeardown", "waitExited", "join", "freeze",
     "destroy"}
MainDown == {"waitExited", "join", "freeze", "destroy"}
Stage(m, p, l, c) ==
    pc[Main] = m => phase = p /\ lifecycle[Main] = l /\ components \in c
Stages ==
    /\ pc[Main] \notin Coordinating =>
          /\ phase <= PRequested /\ lifecycle[Main] <= QuiesceRequested
          /\ components \in {"off", "running"}
    /\ pc[Main] = "claim" => phase = PRequested
    /\ Stage("close", PRequested, QuiesceRequested, {"off", "running"})
    /\ Stage("askQuiesce", PClosingAdmissions, QuiesceRequested,
             {"off", "asked"})
    /\ Stage("waitQuiesced", PQuiescingWorkers, Quiesced, {"off", "asked"})
    /\ Stage("quiesceWait", PQuiescingExternalProducers, Quiesced,
             {"off", "asked"})
    /\ Stage("askDrain", PDrainingWorkers,
             IF next = 0 THEN Quiesced ELSE DrainRequested, {"off", "joined"})
    /\ Stage("waitDrained", PDrainingWorkers, Drained, {"off", "joined"})
    /\ Stage("stop", PStoppingComponents, Drained, {"off", "joined"})
    /\ Stage("askTeardown", PDestroyingWorkers,
             IF next = 0 THEN Drained ELSE TeardownRequested, {"stopped"})
    /\ Stage("waitExited", PDestroyingWorkers, Exited, {"stopped"})
    /\ Stage("join", PDestroyingWorkers, Exited, {"stopped"})
    /\ Stage("freeze", PDestroyingWorkers, Exited, {"stopped"})
    /\ Stage("destroy", PFinalizing, Exited, {"stopped"})
    /\ pc[Main] \in {"spawn", "askQuiesce", "join"} => next >= 1

(* Worker 0 has been told to quiesce exactly when a request is published   *)
(* or its caller is about to publish it, and under one context throughout. *)
MainBooks ==
    /\ pc[Main] \in MainStates \cup LoopStates
    /\ committed <=> run_flag \/ pc[Main] = "publish"
    /\ pc[Main] \in Starting \cup {"publish"} => ~run_flag
    /\ pc[Main] \in LoopStates \cup {"leave"} => run_flag
    /\ claimed <=> pc[Main] \in Coordinating
    /\ frozen <=> pc[Main] = "destroy"
    /\ QuiesceAsked(Main) <=> phase # PRunning \/ ~Free
    /\ lcontext[Main] = IF QuiesceAsked(Main) THEN Selected ELSE "none"
    /\ context = IF phase = PRunning THEN "none" ELSE Selected
    /\ ~Free => phase = PRunning /\ req[holder] # NoRequest
    /\ pc[Main] \in {"leave", "coordinate"} /\ req[Main] = NoRequest =>
          QuiesceAsked(Main)
    /\ Main \in destroyed <=> pc[Main] \in MainDown
    /\ pc[Main] = "destroy" => req[Main] = NoRequest

(* A spawned worker's place, its lifecycle and its context agree.          *)
WorkerBooks(w) ==
    /\ pc[w] \in LoopStates \cup WorkerStates
    /\ w \in destroyed <=>
          \/ pc[w] \in {"teardown", "finished"}
          \/ pc[w] = "absent" /\ lifecycle[w] = Joined
    /\ pc[w] = "absent" => lifecycle[w] \in {Initialized, Joined}
    /\ pc[w] \in LoopStates => lifecycle[w] <= QuiesceRequested
    /\ pc[w] = "quiesce" => lifecycle[w] = QuiesceRequested
    /\ pc[w] = "waitDrain" => lifecycle[w] \in {Quiesced, DrainRequested}
    /\ pc[w] = "waitTeardown" => lifecycle[w] \in {Drained, TeardownRequested}
    /\ pc[w] = "teardown" => lifecycle[w] = TeardownRequested
    /\ pc[w] = "finished" => lifecycle[w] \in {Exited, Joined}
    /\ pc[w] \in {"loop", "callback"} => run_flag
    /\ pc[w] # "absent" /\ QuiesceAsked(w) => lcontext[w] # "none"
    /\ lcontext[w] # "none" =>
          lcontext[w] = Selected /\ (run_flag \/ pc[Main] \in Coordinating)
    /\ req[w] # NoRequest => pc[w] \in {"loop", "quiesce"}
    /\ IF pc[Main] = "spawn" THEN pc[w] = "absent" <=> w >= next
                             ELSE pc[w] = "absent" => w \in destroyed
    /\ pc[Main] = "spawn" => w \notin destroyed

(* How far a live worker may be, and has to be, at each stage.             *)
Between(w, m, low, high) ==
    pc[Main] = m /\ w \notin destroyed => lifecycle[w] \in low .. high
BarrierBooks(w) ==
    /\ pc[Main] \notin Coordinating \/ pc[Main] \in {"close", "askQuiesce",
                                                    "waitQuiesced"} =>
          w \in destroyed \/ lifecycle[w] <= Quiesced
    /\ Between(w, "quiesceWait", Quiesced, Quiesced)
    /\ Between(w, "askDrain", IF w < next THEN DrainRequested ELSE Quiesced,
                              IF w < next THEN Drained ELSE Quiesced)
    /\ Between(w, "waitDrained", DrainRequested, Drained)
    /\ Between(w, "stop", Drained, Drained)
    /\ Between(w, "askTeardown",
               IF w < next THEN TeardownRequested ELSE Drained,
               IF w < next THEN TeardownRequested ELSE Drained)
    /\ Between(w, "waitExited", TeardownRequested, TeardownRequested)
    /\ pc[Main] \in {"join", "freeze", "destroy"} => w \in destroyed
    /\ pc[Main] \in {"freeze", "destroy"} \/ (pc[Main] = "join" /\ w < next) =>
          ThreadOver(w)

(* A device thread asks only before it is joined.                          *)
ProducerBooks(t) == req[t] # NoRequest => components \in {"running", "asked"}

(* The code that is kept is one that was reported.                         *)
StatusBooks ==
    /\ fatal = exit_code
    /\ IF exit_code = 0 THEN reported \subseteq {0} ELSE exit_code \in reported
    /\ pc[Main] = "destroy" /\ ended \in {"no", "exit"} => status = exit_code
    /\ ended = "exit" => pc[Main] = "destroy"

(* What ties the threads together.  It is stronger than what a reader asks *)
(* of the shutdown, and every step preserves it.                           *)
ThreadsAgree ==
    /\ Stages /\ MainBooks /\ StatusBooks
    /\ \A w \in Others : WorkerBooks(w) /\ BarrierBooks(w)
    /\ \A t \in Producers : ProducerBooks(t)

(* The order of a shutdown, seen across all threads: one context, the      *)
(* barriers between its phases, and nobody left at its end.                *)
ShutdownInv ==
    TypeOK /\ ContextsAgree /\ PhaseBarriers /\ NobodyLeft /\ ThreadsAgree

(* The coordinator's own fallback never fires: a worker failure is only    *)
(* reported (and turns an orderly exit into a failure) when a worker's     *)
(* loop really failed, however the main thread's exit races with the       *)
(* request that caused it.                                                 *)
BlameIsReal ==
    /\ (\E t \in Threads : req[t].why = "WorkerFailure") => failedLoops # {}
    /\ reason = "WorkerFailure" => failedLoops # {}
    /\ claimed => context # "none"

(* An orderly exit returns a failure somebody reported, and success only   *)
(* if nobody reported one before the freeze; an abort takes the same       *)
(* status through fatal_exit_status.                                       *)
ExitStatusHonest ==
    /\ fatal = exit_code
    /\ ended = "exit" => IF reported \ {0} = {} THEN status = 0
                                                ELSE status \in reported \ {0}
    /\ ended = "abort" => status # 0

(* The internal aborts are unreachable: only an expired phase wait ends    *)
(* the process without the orderly exit.                                   *)
NoInternalAbort ==
    ended = "abort" => pc[Main] \in {"waitQuiesced", "waitDrained", "waitExited"}

(* What the process reports of its end is what happened to it: the reason, *)
(* the exit status and the way out.                                        *)
OutcomeHonest == BlameIsReal /\ ExitStatusHonest /\ NoInternalAbort

(* A requested shutdown, whichever thread asked for it and in whatever     *)
(* state the others are, ends the process, and so do a signal, a failed    *)
(* loop and a failed startup.                                              *)
ShutdownCompletes ==
    (phase = PRequested \/ pending \/ failedLoops # {} \/ destroyed # {})
        ~> ended # "no"
=============================================================================
