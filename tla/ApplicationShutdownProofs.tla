---------------------- MODULE ApplicationShutdownProofs ---------------------
(***************************************************************************)
(* Proofs about ApplicationShutdown, for any number of workers, any device *)
(* threads and any exit codes: the order of a shutdown (ShutdownInv) and   *)
(* what the process reports of its end (OutcomeHonest).                    *)
(*                                                                         *)
(* The inductive invariant is ShutdownBooks.  Each of the lemmas TypeKept  *)
(* to ProducerKept takes one of its parts through all actions.             *)
(***************************************************************************)
EXTENDS ApplicationShutdown, TLAPS

(* Phases and lifecycles are numbers to the provers.                       *)
USE DEF PRunning, PRequested, PClosingAdmissions, PQuiescingWorkers,
        PQuiescingExternalProducers, PDrainingWorkers, PStoppingComponents,
        PDestroyingWorkers, PFinalizing,
        Initialized, Running, QuiesceRequested, Quiesced, DrainRequested,
        Drained, TeardownRequested, Exited, Joined, Main, Nobody

(* Who is who: the main thread is worker 0, and device threads are no      *)
(* workers.                                                                *)
LEMMA Cast ==
    /\ Main \in Workers /\ Main \in Threads /\ Main \notin Others
    /\ \A w \in Others :
          w \in Workers /\ w \in Threads /\ w # Main /\ w \in Int
    /\ \A w \in Workers : w \in Threads /\ (w = Main \/ w \in Others)
    /\ \A t \in Producers : t \in Threads /\ t \notin Workers
    /\ Nobody \notin Threads
    /\ \A t \in Threads : t = Main \/ t \in Others \/ t \in Producers
  BY ShutdownAssumption, SMT DEF Workers, Others, Threads

(* Every call is of the type of calls, and not the absence of one.         *)
LEMMA CallTypes ==
    /\ NoRequest \in Calls /\ NoRequest.why # "WorkerFailure"
    /\ \A r \in {SignalRequest, StartupFailure, SubsystemFailure}
                   \cup Requests :
          r \in Calls /\ r # NoRequest /\ r.why # "WorkerFailure"
    /\ WorkerFailure \in Calls /\ WorkerFailure # NoRequest
    /\ \A r \in Calls : r.code \in ExitCodes /\ r.why \in ReasonNames
    /\ 0 \in ExitCodes /\ 1 \in ExitCodes /\ SignalCode \in ExitCodes
  <1> USE DEF NoRequest, Call
  <1>1. 0 \in ExitCodes /\ 1 \in ExitCodes /\ SignalCode \in ExitCodes
    BY DEF ExitCodes
  <1>2. NoRequest \in Calls /\ NoRequest.why # "WorkerFailure"
    BY <1>1 DEF Calls, ReasonNames
  <1>3. /\ SignalRequest \in Calls /\ SignalRequest # NoRequest
        /\ SignalRequest.why # "WorkerFailure"
    BY <1>1 DEF Calls, ReasonNames, SignalRequest
  <1>4. /\ StartupFailure \in Calls /\ StartupFailure # NoRequest
        /\ StartupFailure.why # "WorkerFailure"
    BY <1>1 DEF Calls, ReasonNames, StartupFailure
  <1>5. /\ SubsystemFailure \in Calls /\ SubsystemFailure # NoRequest
        /\ SubsystemFailure.why # "WorkerFailure"
    BY <1>1 DEF Calls, ReasonNames, SubsystemFailure
  <1>6. WorkerFailure \in Calls /\ WorkerFailure # NoRequest
    BY <1>1 DEF Calls, ReasonNames, WorkerFailure
  <1>7. ASSUME NEW r \in Requests
        PROVE  r \in Calls /\ r # NoRequest /\ r.why # "WorkerFailure"
    <2>1. PICK c \in Codes, u \in BOOLEAN :
             r = Call(c, IF u THEN "Programmatic" ELSE "SubsystemFailure", u)
      BY <1>7 DEF Requests
    <2>2. c \in ExitCodes
      BY DEF ExitCodes
    <2> QED
      BY <2>1, <2>2 DEF Calls, ReasonNames
  <1>8. ASSUME NEW r \in Calls
        PROVE  r.code \in ExitCodes /\ r.why \in ReasonNames
    BY <1>8 DEF Calls
  <1> QED
    BY <1>1, <1>2, <1>3, <1>4, <1>5, <1>6, <1>7, <1>8

-----------------------------------------------------------------------------
(* The part of OutcomeHonest that concerns blame and aborts, per thread.   *)
Waits == {"waitQuiesced", "waitDrained", "waitExited"}
BlameBooks ==
    /\ \A t \in Threads : req[t].why = "WorkerFailure" => failedLoops # {}
    /\ reason = "WorkerFailure" => failedLoops # {}
    /\ ended = "abort" => Timeouts /\ status # 0 /\ pc[Main] \in Waits

(* The inductive invariant.                                                *)
ShutdownBooks == TypeOK /\ ThreadsAgree /\ BlameBooks

(* Types.                                                                  *)
LEMMA TypeKept ==
    ASSUME ShutdownBooks, [Next]_vars
    PROVE  TypeOK'
  <1> USE Cast, CallTypes, ShutdownAssumption
      DEF ShutdownBooks, ThreadsAgree, At, Alive, Free, Goto, QuiesceAsked,
          Selected, controller, worker, signal, outcome, TypeOK, Contexts,
          MainStates, LoopStates, WorkerStates
  <1>1. ASSUME NEW t \in Threads, RequestAlreadyAccepted(t) PROVE TypeOK'
    <2>1. req' \in [Threads -> Calls]
      BY <1>1 DEF RequestAlreadyAccepted
    <2>2. exit_code' \in ExitCodes
      BY <1>1 DEF RequestAlreadyAccepted, Arbitrate
    <2>3. fatal' \in ExitCodes
      BY <1>1 DEF RequestAlreadyAccepted, Arbitrate
    <2>4. reason' \in ReasonNames
      BY <1>1 DEF RequestAlreadyAccepted, Arbitrate
    <2>5. reported' \in SUBSET ExitCodes
      <3>1. req[t].code \in ExitCodes
        OBVIOUS
      <3>2. reported' = reported \/ reported' = reported \cup {req[t].code}
        BY <1>1 DEF RequestAlreadyAccepted, Arbitrate
      <3> QED
        BY <3>1, <3>2
    <2> QED
      BY <1>1, <2>1, <2>2, <2>3, <2>4, <2>5 DEF RequestAlreadyAccepted
  <1>2. ASSUME NEW t \in Threads, RequestInstall(t) PROVE TypeOK'
    BY <1>2
       DEF RequestInstall, QuiesceUnavailable, InstallQuiesce, Publish, Abort
  <1>3. ASSUME NEW t \in Threads, RequestPublish(t) PROVE TypeOK'
    <2>1. req' \in [Threads -> Calls]
      BY <1>3 DEF RequestPublish
    <2>2. exit_code' \in ExitCodes
      BY <1>3 DEF RequestPublish, Arbitrate
    <2>3. fatal' \in ExitCodes
      BY <1>3 DEF RequestPublish, Arbitrate
    <2>4. reason' \in ReasonNames
      BY <1>3 DEF RequestPublish, Arbitrate
    <2>5. reported' \in SUBSET ExitCodes
      BY <1>3 DEF RequestPublish, Arbitrate
    <2> QED
      BY <1>3, <2>1, <2>2, <2>3, <2>4, <2>5 DEF RequestPublish
  <1>4. CASE SpawnWorker
    BY <1>4 DEF SpawnWorker, Others
  <1>5. CASE SpawnFails
    <2>1. lifecycle' \in [Workers -> Initialized .. Joined]
      BY <1>5 DEF SpawnFails
    <2>2. destroyed' \in SUBSET Workers
      BY <1>5 DEF SpawnFails
    <2> QED
      BY <1>5, <2>1, <2>2 DEF SpawnFails
  <1>6. ASSUME NEW ok \in BOOLEAN, StartSignals(ok) PROVE TypeOK'
    BY <1>6 DEF StartSignals
  <1>7. ASSUME NEW ok \in BOOLEAN, StartupWork(ok) PROVE TypeOK'
    <2>1. req' \in [Threads -> Calls]
      BY <1>7 DEF StartupWork, Consume
    <2>2. pending' \in BOOLEAN /\ stopSeen' \in BOOLEAN
          /\ handlers' \in BOOLEAN
      BY <1>7, ZenonT(30) DEF StartupWork, Consume
    <2> QED
      BY <1>7, <2>1, <2>2 DEF StartupWork
  <1>8. CASE StartupCheckpoint
    BY <1>8 DEF StartupCheckpoint
  <1>9. CASE ArbitrateStartup
    <2>1. req' \in [Threads -> Calls]
      BY <1>9 DEF ArbitrateStartup, Consume
    <2>2. pending' \in BOOLEAN /\ stopSeen' \in BOOLEAN
          /\ handlers' \in BOOLEAN
      BY <1>9, ZenonT(30) DEF ArbitrateStartup, Consume
    <2> QED
      BY <1>9, <2>1, <2>2, ZenonT(30) DEF ArbitrateStartup
  <1>10. CASE StartupFailed
    BY <1>10 DEF StartupFailed
  <1>11. CASE RunMainThread
    <2>1. req' \in [Threads -> Calls]
      BY <1>11 DEF RunMainThread, Consume
    <2>2. pending' \in BOOLEAN /\ stopSeen' \in BOOLEAN
          /\ handlers' \in BOOLEAN
      BY <1>11, ZenonT(30) DEF RunMainThread, Consume
    <2> QED
      BY <1>11, <2>1, <2>2, ZenonT(30) DEF RunMainThread
  <1>12. CASE CommitRuntime
    BY <1>12 DEF CommitRuntime
  <1>13. CASE PublishRunFlag
    BY <1>13 DEF PublishRunFlag
  <1>14. CASE LeaveLoop
    <2>1. req' \in [Threads -> Calls]
      BY <1>14 DEF LeaveLoop, Consume
    <2>2. pending' \in BOOLEAN /\ stopSeen' \in BOOLEAN
          /\ handlers' \in BOOLEAN
      BY <1>14, ZenonT(30) DEF LeaveLoop, Consume
    <2> QED
      BY <1>14, <2>1, <2>2, ZenonT(30) DEF LeaveLoop
  <1>15. CASE Coordinate
    BY <1>15 DEF Coordinate, PhaseReadable
  <1>16. CASE Claim
    BY <1>16 DEF Claim, Abort
  <1>17. CASE QuiesceComponents
    BY <1>17 DEF QuiesceComponents, AdvancePhase, Abort, MayRecordFailure
  <1>18. CASE AskQuiesce
    BY <1>18
       DEF AskQuiesce, RequestQuiesce, QuiesceUnavailable, InstallQuiesce,
          Publish, Others
  <1>19. CASE QuiesceMain
    BY <1>19 DEF QuiesceMain, AdvancePhase, Publish
  <1>20. CASE AllQuiesced
    BY <1>20 DEF AllQuiesced, AdvancePhase, Reached
  <1>21. CASE QuiesceWait
    BY <1>21 DEF QuiesceWait, AdvancePhase, ProducersDone, MayRecordFailure
  <1>22. CASE AskDrain
    <2>1. lifecycle' \in [Workers -> Initialized .. Joined]
      BY <1>22 DEF AskDrain, AskPhase, Publish
    <2>2. next' \in 0 .. NWorkers + 1
      BY <1>22 DEF AskDrain, AskPhase, Workers
    <2>3. ended' \in {"no", "exit", "abort", "forced"} /\ status' \in ExitCodes
      BY <1>22 DEF AskDrain, AskPhase, Abort
    <2> QED
      BY <1>22, <2>1, <2>2, <2>3 DEF AskDrain, AskPhase
  <1>23. CASE DrainMain
    BY <1>23 DEF DrainMain, Publish
  <1>24. CASE AllDrained
    BY <1>24 DEF AllDrained, AdvancePhase, Reached
  <1>25. CASE StopComponents
    BY <1>25 DEF StopComponents, AdvancePhase, MayRecordFailure
  <1>26. CASE AskTeardown
    <2>1. lifecycle' \in [Workers -> Initialized .. Joined]
      BY <1>26 DEF AskTeardown, AskPhase, Publish
    <2>2. next' \in 0 .. NWorkers + 1
      BY <1>26 DEF AskTeardown, AskPhase, Workers
    <2>3. ended' \in {"no", "exit", "abort", "forced"} /\ status' \in ExitCodes
      BY <1>26 DEF AskTeardown, AskPhase, Abort
    <2> QED
      BY <1>26, <2>1, <2>2, <2>3 DEF AskTeardown, AskPhase
  <1>27. CASE TeardownMain
    BY <1>27 DEF TeardownMain, Publish
  <1>28. CASE AllExited
    BY <1>28 DEF AllExited, Reached
  <1>29. CASE Join
    BY <1>29 DEF Join, Publish, ThreadOver, Others
  <1>30. CASE Finalizer
    BY <1>30 DEF Finalizer, MayRecordFailure
  <1>31. CASE BeginFinalizing
    <2>1. CASE (phase # PDestroyingWorkers \/ frozen)
      BY <1>31, <2>1 DEF BeginFinalizing, Abort
    <2>2. CASE ~(phase # PDestroyingWorkers \/ frozen)
      BY <1>31, <2>2 DEF BeginFinalizing, Abort
    <2> QED
      BY <2>1, <2>2
  <1>32. CASE FinishGlobalState
    BY <1>32, ZenonT(30) DEF FinishGlobalState
  <1>33. ASSUME NEW w \in Workers, WorkerStart(w) PROVE TypeOK'
    BY <1>33 DEF WorkerStart, Publish
  <1>34. ASSUME NEW w \in Workers, WorkerEnter(w) PROVE TypeOK'
    BY <1>34 DEF WorkerEnter, AfterLoop
  <1>35. ASSUME NEW w \in Workers, NEW r \in Requests, CallbackRequest(w, r)
        PROVE  TypeOK'
    BY <1>35 DEF CallbackRequest
  <1>36. ASSUME NEW w \in Workers, LoopExit(w) PROVE TypeOK'
    BY <1>36 DEF LoopExit, AfterLoop
  <1>37. ASSUME NEW w \in Others, WorkerQuiesce(w) PROVE TypeOK'
    BY <1>37 DEF WorkerQuiesce, Publish
  <1>38. ASSUME NEW w \in Others, WorkerDrain(w) PROVE TypeOK'
    BY <1>38 DEF WorkerDrain, Publish
  <1>39. ASSUME NEW w \in Others, WorkerTeardown(w) PROVE TypeOK'
    BY <1>39 DEF WorkerTeardown
  <1>40. ASSUME NEW w \in Others, WorkerExit(w) PROVE TypeOK'
    BY <1>40 DEF WorkerExit, Publish
  <1>41. ASSUME NEW w \in Workers, LoopCallback(w) PROVE TypeOK'
    BY <1>41 DEF LoopCallback
  <1>42. ASSUME NEW w \in Workers, LoopFails(w) PROVE TypeOK'
    BY <1>42
       DEF LoopFails, AfterLoop, RequestQuiesce, QuiesceUnavailable,
          InstallQuiesce, Publish
  <1>43. CASE PipeRead
    <2>1. req' \in [Threads -> Calls]
      BY <1>43 DEF PipeRead, Consume
    <2>2. pending' \in BOOLEAN /\ stopSeen' \in BOOLEAN
          /\ handlers' \in BOOLEAN
      BY <1>43 DEF PipeRead, Consume
    <2> QED
      BY <1>43, <2>1, <2>2 DEF PipeRead
  <1>44. ASSUME NEW t \in Producers, NEW r \in Requests, ProducerFails(t, r)
        PROVE  TypeOK'
    BY <1>44 DEF ProducerFails
  <1>45. CASE Signal
    <2>1. CASE stopSeen
      BY <1>45, <2>1 DEF Signal
    <2>2. CASE ~stopSeen
      BY <1>45, <2>2 DEF Signal
    <2> QED
      BY <2>1, <2>2
  <1>46. CASE PhaseTimeout
    BY <1>46 DEF PhaseTimeout, Abort
  <1>47. CASE UNCHANGED vars
    BY <1>47 DEF vars
  <1> QED
    BY <1>1, <1>2, <1>3, <1>4, <1>5, <1>6, <1>7, <1>8, <1>9, <1>10, <1>11,
       <1>12, <1>13, <1>14, <1>15, <1>16, <1>17, <1>18, <1>19, <1>20, <1>21,
       <1>22, <1>23, <1>24, <1>25, <1>26, <1>27, <1>28, <1>29, <1>30, <1>31,
       <1>32, <1>33, <1>34, <1>35, <1>36, <1>37, <1>38, <1>39, <1>40, <1>41,
       <1>42, <1>43, <1>44, <1>45, <1>46, <1>47
       DEF Next, Startup, Coordination, Request, ThreadStep, WorkerStep, Ended

(* The coordinator's stages.                                               *)
LEMMA StagesKept ==
    ASSUME ShutdownBooks, [Next]_vars
    PROVE  Stages'
  <1> USE Cast, CallTypes, ShutdownAssumption
      DEF ShutdownBooks, ThreadsAgree, At, Alive, Free, Goto, QuiesceAsked,
          Selected, controller, worker, signal, outcome, TypeOK, Stages,
          Stage, MainBooks, MainDown, Coordinating
  <1>1. ASSUME NEW t \in Threads, RequestAlreadyAccepted(t) PROVE Stages'
    BY <1>1 DEF RequestAlreadyAccepted, Arbitrate
  <1>2. ASSUME NEW t \in Threads, RequestInstall(t) PROVE Stages'
    BY <1>2
       DEF RequestInstall, QuiesceUnavailable, InstallQuiesce, Publish, Abort
  <1>3. ASSUME NEW t \in Threads, RequestPublish(t) PROVE Stages'
    BY <1>3 DEF RequestPublish, Arbitrate
  <1>4. CASE SpawnWorker
    BY <1>4 DEF SpawnWorker
  <1>5. CASE SpawnFails
    BY <1>5 DEF SpawnFails
  <1>6. ASSUME NEW ok \in BOOLEAN, StartSignals(ok) PROVE Stages'
    BY <1>6 DEF StartSignals
  <1>7. ASSUME NEW ok \in BOOLEAN, StartupWork(ok) PROVE Stages'
    BY <1>7 DEF StartupWork, Consume
  <1>8. CASE StartupCheckpoint
    BY <1>8 DEF StartupCheckpoint
  <1>9. CASE ArbitrateStartup
    BY <1>9 DEF ArbitrateStartup, Consume
  <1>10. CASE StartupFailed
    BY <1>10 DEF StartupFailed
  <1>11. CASE RunMainThread
    BY <1>11 DEF RunMainThread, Consume
  <1>12. CASE CommitRuntime
    BY <1>12 DEF CommitRuntime
  <1>13. CASE PublishRunFlag
    BY <1>13 DEF PublishRunFlag
  <1>14. CASE LeaveLoop
    BY <1>14 DEF LeaveLoop, Consume
  <1>15. CASE Coordinate
    BY <1>15 DEF Coordinate, PhaseReadable
  <1>16. CASE Claim
    BY <1>16 DEF Claim, Abort
  <1>17. CASE QuiesceComponents
    BY <1>17 DEF QuiesceComponents, AdvancePhase, Abort, MayRecordFailure
  <1>18. CASE AskQuiesce
    BY <1>18
       DEF AskQuiesce, RequestQuiesce, QuiesceUnavailable, InstallQuiesce,
          Publish
  <1>19. CASE QuiesceMain
    BY <1>19 DEF QuiesceMain, AdvancePhase, Publish
  <1>20. CASE AllQuiesced
    BY <1>20 DEF AllQuiesced, AdvancePhase, Reached
  <1>21. CASE QuiesceWait
    BY <1>21 DEF QuiesceWait, AdvancePhase, ProducersDone, MayRecordFailure
  <1>22. CASE AskDrain
    BY <1>22, SMTT(30) DEF AskDrain, AskPhase, Publish, Abort, Workers
  <1>23. CASE DrainMain
    BY <1>23 DEF DrainMain, Publish
  <1>24. CASE AllDrained
    BY <1>24 DEF AllDrained, AdvancePhase, Reached
  <1>25. CASE StopComponents
    BY <1>25 DEF StopComponents, AdvancePhase, MayRecordFailure
  <1>26. CASE AskTeardown
    BY <1>26, SMTT(30) DEF AskTeardown, AskPhase, Publish, Abort, Workers
  <1>27. CASE TeardownMain
    BY <1>27 DEF TeardownMain, Publish
  <1>28. CASE AllExited
    BY <1>28 DEF AllExited, Reached
  <1>29. CASE Join
    BY <1>29 DEF Join, Publish, ThreadOver
  <1>30. CASE Finalizer
    BY <1>30 DEF Finalizer, MayRecordFailure
  <1>31. CASE BeginFinalizing
    BY <1>31 DEF BeginFinalizing, Abort
  <1>32. CASE FinishGlobalState
    BY <1>32 DEF FinishGlobalState
  <1>33. ASSUME NEW w \in Workers, WorkerStart(w) PROVE Stages'
    BY <1>33 DEF WorkerStart, Publish
  <1>34. ASSUME NEW w \in Workers, WorkerEnter(w) PROVE Stages'
    BY <1>34 DEF WorkerEnter, AfterLoop
  <1>35. ASSUME NEW w \in Workers, NEW r \in Requests, CallbackRequest(w, r)
        PROVE  Stages'
    BY <1>35 DEF CallbackRequest
  <1>36. ASSUME NEW w \in Workers, LoopExit(w) PROVE Stages'
    BY <1>36 DEF LoopExit, AfterLoop
  <1>37. ASSUME NEW w \in Others, WorkerQuiesce(w) PROVE Stages'
    BY <1>37 DEF WorkerQuiesce, Publish
  <1>38. ASSUME NEW w \in Others, WorkerDrain(w) PROVE Stages'
    BY <1>38 DEF WorkerDrain, Publish
  <1>39. ASSUME NEW w \in Others, WorkerTeardown(w) PROVE Stages'
    BY <1>39 DEF WorkerTeardown
  <1>40. ASSUME NEW w \in Others, WorkerExit(w) PROVE Stages'
    BY <1>40 DEF WorkerExit, Publish
  <1>41. ASSUME NEW w \in Workers, LoopCallback(w) PROVE Stages'
    BY <1>41 DEF LoopCallback
  <1>42. ASSUME NEW w \in Workers, LoopFails(w) PROVE Stages'
    BY <1>42
       DEF LoopFails, AfterLoop, RequestQuiesce, QuiesceUnavailable,
          InstallQuiesce, Publish
  <1>43. CASE PipeRead
    BY <1>43 DEF PipeRead, Consume
  <1>44. ASSUME NEW t \in Producers, NEW r \in Requests, ProducerFails(t, r)
        PROVE  Stages'
    BY <1>44 DEF ProducerFails
  <1>45. CASE Signal
    BY <1>45 DEF Signal
  <1>46. CASE PhaseTimeout
    BY <1>46 DEF PhaseTimeout, Abort
  <1>47. CASE UNCHANGED vars
    BY <1>47 DEF vars
  <1> QED
    BY <1>1, <1>2, <1>3, <1>4, <1>5, <1>6, <1>7, <1>8, <1>9, <1>10, <1>11,
       <1>12, <1>13, <1>14, <1>15, <1>16, <1>17, <1>18, <1>19, <1>20, <1>21,
       <1>22, <1>23, <1>24, <1>25, <1>26, <1>27, <1>28, <1>29, <1>30, <1>31,
       <1>32, <1>33, <1>34, <1>35, <1>36, <1>37, <1>38, <1>39, <1>40, <1>41,
       <1>42, <1>43, <1>44, <1>45, <1>46, <1>47
       DEF Next, Startup, Coordination, Request, ThreadStep, WorkerStep, Ended

(* Worker 0, the controller and the request under way.                     *)
LEMMA MainKept ==
    ASSUME ShutdownBooks, [Next]_vars
    PROVE  MainBooks'
  <1> USE Cast, CallTypes, ShutdownAssumption
      DEF ShutdownBooks, ThreadsAgree, At, Alive, Free, Goto, QuiesceAsked,
          Selected, controller, worker, signal, outcome, TypeOK, Stages,
          Stage, MainBooks, Coordinating, Starting, MainStates, LoopStates,
          MainDown
  <1>1. ASSUME NEW t \in Threads, RequestAlreadyAccepted(t) PROVE MainBooks'
    BY <1>1 DEF RequestAlreadyAccepted, Arbitrate
  <1>2. ASSUME NEW t \in Threads, RequestInstall(t) PROVE MainBooks'
    BY <1>2
       DEF RequestInstall, QuiesceUnavailable, InstallQuiesce, Publish, Abort
  <1>3. ASSUME NEW t \in Threads, RequestPublish(t) PROVE MainBooks'
    BY <1>3 DEF RequestPublish, Arbitrate
  <1>4. CASE SpawnWorker
    BY <1>4 DEF SpawnWorker
  <1>5. CASE SpawnFails
    BY <1>5 DEF SpawnFails
  <1>6. ASSUME NEW ok \in BOOLEAN, StartSignals(ok) PROVE MainBooks'
    BY <1>6 DEF StartSignals
  <1>7. ASSUME NEW ok \in BOOLEAN, StartupWork(ok) PROVE MainBooks'
    BY <1>7 DEF StartupWork, Consume
  <1>8. CASE StartupCheckpoint
    BY <1>8 DEF StartupCheckpoint
  <1>9. CASE ArbitrateStartup
    BY <1>9 DEF ArbitrateStartup, Consume
  <1>10. CASE StartupFailed
    BY <1>10 DEF StartupFailed
  <1>11. CASE RunMainThread
    BY <1>11 DEF RunMainThread, Consume
  <1>12. CASE CommitRuntime
    BY <1>12, ZenonT(30) DEF CommitRuntime
  <1>13. CASE PublishRunFlag
    BY <1>13 DEF PublishRunFlag
  <1>14. CASE LeaveLoop
    BY <1>14 DEF LeaveLoop, Consume
  <1>15. CASE Coordinate
    BY <1>15 DEF Coordinate, PhaseReadable
  <1>16. CASE Claim
    BY <1>16 DEF Claim, Abort
  <1>17. CASE QuiesceComponents
    BY <1>17 DEF QuiesceComponents, AdvancePhase, Abort, MayRecordFailure
  <1>18. CASE AskQuiesce
    BY <1>18
       DEF AskQuiesce, RequestQuiesce, QuiesceUnavailable, InstallQuiesce,
          Publish
  <1>19. CASE QuiesceMain
    BY <1>19 DEF QuiesceMain, AdvancePhase, Publish
  <1>20. CASE AllQuiesced
    BY <1>20 DEF AllQuiesced, AdvancePhase, Reached
  <1>21. CASE QuiesceWait
    BY <1>21 DEF QuiesceWait, AdvancePhase, ProducersDone, MayRecordFailure
  <1>22. CASE AskDrain
    BY <1>22 DEF AskDrain, AskPhase, Publish, Abort
  <1>23. CASE DrainMain
    BY <1>23 DEF DrainMain, Publish
  <1>24. CASE AllDrained
    BY <1>24 DEF AllDrained, AdvancePhase, Reached
  <1>25. CASE StopComponents
    BY <1>25 DEF StopComponents, AdvancePhase, MayRecordFailure
  <1>26. CASE AskTeardown
    BY <1>26 DEF AskTeardown, AskPhase, Publish, Abort
  <1>27. CASE TeardownMain
    BY <1>27 DEF TeardownMain, Publish
  <1>28. CASE AllExited
    BY <1>28 DEF AllExited, Reached
  <1>29. CASE Join
    BY <1>29 DEF Join, Publish, ThreadOver
  <1>30. CASE Finalizer
    BY <1>30 DEF Finalizer, MayRecordFailure
  <1>31. CASE BeginFinalizing
    BY <1>31 DEF BeginFinalizing, Abort
  <1>32. CASE FinishGlobalState
    BY <1>32 DEF FinishGlobalState
  <1>33. ASSUME NEW w \in Workers, WorkerStart(w) PROVE MainBooks'
    BY <1>33 DEF WorkerStart, Publish
  <1>34. ASSUME NEW w \in Workers, WorkerEnter(w) PROVE MainBooks'
    BY <1>34 DEF WorkerEnter, AfterLoop
  <1>35. ASSUME NEW w \in Workers, NEW r \in Requests, CallbackRequest(w, r)
        PROVE  MainBooks'
    BY <1>35 DEF CallbackRequest
  <1>36. ASSUME NEW w \in Workers, LoopExit(w) PROVE MainBooks'
    BY <1>36 DEF LoopExit, AfterLoop
  <1>37. ASSUME NEW w \in Others, WorkerQuiesce(w) PROVE MainBooks'
    BY <1>37 DEF WorkerQuiesce, Publish
  <1>38. ASSUME NEW w \in Others, WorkerDrain(w) PROVE MainBooks'
    BY <1>38 DEF WorkerDrain, Publish
  <1>39. ASSUME NEW w \in Others, WorkerTeardown(w) PROVE MainBooks'
    BY <1>39 DEF WorkerTeardown
  <1>40. ASSUME NEW w \in Others, WorkerExit(w) PROVE MainBooks'
    BY <1>40 DEF WorkerExit, Publish
  <1>41. ASSUME NEW w \in Workers, LoopCallback(w) PROVE MainBooks'
    BY <1>41 DEF LoopCallback
  <1>42. ASSUME NEW w \in Workers, LoopFails(w) PROVE MainBooks'
    BY <1>42
       DEF LoopFails, AfterLoop, RequestQuiesce, QuiesceUnavailable,
          InstallQuiesce, Publish
  <1>43. CASE PipeRead
    BY <1>43 DEF PipeRead, Consume
  <1>44. ASSUME NEW t \in Producers, NEW r \in Requests, ProducerFails(t, r)
        PROVE  MainBooks'
    BY <1>44 DEF ProducerFails
  <1>45. CASE Signal
    BY <1>45 DEF Signal
  <1>46. CASE PhaseTimeout
    BY <1>46 DEF PhaseTimeout, Abort
  <1>47. CASE UNCHANGED vars
    BY <1>47 DEF vars
  <1> QED
    BY <1>1, <1>2, <1>3, <1>4, <1>5, <1>6, <1>7, <1>8, <1>9, <1>10, <1>11,
       <1>12, <1>13, <1>14, <1>15, <1>16, <1>17, <1>18, <1>19, <1>20, <1>21,
       <1>22, <1>23, <1>24, <1>25, <1>26, <1>27, <1>28, <1>29, <1>30, <1>31,
       <1>32, <1>33, <1>34, <1>35, <1>36, <1>37, <1>38, <1>39, <1>40, <1>41,
       <1>42, <1>43, <1>44, <1>45, <1>46, <1>47
       DEF Next, Startup, Coordination, Request, ThreadStep, WorkerStep, Ended

(* The exit code and its report.                                           *)
LEMMA StatusKept ==
    ASSUME ShutdownBooks, [Next]_vars
    PROVE  StatusBooks'
  <1> USE Cast, CallTypes, ShutdownAssumption
      DEF ShutdownBooks, ThreadsAgree, At, Alive, Free, Goto, QuiesceAsked,
          Selected, controller, worker, signal, outcome, TypeOK, StatusBooks,
          MainBooks
  <1>1. ASSUME NEW t \in Threads, RequestAlreadyAccepted(t) PROVE StatusBooks'
    BY <1>1 DEF RequestAlreadyAccepted, Arbitrate
  <1>2. ASSUME NEW t \in Threads, RequestInstall(t) PROVE StatusBooks'
    BY <1>2
       DEF RequestInstall, QuiesceUnavailable, InstallQuiesce, Publish, Abort
  <1>3. ASSUME NEW t \in Threads, RequestPublish(t) PROVE StatusBooks'
    BY <1>3 DEF RequestPublish, Arbitrate
  <1>4. CASE SpawnWorker
    BY <1>4 DEF SpawnWorker
  <1>5. CASE SpawnFails
    BY <1>5 DEF SpawnFails
  <1>6. ASSUME NEW ok \in BOOLEAN, StartSignals(ok) PROVE StatusBooks'
    BY <1>6 DEF StartSignals
  <1>7. ASSUME NEW ok \in BOOLEAN, StartupWork(ok) PROVE StatusBooks'
    BY <1>7 DEF StartupWork, Consume
  <1>8. CASE StartupCheckpoint
    BY <1>8 DEF StartupCheckpoint
  <1>9. CASE ArbitrateStartup
    BY <1>9 DEF ArbitrateStartup, Consume
  <1>10. CASE StartupFailed
    BY <1>10 DEF StartupFailed
  <1>11. CASE RunMainThread
    BY <1>11 DEF RunMainThread, Consume
  <1>12. CASE CommitRuntime
    BY <1>12 DEF CommitRuntime
  <1>13. CASE PublishRunFlag
    BY <1>13 DEF PublishRunFlag
  <1>14. CASE LeaveLoop
    BY <1>14 DEF LeaveLoop, Consume
  <1>15. CASE Coordinate
    BY <1>15 DEF Coordinate, PhaseReadable
  <1>16. CASE Claim
    BY <1>16 DEF Claim, Abort
  <1>17. CASE QuiesceComponents
    BY <1>17 DEF QuiesceComponents, AdvancePhase, Abort, MayRecordFailure
  <1>18. CASE AskQuiesce
    BY <1>18
       DEF AskQuiesce, RequestQuiesce, QuiesceUnavailable, InstallQuiesce,
          Publish
  <1>19. CASE QuiesceMain
    BY <1>19 DEF QuiesceMain, AdvancePhase, Publish
  <1>20. CASE AllQuiesced
    BY <1>20 DEF AllQuiesced, AdvancePhase, Reached
  <1>21. CASE QuiesceWait
    BY <1>21 DEF QuiesceWait, AdvancePhase, ProducersDone, MayRecordFailure
  <1>22. CASE AskDrain
    BY <1>22 DEF AskDrain, AskPhase, Publish, Abort
  <1>23. CASE DrainMain
    BY <1>23 DEF DrainMain, Publish
  <1>24. CASE AllDrained
    BY <1>24 DEF AllDrained, AdvancePhase, Reached
  <1>25. CASE StopComponents
    BY <1>25 DEF StopComponents, AdvancePhase, MayRecordFailure
  <1>26. CASE AskTeardown
    BY <1>26 DEF AskTeardown, AskPhase, Publish, Abort
  <1>27. CASE TeardownMain
    BY <1>27 DEF TeardownMain, Publish
  <1>28. CASE AllExited
    BY <1>28 DEF AllExited, Reached
  <1>29. CASE Join
    BY <1>29 DEF Join, Publish, ThreadOver
  <1>30. CASE Finalizer
    BY <1>30 DEF Finalizer, MayRecordFailure
  <1>31. CASE BeginFinalizing
    BY <1>31 DEF BeginFinalizing, Abort
  <1>32. CASE FinishGlobalState
    BY <1>32 DEF FinishGlobalState
  <1>33. ASSUME NEW w \in Workers, WorkerStart(w) PROVE StatusBooks'
    BY <1>33 DEF WorkerStart, Publish
  <1>34. ASSUME NEW w \in Workers, WorkerEnter(w) PROVE StatusBooks'
    BY <1>34 DEF WorkerEnter, AfterLoop
  <1>35. ASSUME NEW w \in Workers, NEW r \in Requests, CallbackRequest(w, r)
        PROVE  StatusBooks'
    BY <1>35 DEF CallbackRequest
  <1>36. ASSUME NEW w \in Workers, LoopExit(w) PROVE StatusBooks'
    BY <1>36 DEF LoopExit, AfterLoop
  <1>37. ASSUME NEW w \in Others, WorkerQuiesce(w) PROVE StatusBooks'
    BY <1>37 DEF WorkerQuiesce, Publish
  <1>38. ASSUME NEW w \in Others, WorkerDrain(w) PROVE StatusBooks'
    BY <1>38 DEF WorkerDrain, Publish
  <1>39. ASSUME NEW w \in Others, WorkerTeardown(w) PROVE StatusBooks'
    BY <1>39 DEF WorkerTeardown
  <1>40. ASSUME NEW w \in Others, WorkerExit(w) PROVE StatusBooks'
    BY <1>40 DEF WorkerExit, Publish
  <1>41. ASSUME NEW w \in Workers, LoopCallback(w) PROVE StatusBooks'
    BY <1>41 DEF LoopCallback
  <1>42. ASSUME NEW w \in Workers, LoopFails(w) PROVE StatusBooks'
    BY <1>42
       DEF LoopFails, AfterLoop, RequestQuiesce, QuiesceUnavailable,
          InstallQuiesce, Publish
  <1>43. CASE PipeRead
    BY <1>43 DEF PipeRead, Consume
  <1>44. ASSUME NEW t \in Producers, NEW r \in Requests, ProducerFails(t, r)
        PROVE  StatusBooks'
    BY <1>44 DEF ProducerFails
  <1>45. CASE Signal
    BY <1>45 DEF Signal
  <1>46. CASE PhaseTimeout
    BY <1>46 DEF PhaseTimeout, Abort
  <1>47. CASE UNCHANGED vars
    BY <1>47 DEF vars
  <1> QED
    BY <1>1, <1>2, <1>3, <1>4, <1>5, <1>6, <1>7, <1>8, <1>9, <1>10, <1>11,
       <1>12, <1>13, <1>14, <1>15, <1>16, <1>17, <1>18, <1>19, <1>20, <1>21,
       <1>22, <1>23, <1>24, <1>25, <1>26, <1>27, <1>28, <1>29, <1>30, <1>31,
       <1>32, <1>33, <1>34, <1>35, <1>36, <1>37, <1>38, <1>39, <1>40, <1>41,
       <1>42, <1>43, <1>44, <1>45, <1>46, <1>47
       DEF Next, Startup, Coordination, Request, ThreadStep, WorkerStep, Ended

(* Blame and aborts.                                                       *)
LEMMA BlameKept ==
    ASSUME ShutdownBooks, [Next]_vars
    PROVE  BlameBooks'
  <1> USE Cast, CallTypes, ShutdownAssumption
      DEF ShutdownBooks, ThreadsAgree, At, Alive, Free, Goto, QuiesceAsked,
          Selected, controller, worker, signal, outcome, TypeOK, BlameBooks,
          Waits, MainBooks, Stages, Stage
  <1>1. ASSUME NEW t \in Threads, RequestAlreadyAccepted(t) PROVE BlameBooks'
    BY <1>1 DEF RequestAlreadyAccepted, Arbitrate
  <1>2. ASSUME NEW t \in Threads, RequestInstall(t) PROVE BlameBooks'
    BY <1>2
       DEF RequestInstall, QuiesceUnavailable, InstallQuiesce, Publish, Abort
  <1>3. ASSUME NEW t \in Threads, RequestPublish(t) PROVE BlameBooks'
    BY <1>3 DEF RequestPublish, Arbitrate
  <1>4. CASE SpawnWorker
    BY <1>4 DEF SpawnWorker
  <1>5. CASE SpawnFails
    BY <1>5 DEF SpawnFails
  <1>6. ASSUME NEW ok \in BOOLEAN, StartSignals(ok) PROVE BlameBooks'
    BY <1>6 DEF StartSignals
  <1>7. ASSUME NEW ok \in BOOLEAN, StartupWork(ok) PROVE BlameBooks'
    BY <1>7 DEF StartupWork, Consume
  <1>8. CASE StartupCheckpoint
    BY <1>8 DEF StartupCheckpoint
  <1>9. CASE ArbitrateStartup
    BY <1>9 DEF ArbitrateStartup, Consume
  <1>10. CASE StartupFailed
    BY <1>10 DEF StartupFailed
  <1>11. CASE RunMainThread
    BY <1>11 DEF RunMainThread, Consume
  <1>12. CASE CommitRuntime
    BY <1>12 DEF CommitRuntime
  <1>13. CASE PublishRunFlag
    BY <1>13 DEF PublishRunFlag
  <1>14. CASE LeaveLoop
    BY <1>14 DEF LeaveLoop, Consume
  <1>15. CASE Coordinate
    BY <1>15 DEF Coordinate, PhaseReadable
  <1>16. CASE Claim
    BY <1>16 DEF Claim, Abort, Coordinating
  <1>17. CASE QuiesceComponents
    BY <1>17 DEF QuiesceComponents, AdvancePhase, Abort, MayRecordFailure
  <1>18. CASE AskQuiesce
    BY <1>18
       DEF AskQuiesce, RequestQuiesce, QuiesceUnavailable, InstallQuiesce,
          Publish
  <1>19. CASE QuiesceMain
    BY <1>19 DEF QuiesceMain, AdvancePhase, Publish
  <1>20. CASE AllQuiesced
    BY <1>20 DEF AllQuiesced, AdvancePhase, Reached
  <1>21. CASE QuiesceWait
    BY <1>21 DEF QuiesceWait, AdvancePhase, ProducersDone, MayRecordFailure
  <1>22. CASE AskDrain
    BY <1>22
       DEF AskDrain, AskPhase, Publish, Abort, BarrierBooks, Between,
          MainDown, Workers
  <1>23. CASE DrainMain
    BY <1>23 DEF DrainMain, Publish
  <1>24. CASE AllDrained
    BY <1>24 DEF AllDrained, AdvancePhase, Reached
  <1>25. CASE StopComponents
    BY <1>25 DEF StopComponents, AdvancePhase, MayRecordFailure
  <1>26. CASE AskTeardown
    BY <1>26
       DEF AskTeardown, AskPhase, Publish, Abort, BarrierBooks, Between,
          MainDown, Workers
  <1>27. CASE TeardownMain
    BY <1>27 DEF TeardownMain, Publish
  <1>28. CASE AllExited
    BY <1>28 DEF AllExited, Reached
  <1>29. CASE Join
    BY <1>29 DEF Join, Publish, ThreadOver
  <1>30. CASE Finalizer
    BY <1>30 DEF Finalizer, MayRecordFailure
  <1>31. CASE BeginFinalizing
    BY <1>31 DEF BeginFinalizing, Abort
  <1>32. CASE FinishGlobalState
    BY <1>32 DEF FinishGlobalState
  <1>33. ASSUME NEW w \in Workers, WorkerStart(w) PROVE BlameBooks'
    BY <1>33 DEF WorkerStart, Publish
  <1>34. ASSUME NEW w \in Workers, WorkerEnter(w) PROVE BlameBooks'
    BY <1>34 DEF WorkerEnter, AfterLoop
  <1>35. ASSUME NEW w \in Workers, NEW r \in Requests, CallbackRequest(w, r)
        PROVE  BlameBooks'
    BY <1>35 DEF CallbackRequest
  <1>36. ASSUME NEW w \in Workers, LoopExit(w) PROVE BlameBooks'
    BY <1>36 DEF LoopExit, AfterLoop
  <1>37. ASSUME NEW w \in Others, WorkerQuiesce(w) PROVE BlameBooks'
    BY <1>37 DEF WorkerQuiesce, Publish
  <1>38. ASSUME NEW w \in Others, WorkerDrain(w) PROVE BlameBooks'
    BY <1>38 DEF WorkerDrain, Publish
  <1>39. ASSUME NEW w \in Others, WorkerTeardown(w) PROVE BlameBooks'
    BY <1>39 DEF WorkerTeardown
  <1>40. ASSUME NEW w \in Others, WorkerExit(w) PROVE BlameBooks'
    BY <1>40 DEF WorkerExit, Publish
  <1>41. ASSUME NEW w \in Workers, LoopCallback(w) PROVE BlameBooks'
    BY <1>41 DEF LoopCallback
  <1>42. ASSUME NEW w \in Workers, LoopFails(w) PROVE BlameBooks'
    BY <1>42
       DEF LoopFails, AfterLoop, RequestQuiesce, QuiesceUnavailable,
          InstallQuiesce, Publish
  <1>43. CASE PipeRead
    BY <1>43 DEF PipeRead, Consume
  <1>44. ASSUME NEW t \in Producers, NEW r \in Requests, ProducerFails(t, r)
        PROVE  BlameBooks'
    BY <1>44 DEF ProducerFails
  <1>45. CASE Signal
    BY <1>45 DEF Signal
  <1>46. CASE PhaseTimeout
    BY <1>46 DEF PhaseTimeout, Abort
  <1>47. CASE UNCHANGED vars
    BY <1>47 DEF vars
  <1> QED
    BY <1>1, <1>2, <1>3, <1>4, <1>5, <1>6, <1>7, <1>8, <1>9, <1>10, <1>11,
       <1>12, <1>13, <1>14, <1>15, <1>16, <1>17, <1>18, <1>19, <1>20, <1>21,
       <1>22, <1>23, <1>24, <1>25, <1>26, <1>27, <1>28, <1>29, <1>30, <1>31,
       <1>32, <1>33, <1>34, <1>35, <1>36, <1>37, <1>38, <1>39, <1>40, <1>41,
       <1>42, <1>43, <1>44, <1>45, <1>46, <1>47
       DEF Next, Startup, Coordination, Request, ThreadStep, WorkerStep, Ended

(* The place, lifecycle and context of a spawned worker.                   *)
LEMMA WorkerKept ==
    ASSUME ShutdownBooks, [Next]_vars, NEW v \in Others
    PROVE  WorkerBooks(v)'
  <1> USE Cast, CallTypes, ShutdownAssumption
      DEF ShutdownBooks, ThreadsAgree, At, Alive, Free, Goto, QuiesceAsked,
          Selected, controller, worker, signal, outcome, TypeOK, WorkerBooks,
          BarrierBooks, Between, MainBooks, Coordinating, Starting,
          LoopStates, WorkerStates
  <1>1. ASSUME NEW t \in Threads, RequestAlreadyAccepted(t)
        PROVE  WorkerBooks(v)'
    BY <1>1 DEF RequestAlreadyAccepted, Arbitrate
  <1>2. ASSUME NEW t \in Threads, RequestInstall(t) PROVE WorkerBooks(v)'
    BY <1>2
       DEF RequestInstall, QuiesceUnavailable, InstallQuiesce, Publish, Abort
  <1>3. ASSUME NEW t \in Threads, RequestPublish(t) PROVE WorkerBooks(v)'
    BY <1>3 DEF RequestPublish, Arbitrate
  <1>4. CASE SpawnWorker
    BY <1>4 DEF SpawnWorker
  <1>5. CASE SpawnFails
    BY <1>5 DEF SpawnFails
  <1>6. ASSUME NEW ok \in BOOLEAN, StartSignals(ok) PROVE WorkerBooks(v)'
    BY <1>6 DEF StartSignals, Stages, Others
  <1>7. ASSUME NEW ok \in BOOLEAN, StartupWork(ok) PROVE WorkerBooks(v)'
    BY <1>7 DEF StartupWork, Consume
  <1>8. CASE StartupCheckpoint
    BY <1>8 DEF StartupCheckpoint
  <1>9. CASE ArbitrateStartup
    BY <1>9 DEF ArbitrateStartup, Consume
  <1>10. CASE StartupFailed
    BY <1>10 DEF StartupFailed
  <1>11. CASE RunMainThread
    BY <1>11 DEF RunMainThread, Consume
  <1>12. CASE CommitRuntime
    BY <1>12 DEF CommitRuntime
  <1>13. CASE PublishRunFlag
    BY <1>13 DEF PublishRunFlag
  <1>14. CASE LeaveLoop
    BY <1>14 DEF LeaveLoop, Consume
  <1>15. CASE Coordinate
    BY <1>15 DEF Coordinate, PhaseReadable
  <1>16. CASE Claim
    BY <1>16 DEF Claim, Abort
  <1>17. CASE QuiesceComponents
    BY <1>17 DEF QuiesceComponents, AdvancePhase, Abort, MayRecordFailure
  <1>18. CASE AskQuiesce
    BY <1>18
       DEF AskQuiesce, RequestQuiesce, QuiesceUnavailable, InstallQuiesce,
          Publish, Stages, Stage
  <1>19. CASE QuiesceMain
    BY <1>19 DEF QuiesceMain, AdvancePhase, Publish
  <1>20. CASE AllQuiesced
    BY <1>20 DEF AllQuiesced, AdvancePhase, Reached
  <1>21. CASE QuiesceWait
    BY <1>21 DEF QuiesceWait, AdvancePhase, ProducersDone, MayRecordFailure
  <1>22. CASE AskDrain
    BY <1>22 DEF AskDrain, AskPhase, Publish, Abort
  <1>23. CASE DrainMain
    BY <1>23 DEF DrainMain, Publish
  <1>24. CASE AllDrained
    BY <1>24 DEF AllDrained, AdvancePhase, Reached
  <1>25. CASE StopComponents
    BY <1>25 DEF StopComponents, AdvancePhase, MayRecordFailure
  <1>26. CASE AskTeardown
    BY <1>26 DEF AskTeardown, AskPhase, Publish, Abort
  <1>27. CASE TeardownMain
    BY <1>27 DEF TeardownMain, Publish
  <1>28. CASE AllExited
    BY <1>28 DEF AllExited, Reached
  <1>29. CASE Join
    BY <1>29 DEF Join, Publish, ThreadOver
  <1>30. CASE Finalizer
    BY <1>30 DEF Finalizer, MayRecordFailure
  <1>31. CASE BeginFinalizing
    BY <1>31 DEF BeginFinalizing, Abort
  <1>32. CASE FinishGlobalState
    BY <1>32 DEF FinishGlobalState
  <1>33. ASSUME NEW w \in Workers, WorkerStart(w) PROVE WorkerBooks(v)'
    BY <1>33 DEF WorkerStart, Publish
  <1>34. ASSUME NEW w \in Workers, WorkerEnter(w) PROVE WorkerBooks(v)'
    BY <1>34 DEF WorkerEnter, AfterLoop
  <1>35. ASSUME NEW w \in Workers, NEW r \in Requests, CallbackRequest(w, r)
        PROVE  WorkerBooks(v)'
    BY <1>35 DEF CallbackRequest
  <1>36. ASSUME NEW w \in Workers, LoopExit(w) PROVE WorkerBooks(v)'
    BY <1>36 DEF LoopExit, AfterLoop
  <1>37. ASSUME NEW w \in Others, WorkerQuiesce(w) PROVE WorkerBooks(v)'
    BY <1>37 DEF WorkerQuiesce, Publish
  <1>38. ASSUME NEW w \in Others, WorkerDrain(w) PROVE WorkerBooks(v)'
    BY <1>38 DEF WorkerDrain, Publish
  <1>39. ASSUME NEW w \in Others, WorkerTeardown(w) PROVE WorkerBooks(v)'
    BY <1>39 DEF WorkerTeardown
  <1>40. ASSUME NEW w \in Others, WorkerExit(w) PROVE WorkerBooks(v)'
    BY <1>40 DEF WorkerExit, Publish
  <1>41. ASSUME NEW w \in Workers, LoopCallback(w) PROVE WorkerBooks(v)'
    BY <1>41 DEF LoopCallback
  <1>42. ASSUME NEW w \in Workers, LoopFails(w) PROVE WorkerBooks(v)'
    BY <1>42
       DEF LoopFails, AfterLoop, RequestQuiesce, QuiesceUnavailable,
          InstallQuiesce, Publish
  <1>43. CASE PipeRead
    BY <1>43 DEF PipeRead, Consume
  <1>44. ASSUME NEW t \in Producers, NEW r \in Requests, ProducerFails(t, r)
        PROVE  WorkerBooks(v)'
    BY <1>44 DEF ProducerFails
  <1>45. CASE Signal
    BY <1>45 DEF Signal
  <1>46. CASE PhaseTimeout
    BY <1>46 DEF PhaseTimeout, Abort
  <1>47. CASE UNCHANGED vars
    BY <1>47, SMTT(30) DEF vars
  <1> QED
    BY <1>1, <1>2, <1>3, <1>4, <1>5, <1>6, <1>7, <1>8, <1>9, <1>10, <1>11,
       <1>12, <1>13, <1>14, <1>15, <1>16, <1>17, <1>18, <1>19, <1>20, <1>21,
       <1>22, <1>23, <1>24, <1>25, <1>26, <1>27, <1>28, <1>29, <1>30, <1>31,
       <1>32, <1>33, <1>34, <1>35, <1>36, <1>37, <1>38, <1>39, <1>40, <1>41,
       <1>42, <1>43, <1>44, <1>45, <1>46, <1>47, ZenonT(30)
       DEF Next, Startup, Coordination, Request, ThreadStep, WorkerStep, Ended

(* Its distance from the coordinator.                                      *)
LEMMA BarrierKept ==
    ASSUME ShutdownBooks, [Next]_vars, NEW v \in Others
    PROVE  BarrierBooks(v)'
  <1> USE Cast, CallTypes, ShutdownAssumption
      DEF ShutdownBooks, ThreadsAgree, At, Alive, Free, Goto, QuiesceAsked,
          Selected, controller, worker, signal, outcome, TypeOK, WorkerBooks,
          BarrierBooks, Between, ThreadOver, Coordinating
  <1>1. ASSUME NEW t \in Threads, RequestAlreadyAccepted(t)
        PROVE  BarrierBooks(v)'
    BY <1>1 DEF RequestAlreadyAccepted, Arbitrate
  <1>2. ASSUME NEW t \in Threads, RequestInstall(t) PROVE BarrierBooks(v)'
    BY <1>2
       DEF RequestInstall, QuiesceUnavailable, InstallQuiesce, Publish, Abort
  <1>3. ASSUME NEW t \in Threads, RequestPublish(t) PROVE BarrierBooks(v)'
    BY <1>3 DEF RequestPublish, Arbitrate
  <1>4. CASE SpawnWorker
    BY <1>4 DEF SpawnWorker
  <1>5. CASE SpawnFails
    BY <1>5 DEF SpawnFails
  <1>6. ASSUME NEW ok \in BOOLEAN, StartSignals(ok) PROVE BarrierBooks(v)'
    BY <1>6 DEF StartSignals
  <1>7. ASSUME NEW ok \in BOOLEAN, StartupWork(ok) PROVE BarrierBooks(v)'
    BY <1>7 DEF StartupWork, Consume
  <1>8. CASE StartupCheckpoint
    BY <1>8 DEF StartupCheckpoint
  <1>9. CASE ArbitrateStartup
    BY <1>9 DEF ArbitrateStartup, Consume
  <1>10. CASE StartupFailed
    BY <1>10 DEF StartupFailed
  <1>11. CASE RunMainThread
    BY <1>11 DEF RunMainThread, Consume
  <1>12. CASE CommitRuntime
    BY <1>12 DEF CommitRuntime
  <1>13. CASE PublishRunFlag
    BY <1>13 DEF PublishRunFlag
  <1>14. CASE LeaveLoop
    BY <1>14 DEF LeaveLoop, Consume
  <1>15. CASE Coordinate
    BY <1>15 DEF Coordinate, PhaseReadable
  <1>16. CASE Claim
    BY <1>16 DEF Claim, Abort
  <1>17. CASE QuiesceComponents
    BY <1>17 DEF QuiesceComponents, AdvancePhase, Abort, MayRecordFailure
  <1>18. CASE AskQuiesce
    BY <1>18
       DEF AskQuiesce, RequestQuiesce, QuiesceUnavailable, InstallQuiesce,
          Publish
  <1>19. CASE QuiesceMain
    BY <1>19 DEF QuiesceMain, AdvancePhase, Publish
  <1>20. CASE AllQuiesced
    BY <1>20 DEF AllQuiesced, AdvancePhase, Reached
  <1>21. CASE QuiesceWait
    BY <1>21
       DEF QuiesceWait, AdvancePhase, ProducersDone, MayRecordFailure,
          Workers, Others
  <1>22. CASE AskDrain
    BY <1>22 DEF AskDrain, AskPhase, Publish, Abort
  <1>23. CASE DrainMain
    BY <1>23 DEF DrainMain, Publish, Workers, Others
  <1>24. CASE AllDrained
    BY <1>24 DEF AllDrained, AdvancePhase, Reached
  <1>25. CASE StopComponents
    BY <1>25
       DEF StopComponents, AdvancePhase, MayRecordFailure, Workers, Others
  <1>26. CASE AskTeardown
    BY <1>26 DEF AskTeardown, AskPhase, Publish, Abort
  <1>27. CASE TeardownMain
    BY <1>27 DEF TeardownMain, Publish, Workers, Others
  <1>28. CASE AllExited
    BY <1>28 DEF AllExited, Reached, Workers, Others
  <1>29. CASE Join
    BY <1>29 DEF Join, Publish, Others
  <1>30. CASE Finalizer
    BY <1>30 DEF Finalizer, MayRecordFailure, Stages, Workers, Others
  <1>31. CASE BeginFinalizing
    BY <1>31 DEF BeginFinalizing, Abort
  <1>32. CASE FinishGlobalState
    BY <1>32 DEF FinishGlobalState
  <1>33. ASSUME NEW w \in Workers, WorkerStart(w) PROVE BarrierBooks(v)'
    BY <1>33 DEF WorkerStart, Publish
  <1>34. ASSUME NEW w \in Workers, WorkerEnter(w) PROVE BarrierBooks(v)'
    BY <1>34 DEF WorkerEnter, AfterLoop
  <1>35. ASSUME NEW w \in Workers, NEW r \in Requests, CallbackRequest(w, r)
        PROVE  BarrierBooks(v)'
    BY <1>35 DEF CallbackRequest
  <1>36. ASSUME NEW w \in Workers, LoopExit(w) PROVE BarrierBooks(v)'
    BY <1>36 DEF LoopExit, AfterLoop
  <1>37. ASSUME NEW w \in Others, WorkerQuiesce(w) PROVE BarrierBooks(v)'
    BY <1>37 DEF WorkerQuiesce, Publish
  <1>38. ASSUME NEW w \in Others, WorkerDrain(w) PROVE BarrierBooks(v)'
    BY <1>38 DEF WorkerDrain, Publish
  <1>39. ASSUME NEW w \in Others, WorkerTeardown(w) PROVE BarrierBooks(v)'
    BY <1>39 DEF WorkerTeardown
  <1>40. ASSUME NEW w \in Others, WorkerExit(w) PROVE BarrierBooks(v)'
    BY <1>40 DEF WorkerExit, Publish
  <1>41. ASSUME NEW w \in Workers, LoopCallback(w) PROVE BarrierBooks(v)'
    BY <1>41 DEF LoopCallback
  <1>42. ASSUME NEW w \in Workers, LoopFails(w) PROVE BarrierBooks(v)'
    BY <1>42
       DEF LoopFails, AfterLoop, RequestQuiesce, QuiesceUnavailable,
          InstallQuiesce, Publish
  <1>43. CASE PipeRead
    BY <1>43 DEF PipeRead, Consume
  <1>44. ASSUME NEW t \in Producers, NEW r \in Requests, ProducerFails(t, r)
        PROVE  BarrierBooks(v)'
    BY <1>44 DEF ProducerFails
  <1>45. CASE Signal
    BY <1>45 DEF Signal
  <1>46. CASE PhaseTimeout
    BY <1>46 DEF PhaseTimeout, Abort
  <1>47. CASE UNCHANGED vars
    BY <1>47 DEF vars
  <1> QED
    BY <1>1, <1>2, <1>3, <1>4, <1>5, <1>6, <1>7, <1>8, <1>9, <1>10, <1>11,
       <1>12, <1>13, <1>14, <1>15, <1>16, <1>17, <1>18, <1>19, <1>20, <1>21,
       <1>22, <1>23, <1>24, <1>25, <1>26, <1>27, <1>28, <1>29, <1>30, <1>31,
       <1>32, <1>33, <1>34, <1>35, <1>36, <1>37, <1>38, <1>39, <1>40, <1>41,
       <1>42, <1>43, <1>44, <1>45, <1>46, <1>47
       DEF Next, Startup, Coordination, Request, ThreadStep, WorkerStep, Ended

(* Device threads.                                                         *)
LEMMA ProducerKept ==
    ASSUME ShutdownBooks, [Next]_vars, NEW p \in Producers
    PROVE  ProducerBooks(p)'
  <1> USE Cast, CallTypes, ShutdownAssumption
      DEF ShutdownBooks, ThreadsAgree, At, Alive, Free, Goto, QuiesceAsked,
          Selected, controller, worker, signal, outcome, TypeOK,
          ProducerBooks, Stages, Stage
  <1>1. ASSUME NEW t \in Threads, RequestAlreadyAccepted(t)
        PROVE  ProducerBooks(p)'
    BY <1>1 DEF RequestAlreadyAccepted, Arbitrate
  <1>2. ASSUME NEW t \in Threads, RequestInstall(t) PROVE ProducerBooks(p)'
    BY <1>2
       DEF RequestInstall, QuiesceUnavailable, InstallQuiesce, Publish, Abort
  <1>3. ASSUME NEW t \in Threads, RequestPublish(t) PROVE ProducerBooks(p)'
    BY <1>3 DEF RequestPublish, Arbitrate
  <1>4. CASE SpawnWorker
    BY <1>4 DEF SpawnWorker
  <1>5. CASE SpawnFails
    BY <1>5 DEF SpawnFails
  <1>6. ASSUME NEW ok \in BOOLEAN, StartSignals(ok) PROVE ProducerBooks(p)'
    BY <1>6 DEF StartSignals
  <1>7. ASSUME NEW ok \in BOOLEAN, StartupWork(ok) PROVE ProducerBooks(p)'
    BY <1>7 DEF StartupWork, Consume
  <1>8. CASE StartupCheckpoint
    BY <1>8 DEF StartupCheckpoint
  <1>9. CASE ArbitrateStartup
    BY <1>9 DEF ArbitrateStartup, Consume
  <1>10. CASE StartupFailed
    BY <1>10 DEF StartupFailed
  <1>11. CASE RunMainThread
    BY <1>11 DEF RunMainThread, Consume
  <1>12. CASE CommitRuntime
    BY <1>12 DEF CommitRuntime
  <1>13. CASE PublishRunFlag
    BY <1>13 DEF PublishRunFlag
  <1>14. CASE LeaveLoop
    BY <1>14 DEF LeaveLoop, Consume
  <1>15. CASE Coordinate
    BY <1>15 DEF Coordinate, PhaseReadable
  <1>16. CASE Claim
    BY <1>16 DEF Claim, Abort
  <1>17. CASE QuiesceComponents
    BY <1>17, ZenonT(30) DEF QuiesceComponents, AdvancePhase, Abort, MayRecordFailure
  <1>18. CASE AskQuiesce
    BY <1>18
       DEF AskQuiesce, RequestQuiesce, QuiesceUnavailable, InstallQuiesce,
          Publish
  <1>19. CASE QuiesceMain
    BY <1>19 DEF QuiesceMain, AdvancePhase, Publish
  <1>20. CASE AllQuiesced
    BY <1>20 DEF AllQuiesced, AdvancePhase, Reached
  <1>21. CASE QuiesceWait
    BY <1>21 DEF QuiesceWait, AdvancePhase, ProducersDone, MayRecordFailure
  <1>22. CASE AskDrain
    BY <1>22 DEF AskDrain, AskPhase, Publish, Abort
  <1>23. CASE DrainMain
    BY <1>23 DEF DrainMain, Publish
  <1>24. CASE AllDrained
    BY <1>24 DEF AllDrained, AdvancePhase, Reached
  <1>25. CASE StopComponents
    BY <1>25 DEF StopComponents, AdvancePhase, MayRecordFailure
  <1>26. CASE AskTeardown
    BY <1>26 DEF AskTeardown, AskPhase, Publish, Abort
  <1>27. CASE TeardownMain
    BY <1>27 DEF TeardownMain, Publish
  <1>28. CASE AllExited
    BY <1>28 DEF AllExited, Reached
  <1>29. CASE Join
    BY <1>29 DEF Join, Publish, ThreadOver
  <1>30. CASE Finalizer
    BY <1>30 DEF Finalizer, MayRecordFailure
  <1>31. CASE BeginFinalizing
    BY <1>31 DEF BeginFinalizing, Abort
  <1>32. CASE FinishGlobalState
    BY <1>32 DEF FinishGlobalState
  <1>33. ASSUME NEW w \in Workers, WorkerStart(w) PROVE ProducerBooks(p)'
    BY <1>33 DEF WorkerStart, Publish
  <1>34. ASSUME NEW w \in Workers, WorkerEnter(w) PROVE ProducerBooks(p)'
    BY <1>34 DEF WorkerEnter, AfterLoop
  <1>35. ASSUME NEW w \in Workers, NEW r \in Requests, CallbackRequest(w, r)
        PROVE  ProducerBooks(p)'
    BY <1>35 DEF CallbackRequest
  <1>36. ASSUME NEW w \in Workers, LoopExit(w) PROVE ProducerBooks(p)'
    BY <1>36 DEF LoopExit, AfterLoop
  <1>37. ASSUME NEW w \in Others, WorkerQuiesce(w) PROVE ProducerBooks(p)'
    BY <1>37 DEF WorkerQuiesce, Publish
  <1>38. ASSUME NEW w \in Others, WorkerDrain(w) PROVE ProducerBooks(p)'
    BY <1>38 DEF WorkerDrain, Publish
  <1>39. ASSUME NEW w \in Others, WorkerTeardown(w) PROVE ProducerBooks(p)'
    BY <1>39 DEF WorkerTeardown
  <1>40. ASSUME NEW w \in Others, WorkerExit(w) PROVE ProducerBooks(p)'
    BY <1>40 DEF WorkerExit, Publish
  <1>41. ASSUME NEW w \in Workers, LoopCallback(w) PROVE ProducerBooks(p)'
    BY <1>41 DEF LoopCallback
  <1>42. ASSUME NEW w \in Workers, LoopFails(w) PROVE ProducerBooks(p)'
    BY <1>42
       DEF LoopFails, AfterLoop, RequestQuiesce, QuiesceUnavailable,
          InstallQuiesce, Publish
  <1>43. CASE PipeRead
    BY <1>43 DEF PipeRead, Consume
  <1>44. ASSUME NEW t \in Producers, NEW r \in Requests, ProducerFails(t, r)
        PROVE  ProducerBooks(p)'
    BY <1>44 DEF ProducerFails
  <1>45. CASE Signal
    BY <1>45 DEF Signal
  <1>46. CASE PhaseTimeout
    BY <1>46 DEF PhaseTimeout, Abort
  <1>47. CASE UNCHANGED vars
    BY <1>47 DEF vars
  <1> QED
    BY <1>1, <1>2, <1>3, <1>4, <1>5, <1>6, <1>7, <1>8, <1>9, <1>10, <1>11,
       <1>12, <1>13, <1>14, <1>15, <1>16, <1>17, <1>18, <1>19, <1>20, <1>21,
       <1>22, <1>23, <1>24, <1>25, <1>26, <1>27, <1>28, <1>29, <1>30, <1>31,
       <1>32, <1>33, <1>34, <1>35, <1>36, <1>37, <1>38, <1>39, <1>40, <1>41,
       <1>42, <1>43, <1>44, <1>45, <1>46, <1>47
       DEF Next, Startup, Coordination, Request, ThreadStep, WorkerStep, Ended

-----------------------------------------------------------------------------
(* What a step may never do.                                               *)
OnlyForward ==
    /\ phase' >= phase
    /\ \A w \in Workers : lifecycle'[w] >= lifecycle[w]
    /\ context # "none" => context' = context
    /\ \A w \in Workers : lcontext[w] # "none" => lcontext'[w] = lcontext[w]

(* No step takes anything back.                                            *)
LEMMA StepsForward ==
    ASSUME ShutdownBooks, [Next]_vars
    PROVE  OnlyForward
  <1> USE Cast, CallTypes, ShutdownAssumption
      DEF ShutdownBooks, ThreadsAgree, At, Alive, Free, Goto, QuiesceAsked,
          Selected, controller, worker, signal, outcome, TypeOK, OnlyForward,
          MainBooks
  <1>1. ASSUME NEW t \in Threads, RequestAlreadyAccepted(t) PROVE OnlyForward
    BY <1>1 DEF RequestAlreadyAccepted, Arbitrate
  <1>2. ASSUME NEW t \in Threads, RequestInstall(t) PROVE OnlyForward
    BY <1>2
       DEF RequestInstall, QuiesceUnavailable, InstallQuiesce, Publish, Abort
  <1>3. ASSUME NEW t \in Threads, RequestPublish(t) PROVE OnlyForward
    BY <1>3 DEF RequestPublish, Arbitrate
  <1>4. CASE SpawnWorker
    BY <1>4 DEF SpawnWorker
  <1>5. CASE SpawnFails
    BY <1>5 DEF SpawnFails, WorkerBooks
  <1>6. ASSUME NEW ok \in BOOLEAN, StartSignals(ok) PROVE OnlyForward
    BY <1>6 DEF StartSignals
  <1>7. ASSUME NEW ok \in BOOLEAN, StartupWork(ok) PROVE OnlyForward
    BY <1>7 DEF StartupWork, Consume
  <1>8. CASE StartupCheckpoint
    BY <1>8 DEF StartupCheckpoint
  <1>9. CASE ArbitrateStartup
    BY <1>9 DEF ArbitrateStartup, Consume
  <1>10. CASE StartupFailed
    BY <1>10 DEF StartupFailed
  <1>11. CASE RunMainThread
    BY <1>11 DEF RunMainThread, Consume
  <1>12. CASE CommitRuntime
    BY <1>12 DEF CommitRuntime
  <1>13. CASE PublishRunFlag
    BY <1>13 DEF PublishRunFlag
  <1>14. CASE LeaveLoop
    BY <1>14 DEF LeaveLoop, Consume
  <1>15. CASE Coordinate
    BY <1>15 DEF Coordinate, PhaseReadable
  <1>16. CASE Claim
    BY <1>16 DEF Claim, Abort
  <1>17. CASE QuiesceComponents
    BY <1>17 DEF QuiesceComponents, AdvancePhase, Abort, MayRecordFailure
  <1>18. CASE AskQuiesce
    BY <1>18
       DEF AskQuiesce, RequestQuiesce, QuiesceUnavailable, InstallQuiesce,
          Publish
  <1>19. CASE QuiesceMain
    BY <1>19 DEF QuiesceMain, AdvancePhase, Publish
  <1>20. CASE AllQuiesced
    BY <1>20 DEF AllQuiesced, AdvancePhase, Reached
  <1>21. CASE QuiesceWait
    BY <1>21 DEF QuiesceWait, AdvancePhase, ProducersDone, MayRecordFailure
  <1>22. CASE AskDrain
    BY <1>22 DEF AskDrain, AskPhase, Publish, Abort
  <1>23. CASE DrainMain
    BY <1>23 DEF DrainMain, Publish
  <1>24. CASE AllDrained
    BY <1>24 DEF AllDrained, AdvancePhase, Reached
  <1>25. CASE StopComponents
    BY <1>25 DEF StopComponents, AdvancePhase, MayRecordFailure
  <1>26. CASE AskTeardown
    BY <1>26 DEF AskTeardown, AskPhase, Publish, Abort
  <1>27. CASE TeardownMain
    BY <1>27 DEF TeardownMain, Publish
  <1>28. CASE AllExited
    BY <1>28 DEF AllExited, Reached
  <1>29. CASE Join
    BY <1>29 DEF Join, Publish, ThreadOver
  <1>30. CASE Finalizer
    BY <1>30 DEF Finalizer, MayRecordFailure
  <1>31. CASE BeginFinalizing
    BY <1>31 DEF BeginFinalizing, Abort
  <1>32. CASE FinishGlobalState
    BY <1>32 DEF FinishGlobalState
  <1>33. ASSUME NEW w \in Workers, WorkerStart(w) PROVE OnlyForward
    BY <1>33 DEF WorkerStart, Publish
  <1>34. ASSUME NEW w \in Workers, WorkerEnter(w) PROVE OnlyForward
    BY <1>34 DEF WorkerEnter, AfterLoop
  <1>35. ASSUME NEW w \in Workers, NEW r \in Requests, CallbackRequest(w, r)
        PROVE  OnlyForward
    BY <1>35 DEF CallbackRequest
  <1>36. ASSUME NEW w \in Workers, LoopExit(w) PROVE OnlyForward
    BY <1>36 DEF LoopExit, AfterLoop
  <1>37. ASSUME NEW w \in Others, WorkerQuiesce(w) PROVE OnlyForward
    BY <1>37 DEF WorkerQuiesce, Publish
  <1>38. ASSUME NEW w \in Others, WorkerDrain(w) PROVE OnlyForward
    BY <1>38 DEF WorkerDrain, Publish
  <1>39. ASSUME NEW w \in Others, WorkerTeardown(w) PROVE OnlyForward
    BY <1>39 DEF WorkerTeardown
  <1>40. ASSUME NEW w \in Others, WorkerExit(w) PROVE OnlyForward
    BY <1>40 DEF WorkerExit, Publish
  <1>41. ASSUME NEW w \in Workers, LoopCallback(w) PROVE OnlyForward
    BY <1>41 DEF LoopCallback
  <1>42. ASSUME NEW w \in Workers, LoopFails(w) PROVE OnlyForward
    BY <1>42
       DEF LoopFails, AfterLoop, RequestQuiesce, QuiesceUnavailable,
          InstallQuiesce, Publish
  <1>43. CASE PipeRead
    BY <1>43 DEF PipeRead, Consume
  <1>44. ASSUME NEW t \in Producers, NEW r \in Requests, ProducerFails(t, r)
        PROVE  OnlyForward
    BY <1>44 DEF ProducerFails
  <1>45. CASE Signal
    BY <1>45 DEF Signal
  <1>46. CASE PhaseTimeout
    BY <1>46 DEF PhaseTimeout, Abort
  <1>47. CASE UNCHANGED vars
    BY <1>47 DEF vars
  <1> QED
    BY <1>1, <1>2, <1>3, <1>4, <1>5, <1>6, <1>7, <1>8, <1>9, <1>10, <1>11,
       <1>12, <1>13, <1>14, <1>15, <1>16, <1>17, <1>18, <1>19, <1>20, <1>21,
       <1>22, <1>23, <1>24, <1>25, <1>26, <1>27, <1>28, <1>29, <1>30, <1>31,
       <1>32, <1>33, <1>34, <1>35, <1>36, <1>37, <1>38, <1>39, <1>40, <1>41,
       <1>42, <1>43, <1>44, <1>45, <1>46, <1>47
       DEF Next, Startup, Coordination, Request, ThreadStep, WorkerStep, Ended

-----------------------------------------------------------------------------
(* The state in which createGlobalState spawns the threads has its books   *)
(* in order.                                                               *)
LEMMA BooksOpened ==
    ASSUME Init
    PROVE  ShutdownBooks
  <1> USE Cast, CallTypes, ShutdownAssumption DEF Init
  <1>1. TypeOK
    <2>1. /\ req \in [Threads -> Calls]
          /\ pc \in [Threads -> MainStates \cup LoopStates \cup WorkerStates]
      BY DEF MainStates, LoopStates, WorkerStates
    <2>2. /\ lifecycle \in [Workers -> Initialized .. Joined]
          /\ lcontext \in [Workers -> Contexts]
          /\ next \in 0 .. NWorkers + 1
      BY DEF Contexts
    <2> QED
      BY <2>1, <2>2 DEF TypeOK, Contexts, ReasonNames
  <1>2. Stages
    BY DEF Stages, Stage, Coordinating
  <1>3. MainBooks
    BY DEF MainBooks, MainStates, LoopStates, Starting, Coordinating, MainDown,
           QuiesceAsked, Free
  <1>4. StatusBooks
    BY DEF StatusBooks
  <1>5. BlameBooks
    BY DEF BlameBooks
  <1>6. ASSUME NEW w \in Others PROVE WorkerBooks(w)
    BY <1>6 DEF WorkerBooks, WorkerStates, LoopStates, QuiesceAsked, Others
  <1>7. ASSUME NEW w \in Others PROVE BarrierBooks(w)
    BY <1>7 DEF BarrierBooks, Between
  <1>8. ASSUME NEW t \in Producers PROVE ProducerBooks(t)
    BY <1>8 DEF ProducerBooks
  <1> QED
    BY <1>1, <1>2, <1>3, <1>4, <1>5, <1>6, <1>7, <1>8
       DEF ShutdownBooks, ThreadsAgree

(* Every step of every thread keeps them.                                  *)
LEMMA BooksKept ==
    ASSUME ShutdownBooks, [Next]_vars
    PROVE  ShutdownBooks'
  <1>1. \A w \in Others : WorkerBooks(w)' /\ BarrierBooks(w)'
    BY WorkerKept, BarrierKept
  <1>2. \A t \in Producers : ProducerBooks(t)'
    BY ProducerKept
  <1> QED
    BY <1>1, <1>2, TypeKept, StagesKept, MainKept, StatusKept, BlameKept
       DEF ShutdownBooks, ThreadsAgree

-----------------------------------------------------------------------------
(* What the books say.                                                     *)

(* One context for all workers.                                            *)
LEMMA BooksContexts == ShutdownBooks => ContextsAgree
  <1> SUFFICES ASSUME ShutdownBooks PROVE ContextsAgree
    OBVIOUS
  <1> USE Cast DEF ShutdownBooks, ThreadsAgree
  <1>1. \A w \in Workers : lcontext[w] \in {"none", Selected}
    BY DEF MainBooks, WorkerBooks
  <1>2. phase # PRunning => context = Selected
    BY DEF MainBooks
  <1>3. run_flag /\ context # "none" => context = "process"
    BY DEF MainBooks, Selected
  <1> QED
    BY <1>1, <1>2, <1>3 DEF ContextsAgree

(* The barriers.                                                           *)
LEMMA BooksBarriers == ShutdownBooks => PhaseBarriers
  <1> SUFFICES ASSUME ShutdownBooks PROVE PhaseBarriers
    OBVIOUS
  <1> USE Cast DEF ShutdownBooks, ThreadsAgree
  <1> DEFINE Draining == {"askDrain", "waitDrained", "stop"}
             Down == {"askTeardown", "waitExited", "join", "freeze", "destroy"}
  <1>1. ASSUME NEW w \in Live, lifecycle[w] >= DrainRequested
        PROVE  pc[Main] \in Draining \cup Down
    BY <1>1 DEF Live, TypeOK, Stages, Stage, BarrierBooks, Between,
           Coordinating
  <1>2. ASSUME NEW w \in Live, lifecycle[w] >= TeardownRequested
        PROVE  pc[Main] \in Down
    BY <1>2 DEF Live, TypeOK, Stages, Stage, BarrierBooks, Between,
           Coordinating
  <1>3. ASSUME pc[Main] \in Draining \cup Down, NEW w \in Live
        PROVE  lifecycle[w] >= Quiesced
    BY <1>3 DEF Live, TypeOK, Stages, Stage, BarrierBooks, Between, MainBooks,
           MainDown
  <1>4. ASSUME pc[Main] \in Draining \cup Down
        PROVE  components \in {"off", "joined", "stopped"}
    BY <1>4 DEF Stages, Stage
  <1>5. ASSUME pc[Main] \in Draining \cup Down, NEW t \in Producers
        PROVE  req[t] = NoRequest
    BY <1>4, <1>5 DEF ProducerBooks
  <1>6. pc[Main] \in Down => components = "stopped"
    BY DEF Stages, Stage
  <1>7. ASSUME components = "stopped" PROVE pc[Main] \in Down
    BY <1>7 DEF TypeOK, Stages, Stage, Coordinating
  <1>8. ASSUME pc[Main] \in Down, NEW w \in Live
        PROVE  lifecycle[w] >= Drained
    BY <1>8 DEF Live, TypeOK, Stages, Stage, BarrierBooks, Between, MainBooks,
           MainDown
  <1> HIDE DEF Draining, Down
  <1> QED
    BY <1>1, <1>2, <1>3, <1>4, <1>5, <1>6, <1>7, <1>8 DEF PhaseBarriers

(* Nobody is left when the controller goes.                                *)
LEMMA BooksEnd == ShutdownBooks => NobodyLeft
  <1> SUFFICES ASSUME ShutdownBooks, pc[Main] = "destroy" PROVE NobodyLeft
    BY DEF NobodyLeft
  <1> USE Cast DEF ShutdownBooks, ThreadsAgree
  <1>1. \A w \in Others : pc[w] \in {"absent", "finished"}
    BY DEF BarrierBooks, ThreadOver
  <1>2. \A w \in Others : req[w] = NoRequest
    BY <1>1 DEF WorkerBooks
  <1>3. \A t \in Producers : req[t] = NoRequest
    BY DEF ProducerBooks, Stages, Stage
  <1>4. req[Main] = NoRequest /\ holder = Nobody
    BY DEF MainBooks, Stages, Stage, Free
  <1> QED
    BY <1>1, <1>2, <1>3, <1>4 DEF NobodyLeft

(* The reason, the status and the way out.                                 *)
LEMMA BooksOutcome == ShutdownBooks => OutcomeHonest
  <1> SUFFICES ASSUME ShutdownBooks PROVE OutcomeHonest
    OBVIOUS
  <1> USE Cast DEF ShutdownBooks, ThreadsAgree
  <1>1. claimed => context # "none"
    BY DEF MainBooks, Stages, Stage, Coordinating, Selected
  <1>2. BlameIsReal
    BY <1>1 DEF BlameIsReal, BlameBooks
  <1>3. ExitStatusHonest
    BY DEF ExitStatusHonest, StatusBooks, BlameBooks
  <1>4. NoInternalAbort
    BY DEF NoInternalAbort, BlameBooks, Waits
  <1> QED
    BY <1>2, <1>3, <1>4 DEF OutcomeHonest

(* ShutdownInv for any number of workers and device threads: one context   *)
(* per shutdown, no barrier between its phases is passed early, and nobody *)
(* is left to touch the controller when destroyGlobalState frees it,       *)
(* however requests, failing loops, device threads, signals, a failed      *)
(* startup and the coordinator interleave.                                 *)
THEOREM ShutdownOrdered == Spec => []ShutdownInv
  <1>1. ShutdownBooks => ShutdownInv
    BY BooksContexts, BooksBarriers, BooksEnd DEF ShutdownInv, ShutdownBooks
  <1> QED
    BY <1>1, BooksOpened, BooksKept, PTL DEF Spec

(* OutcomeHonest likewise: the coordinator never blames a worker whose     *)
(* loop did not fail, the exit status is a code somebody reported, and no  *)
(* abort but that of an expired phase wait can be reached.                 *)
THEOREM OutcomeKept == Spec => []OutcomeHonest
  BY BooksOpened, BooksKept, BooksOutcome, PTL DEF Spec

(* Without timeouts the process never aborts: each of the checks on which  *)
(* the controller, the coordinator and the workers would give up           *)
(* (workerRequestDrain, applicationShutdownBeginFinalizing and the others) *)
(* succeeds.                                                               *)
THEOREM NeverAborts == ~Timeouts => (Spec => [](ended # "abort"))
  <1> SUFFICES ASSUME ~Timeouts PROVE Spec => [](ended # "abort")
    OBVIOUS
  <1>1. ShutdownBooks => ended # "abort"
    BY DEF ShutdownBooks, BlameBooks
  <1> QED
    BY <1>1, BooksOpened, BooksKept, PTL DEF Spec

(* Nothing of a shutdown is taken back: the controller's phase and every   *)
(* worker's lifecycle only advance, and a context that was selected or     *)
(* handed to a worker stays.                                               *)
THEOREM ShutdownAdvances == Spec => [][OnlyForward]_vars
  BY BooksOpened, BooksKept, StepsForward, PTL DEF Spec
=============================================================================
