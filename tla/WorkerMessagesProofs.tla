------------------------ MODULE WorkerMessagesProofs ------------------------
(***************************************************************************)
(* Proofs about WorkerMessages: types, wake-ups and what a closed or       *)
(* quiesced worker no longer does; then the custody of messages:           *)
(* MessageLedger, FirstOut and the delivery contract.                      *)
(***************************************************************************)
EXTENDS WorkerMessages, SequenceTheorems, TLAPS

(* A fresh worker is well typed.                                           *)
LEMMA InitType == Init => TypeOK
  <1> SUFFICES ASSUME Init PROVE TypeOK
    OBVIOUS
  <1>1. QueueType
    <2>1. queued \in Seq(Entries) /\ timed \in SUBSET Msgs
      BY DEF Init
    <2>2. admission \in BOOLEAN /\ attached \in BOOLEAN /\ wakeup_pending \in BOOLEAN
      BY Zenon DEF Init
    <2> QED BY <2>1, <2>2 DEF QueueType
  <1>2. LoopType
    BY DEF Init, LoopType, TimerStates
  <1>3. LocalType
    BY DEF Init, LocalType
  <1>4. LedgerType
    BY DEF Init, LedgerType, Results, Reasons
  <1>5. OwnerType
    BY DEF Init, OwnerType, Initialized, Joined, OwnerStates
  <1>6. RecordType
    BY DEF Init, RecordType, Faults
  <1> QED
    BY <1>1, <1>2, <1>3, <1>4, <1>5, <1>6 DEF TypeOK

(* What an untouched group of variables keeps.                             *)
LEMMA QueueStable == QueueType /\ UNCHANGED queueVars => QueueType'
  BY DEF QueueType, queueVars

(* The same for the loop's variables,                                      *)
LEMMA LoopStable == LoopType /\ UNCHANGED loopVars => LoopType'
  BY DEF LoopType, loopVars

(* for what the owner holds locally,                                       *)
LEMMA LocalStable == LocalType /\ UNCHANGED localVars => LocalType'
  BY DEF LocalType, localVars

(* for its position and lifecycle,                                         *)
LEMMA OwnerStable == OwnerType /\ UNCHANGED <<lifecycle, opc>> => OwnerType'
  BY DEF OwnerType

(* for the history of the messages,                                        *)
LEMMA LedgerStable == LedgerType /\ UNCHANGED ledgerVars => LedgerType'
  BY DEF LedgerType, ledgerVars

(* for records and submitters,                                             *)
LEMMA RecordStable == RecordType /\ UNCHANGED <<records, sub, fault>> => RecordType'
  BY DEF RecordType

(* and for everything but the owner's position.                            *)
LEMMA DataStable ==
    TypeOK /\ UNCHANGED dataVars =>
        QueueType' /\ LoopType' /\ LocalType' /\ LedgerType' /\ RecordType'
  BY QueueStable, LoopStable, LocalStable, LedgerStable, RecordStable
     DEF TypeOK, dataVars

(* Settling, refusing and accepting a message keep the ledger well typed.  *)
LEMMA LedgerRun ==
    ASSUME LedgerType, NEW m \in Msgs, Run(m), result' \in [Msgs -> Results]
    PROVE  LedgerType'
  <1>1. runs[m] + 1 \in Nat
    BY DEF LedgerType
  <1>2. runs' \in [Msgs -> Nat]
    BY <1>1 DEF LedgerType, Run
  <1> QED BY <1>2 DEF LedgerType, Run

(* Running a cleanup keeps the history well typed,                         *)
LEMMA LedgerClean ==
    ASSUME LedgerType, NEW m \in Msgs, NEW why \in Reasons, Clean(m, why),
           result' \in [Msgs -> Results]
    PROVE  LedgerType'
  <1>1. cleanups[m] + 1 \in Nat
    BY DEF LedgerType
  <1>2. cleanups' \in [Msgs -> Nat]
    BY <1>1 DEF LedgerType, Clean
  <1>3. reason' \in [Msgs -> Reasons]
    BY DEF LedgerType, Clean
  <1> QED BY <1>2, <1>3 DEF LedgerType, Clean

(* and so do accepting a message                                           *)
LEMMA LedgerAccept ==
    ASSUME LedgerType, NEW m \in Msgs, Accept(m)
    PROVE  LedgerType'
  BY DEF LedgerType, Accept, Results

(* and refusing one, cleaned or retained.                                  *)
LEMMA LedgerRefuse ==
    ASSUME LedgerType, NEW m \in Msgs, NEW retain \in BOOLEAN,
           NEW why \in Reasons, Refuse(m, retain, why)
    PROVE  LedgerType'
  <1>1. result' \in [Msgs -> Results]
    BY DEF LedgerType, Refuse, Results
  <1>2. CASE retain
    BY <1>1, <1>2 DEF LedgerType, Refuse
  <1>3. CASE ~retain
    BY <1>1, <1>3, LedgerClean DEF Refuse
  <1> QED BY <1>2, <1>3

(* Releasing a record keeps the records well typed, released twice or not. *)
LEMMA ReleaseType ==
    ASSUME RecordType, NEW m \in Msgs, Release(m),
           sub' \in [Submitters -> Submissions \cup {Idle}]
    PROVE  RecordType'
  BY DEF RecordType, Release, Faults

(* Refusing a delayed message gives its record back.                       *)
LEMMA RefuseHeldType ==
    ASSUME LedgerType, RecordType, NEW s \in Submissions,
           NEW why \in Reasons, RefuseHeld(s, why),
           sub' \in [Submitters -> Submissions \cup {Idle}]
    PROVE  LedgerType' /\ RecordType'
  <1>1. s.msg \in Msgs /\ s.delayed \in BOOLEAN /\ s.retain \in BOOLEAN
    BY DEF Submissions
  <1>2. LedgerType'
    BY <1>1, LedgerRefuse DEF RefuseHeld
  <1>3. CASE s.delayed
    BY <1>1, <1>2, <1>3, ReleaseType DEF RefuseHeld
  <1>4. CASE ~s.delayed
    BY <1>2, <1>4 DEF RefuseHeld, RecordType
  <1> QED BY <1>3, <1>4

(* Cancelling a queued entry, which may own a record.                      *)
LEMMA CleanEntryType ==
    ASSUME LedgerType, RecordType, NEW e \in Entries, NEW why \in Reasons,
           CleanEntry(e, why), UNCHANGED <<result, sub>>
    PROVE  LedgerType' /\ RecordType'
  <1>1. e.msg \in Msgs /\ e.setup \in BOOLEAN
    BY DEF Entries
  <1>2. result' \in [Msgs -> Results] /\ sub' \in [Submitters -> Submissions \cup {Idle}]
    BY DEF LedgerType, RecordType
  <1>3. LedgerType'
    BY <1>1, <1>2, LedgerClean DEF CleanEntry
  <1>4. CASE e.setup
    BY <1>1, <1>2, <1>3, <1>4, ReleaseType DEF CleanEntry
  <1>5. CASE ~e.setup
    BY <1>2, <1>3, <1>5 DEF CleanEntry, RecordType
  <1> QED BY <1>4, <1>5

(* A submission between its check and its lock.                            *)
LEMMA HeldSubmission ==
    ASSUME RecordType, NEW p \in Submitters, sub[p] # Idle
    PROVE  /\ sub[p] \in Submissions
           /\ EntryOf(sub[p]) \in Entries
           /\ sub[p].msg \in Msgs
  BY DEF RecordType, Submissions, Entries, EntryOf

(* A submitter that is done is idle.                                       *)
LEMMA SubCleared ==
    ASSUME RecordType, NEW p \in Submitters, sub' = [sub EXCEPT ![p] = Idle]
    PROVE  sub' \in [Submitters -> Submissions \cup {Idle}]
  BY DEF RecordType

(* The cancellation reasons of the code.                                   *)
LEMMA ReasonNames ==
    /\ "AdmissionClosed" \in Reasons
    /\ "EnqueueFailure" \in Reasons
    /\ "TargetUnavailable" \in Reasons
    /\ "Quiesced" \in Reasons
    /\ "Teardown" \in Reasons
  BY DEF Reasons

(* The transaction of a submission.                                        *)
LEMMA TransactType ==
    ASSUME TypeOK, NEW p \in Submitters, Transact(p)
    PROVE  TypeOK'
  <1> USE DEF TypeOK
  <1>0. sub[p] # Idle
    BY DEF Transact, EnqueueRefused, EnqueueCoalesced, EnqueueWoken, EnqueueWakeFailed, Queues
  <1>h. sub[p] \in Submissions /\ EntryOf(sub[p]) \in Entries /\ sub[p].msg \in Msgs
    BY <1>0, HeldSubmission
  <1>s. sub' \in [Submitters -> Submissions \cup {Idle}]
    BY SubCleared DEF Transact, EnqueueRefused, EnqueueCoalesced, EnqueueWoken, EnqueueWakeFailed
  <1>1. CASE EnqueueRefused(p)
    <2>1. LedgerType' /\ RecordType'
      BY <1>1, <1>h, <1>s, RefuseHeldType, ReasonNames DEF EnqueueRefused
    <2> QED
      BY <1>1, <2>1, QueueStable, LoopStable, LocalStable, OwnerStable DEF EnqueueRefused
  <1>2. CASE EnqueueCoalesced(p)
    <2>1. LedgerType'
      BY <1>2, <1>h, LedgerAccept DEF EnqueueCoalesced
    <2>2. QueueType' /\ RecordType'
      BY <1>2, <1>h, <1>s DEF EnqueueCoalesced, Push, QueueType, RecordType
    <2> QED
      BY <1>2, <2>1, <2>2, LoopStable, LocalStable, OwnerStable DEF EnqueueCoalesced
  <1>3. CASE EnqueueWoken(p)
    <2>1. LedgerType'
      BY <1>3, <1>h, LedgerAccept DEF EnqueueWoken
    <2>2. QueueType' /\ RecordType' /\ LoopType'
      BY <1>3, <1>h, <1>s DEF EnqueueWoken, Push, PostWakeup, QueueType, RecordType, LoopType
    <2> QED
      BY <1>3, <2>1, <2>2, LocalStable, OwnerStable DEF EnqueueWoken
  <1>4. CASE EnqueueWakeFailed(p)
    <2>1. LedgerType' /\ RecordType'
      BY <1>4, <1>h, <1>s, RefuseHeldType, ReasonNames DEF EnqueueWakeFailed
    <2> QED
      BY <1>4, <2>1, QueueStable, LoopStable, LocalStable, OwnerStable DEF EnqueueWakeFailed
  <1> QED BY <1>1, <1>2, <1>3, <1>4 DEF Transact


(* The shape of the owner depends on its position, batch and timer only.   *)
LEMMA ShapeStable == OwnerShape /\ UNCHANGED <<opc, batch, cur>> => OwnerShape'
  BY DEF OwnerShape

(* The first entry of a sequence of entries and the rest.                  *)
LEMMA HeadTail ==
    ASSUME NEW s \in Seq(Entries), s # << >>
    PROVE  Head(s) \in Entries /\ Tail(s) \in Seq(Entries)
  OBVIOUS

(* The first, unlocked half of a submission.                               *)
LEMMA SubmitType ==
    ASSUME TypeOK, Submit
    PROVE  TypeOK'
  <1> USE DEF TypeOK
  <1>1. ASSUME NEW p \in Submitters, NEW m \in Msgs, NEW r \in BOOLEAN,
               RejectUndeliverable(p, m, r)
        PROVE  TypeOK'
    <2>1. LedgerType'
      BY <1>1, LedgerRefuse, ReasonNames DEF RejectUndeliverable
    <2> QED
      BY <1>1, <2>1, QueueStable, LoopStable, LocalStable, OwnerStable, RecordStable
         DEF RejectUndeliverable
  <1>2. ASSUME NEW p \in Submitters, NEW m \in Msgs, NEW d \in BOOLEAN,
               NEW r \in BOOLEAN, SubmitCheck(p, m, d, r)
        PROVE  TypeOK'
    <2>1. CASE admission
      <3>1. [msg |-> m, delayed |-> d, retain |-> r] \in Submissions
        BY DEF Submissions
      <3>2. sub' \in [Submitters -> Submissions \cup {Idle}]
        BY <1>2, <2>1, <3>1 DEF SubmitCheck, RecordType
      <3>3. RecordType'
        BY <1>2, <2>1, <3>2 DEF SubmitCheck, RecordType
      <3>4. LedgerType'
        BY <1>2, <2>1 DEF SubmitCheck, LedgerType, Results
      <3> QED
        BY <1>2, <3>3, <3>4, QueueStable, LoopStable, LocalStable, OwnerStable
           DEF SubmitCheck
    <2>2. CASE ~admission
      <3>1. LedgerType'
        BY <1>2, <2>2, LedgerRefuse, ReasonNames DEF SubmitCheck
      <3> QED
        BY <1>2, <2>2, <3>1, QueueStable, LoopStable, LocalStable, OwnerStable, RecordStable
           DEF SubmitCheck
    <2> QED BY <2>1, <2>2
  <1>3. ASSUME NEW m \in Msgs, SendInline(m)
        PROVE  TypeOK'
    <2>1. result' \in [Msgs -> Results]
      BY <1>3 DEF SendInline, LedgerType, Results
    <2>2. LedgerType'
      BY <1>3, <2>1, LedgerRun DEF SendInline
    <2> QED
      BY <1>3, <2>2, QueueStable, LoopStable, LocalStable, OwnerStable, RecordStable
         DEF SendInline
  <1> QED BY <1>1, <1>2, <1>3 DEF Submit

(* Arming a timer links its record.                                        *)
LEMMA ArmType ==
    ASSUME QueueType, LoopType, NEW m \in Msgs, Arm(m),
           UNCHANGED <<admission, attached, queued, wakeup_pending,
                       normalOpen, roots, rearmed>>
    PROVE  QueueType' /\ LoopType'
  BY DEF QueueType, LoopType, Arm, TimerStates

(* The owner arms its own delayed message without the queue.               *)
LEMMA OwnerArmType ==
    ASSUME TypeOK, OwnerArm
    PROVE  TypeOK'
  <1> USE DEF TypeOK
  <1>1. Owner \in Submitters
    BY DEF Submitters
  <1>2. sub[Owner] \in Submissions /\ sub[Owner].msg \in Msgs
    BY <1>1, HeldSubmission DEF OwnerArm
  <1>3. sub' \in [Submitters -> Submissions \cup {Idle}]
    BY <1>1, SubCleared DEF OwnerArm
  <1>4. CASE MayArm
    <2>1. QueueType' /\ LoopType'
      BY <1>2, <1>4, ArmType DEF OwnerArm
    <2>2. LedgerType' /\ RecordType'
      BY <1>2, <1>3, <1>4, LedgerAccept DEF OwnerArm, RecordType
    <2> QED
      BY <2>1, <2>2, LocalStable, OwnerStable DEF OwnerArm
  <1>5. CASE ~MayArm
    <2>1. LedgerType' /\ RecordType'
      BY <1>2, <1>3, <1>5, RefuseHeldType, ReasonNames DEF OwnerArm
    <2>2. QueueType' /\ LoopType'
      BY <1>5 DEF OwnerArm, QueueType, LoopType
    <2> QED
      BY <2>1, <2>2, LocalStable, OwnerStable DEF OwnerArm
  <1> QED BY <1>4, <1>5
(* The owner's drain.                                                      *)
LEMMA DrainType ==
    ASSUME TypeInv, Drain
    PROVE  TypeInv'
  <1> USE DEF TypeInv, TypeOK
  <1>t. Owner \in Submitters
    BY DEF Submitters
  <1>1. CASE RunRoot
    <2>1. QueueType' /\ LoopType' /\ LocalType' /\ LedgerType' /\ RecordType'
      BY <1>1, DataStable DEF RunRoot
    <2>2. OwnerType' /\ OwnerShape'
      BY <1>1 DEF RunRoot, OwnerType, OwnerShape, OwnerStates, dataVars
    <2> QED BY <2>1, <2>2
  <1>2. CASE DrainTake
    <2>1. LoopType' /\ LedgerType' /\ RecordType'
      BY <1>2, LoopStable, LedgerStable, RecordStable DEF DrainTake
    <2>2. QueueType' /\ LocalType'
      <3>1. CASE normalOpen /\ queued # << >>
        <4> DEFINE n == Smaller(BatchSize, Len(queued))
        <4>1. n \in Nat
          BY MessagesAssumption DEF QueueType, Smaller, MessagesAssumption
        <4>2. /\ SubSeq(queued, 1, n) \in Seq(Entries)
              /\ SubSeq(queued, n + 1, Len(queued)) \in Seq(Entries)
          <5>1. n <= Len(queued) /\ Len(queued) \in Nat
            BY MessagesAssumption DEF QueueType, Smaller, MessagesAssumption
          <5> HIDE DEF n
          <5> QED BY <4>1, <5>1 DEF QueueType
        <4>3. /\ batch' = SubSeq(queued, 1, n)
              /\ queued' = SubSeq(queued, n + 1, Len(queued))
              /\ UNCHANGED <<admission, attached, timed, wakeup_pending, cur,
                             taken, takenTimed>>
          BY <1>2, <3>1 DEF DrainTake
        <4> QED BY <4>2, <4>3 DEF QueueType, LocalType
      <3>2. CASE ~(normalOpen /\ queued # << >>)
        <4>1. LocalType'
          BY <1>2, <3>2 DEF DrainTake, LocalType
        <4>2. QueueType'
          BY <1>2, <3>2 DEF DrainTake, QueueType
        <4> QED BY <4>1, <4>2
      <3> QED BY <3>1, <3>2
    <2>3. OwnerType' /\ OwnerShape'
      BY <1>2 DEF DrainTake, OwnerType, OwnerShape, OwnerStates
    <2> QED BY <2>1, <2>2, <2>3
  <1>3. CASE DrainNext
    <2>1. QueueType' /\ LoopType' /\ LocalType' /\ LedgerType' /\ RecordType'
      BY <1>3, DataStable DEF DrainNext
    <2>2. OwnerType' /\ OwnerShape'
      BY <1>3 DEF DrainNext, OwnerType, OwnerShape, OwnerStates, dataVars, localVars
    <2> QED BY <2>1, <2>2
  <1>4. CASE DrainCancel
    <2>1. Head(batch) \in Entries /\ Tail(batch) \in Seq(Entries)
      BY <1>4, HeadTail DEF DrainCancel, LocalType
    <2>2. LedgerType' /\ RecordType'
      BY <1>4, <2>1, CleanEntryType, ReasonNames DEF DrainCancel
    <2>3. LocalType' /\ OwnerType' /\ OwnerShape'
      BY <1>4, <2>1 DEF DrainCancel, LocalType, OwnerType, OwnerShape, OwnerStates
    <2> QED BY <1>4, <2>2, <2>3, QueueStable, LoopStable DEF DrainCancel
  <1>5. CASE DrainStart
    <2>1. Head(batch) \in Entries /\ Tail(batch) \in Seq(Entries)
      BY <1>5, HeadTail DEF DrainStart, LocalType, OwnerShape
    <2>2. Head(batch).msg \in Msgs
      BY <2>1 DEF Entries
    <2>3. LedgerType'
      BY <1>5, <2>2, LedgerRun DEF DrainStart, LedgerType
    <2>4. LocalType' /\ OwnerType' /\ OwnerShape'
      BY <1>5, <2>1 DEF DrainStart, LocalType, OwnerType, OwnerShape, OwnerStates
    <2> QED BY <1>5, <2>3, <2>4, QueueStable, LoopStable, RecordStable DEF DrainStart
  <1>6. CASE DrainSetup
    <2>1. Head(batch) \in Entries /\ Tail(batch) \in Seq(Entries)
      BY <1>6, HeadTail DEF DrainSetup, LocalType, OwnerShape
    <2>2. Head(batch).msg \in Msgs
      BY <2>1 DEF Entries
    <2>3. LocalType' /\ OwnerType' /\ OwnerShape'
      BY <1>6, <2>1 DEF DrainSetup, LocalType, OwnerType, OwnerShape, OwnerStates
    <2>4. CASE MayArm
      <3>1. QueueType' /\ LoopType'
        BY <1>6, <2>2, <2>4, ArmType DEF DrainSetup
      <3>2. LedgerType' /\ RecordType'
        BY <1>6, <2>4 DEF DrainSetup, LedgerType, RecordType
      <3> QED BY <2>3, <3>1, <3>2
    <2>5. CASE ~MayArm
      <3>1. LedgerType' /\ RecordType'
        BY <1>6, <2>1, <2>5, CleanEntryType, ReasonNames DEF DrainSetup
      <3>2. QueueType' /\ LoopType'
        BY <1>6, <2>5 DEF DrainSetup, QueueType, LoopType
      <3> QED BY <2>3, <3>1, <3>2
    <2> QED BY <2>4, <2>5
  <1>7. CASE DrainReturn
    <2>1. QueueType' /\ LoopType' /\ LocalType' /\ LedgerType' /\ RecordType'
      BY <1>7, DataStable DEF DrainReturn
    <2>2. OwnerType' /\ OwnerShape'
      BY <1>7 DEF DrainReturn, OwnerType, OwnerShape, OwnerStates
    <2> QED BY <2>1, <2>2
  <1>8. CASE DrainStop
    <2>1. QueueType'
      BY <1>8 DEF DrainStop, QueueType
    <2>2. OwnerType' /\ OwnerShape'
      BY <1>8 DEF DrainStop, OwnerType, OwnerShape, OwnerStates
    <2> QED
      BY <1>8, <2>1, <2>2, LoopStable, LocalStable, LedgerStable, RecordStable
         DEF DrainStop
  <1>9. CASE DrainSuccessor
    <2>1. LoopType'
      BY <1>9 DEF DrainSuccessor, PostWakeup, LoopType
    <2>2. OwnerType' /\ OwnerShape'
      BY <1>9 DEF DrainSuccessor, OwnerType, OwnerShape, OwnerStates
    <2> QED
      BY <1>9, <2>1, <2>2, QueueStable, LocalStable, LedgerStable, RecordStable
         DEF DrainSuccessor
  <1>10. CASE DrainFallback
    <2>1. QueueType' /\ LoopType' /\ LocalType' /\ LedgerType' /\ RecordType'
      BY <1>10, DataStable DEF DrainFallback
    <2>2. OwnerType' /\ OwnerShape'
      BY <1>10 DEF DrainFallback, OwnerType, OwnerShape, OwnerStates
    <2> QED BY <2>1, <2>2
  <1> QED
    BY <1>1, <1>2, <1>3, <1>4, <1>5, <1>6, <1>7, <1>8, <1>9, <1>10 DEF Drain
(* The loop's roots, callbacks and timers.                                 *)
LEMMA LoopStepType ==
    ASSUME TypeInv,
           \/ PopRoot \/ IoCallback \/ IoReturn
           \/ \E m \in Msgs : TimerExpire(m) \/ TimerDispatch(m)
    PROVE  TypeInv'
  <1> USE DEF TypeInv, TypeOK
  <1>1. CASE PopRoot
    <2>1. LoopType'
      BY <1>1 DEF PopRoot, RootQueued, LoopType
    <2>2. OwnerType' /\ OwnerShape'
      BY <1>1 DEF PopRoot, OwnerType, OwnerShape, OwnerStates
    <2> QED
      BY <1>1, <2>1, <2>2, QueueStable, LocalStable, LedgerStable, RecordStable
         DEF PopRoot
  <1>2. CASE IoCallback \/ IoReturn
    <2>1. QueueType' /\ LoopType' /\ LocalType' /\ LedgerType' /\ RecordType'
      BY <1>2, DataStable DEF IoCallback, IoReturn
    <2>2. OwnerType' /\ OwnerShape'
      BY <1>2 DEF IoCallback, IoReturn, OwnerType, OwnerShape, OwnerStates
    <2> QED BY <2>1, <2>2
  <1>3. ASSUME NEW m \in Msgs, TimerExpire(m)
        PROVE  TypeInv'
    <2>1. LoopType'
      BY <1>3 DEF TimerExpire, LoopType, TimerStates
    <2>2. OwnerType' /\ OwnerShape'
      BY <1>3, ShapeStable, OwnerStable DEF TimerExpire, localVars
    <2> QED
      BY <1>3, <2>1, <2>2, QueueStable, LocalStable, LedgerStable, RecordStable
         DEF TimerExpire
  <1>4. ASSUME NEW m \in Msgs, TimerDispatch(m)
        PROVE  TypeInv'
    <2>1. QueueType' /\ LedgerType'
      BY <1>4, QueueStable, LedgerStable DEF TimerDispatch
    <2>2. LoopType'
      BY <1>4 DEF TimerDispatch, LoopType, TimerStates
    <2>3. LocalType' /\ OwnerType' /\ OwnerShape'
      BY <1>4 DEF TimerDispatch, LocalType, OwnerType, OwnerShape, OwnerStates
    <2>4. RecordType'
      BY <1>4 DEF TimerDispatch, RecordType, Faults
    <2> QED BY <2>1, <2>2, <2>3, <2>4
  <1> QED BY <1>1, <1>2, <1>3, <1>4

(* runTimedTask.                                                           *)
LEMMA RunTimedType ==
    ASSUME TypeInv, RunTimed
    PROVE  TypeInv'
  <1> USE DEF TypeInv, TypeOK
  <1>0. cur \in Msgs
    BY DEF RunTimed, TimerReset, TimerResetRefused, TimerDue, TimerRun,
           TimerCancelled, TimerReturn, OwnerShape
  <1>1. CASE TimerReset
    <2>1. LoopType'
      BY <1>0, <1>1 DEF TimerReset, LoopType, TimerStates
    <2>2. LocalType' /\ OwnerType' /\ OwnerShape'
      BY <1>1 DEF TimerReset, LocalType, OwnerType, OwnerShape, OwnerStates
    <2> QED
      BY <1>1, <2>1, <2>2, QueueStable, LedgerStable, RecordStable DEF TimerReset
  <1>2. CASE TimerResetRefused
    <2>1. LoopType' /\ QueueType'
      BY <1>0, <1>2
         DEF TimerResetRefused, DeleteTimer, Unlink, LoopType, QueueType, TimerStates
    <2>2. LocalType' /\ OwnerType' /\ OwnerShape'
      BY <1>2 DEF TimerResetRefused, LocalType, OwnerType, OwnerShape, OwnerStates
    <2>3. result' \in [Msgs -> Results]
      BY <1>2 DEF TimerResetRefused, LedgerType
    <2>4. LedgerType'
      BY <1>0, <1>2, <2>3, LedgerClean, ReasonNames DEF TimerResetRefused
    <2>5. RecordType'
      BY <1>2 DEF TimerResetRefused, RecordType, Faults
    <2> QED BY <2>1, <2>2, <2>4, <2>5
  <1>3. CASE TimerDue
    <2>1. QueueType'
      BY <1>3 DEF TimerDue, Unlink, QueueType
    <2>2. OwnerType' /\ OwnerShape'
      BY <1>0, <1>3 DEF TimerDue, OwnerType, OwnerShape, OwnerStates, localVars
    <2>3. RecordType'
      BY <1>3 DEF TimerDue, RecordType, Faults
    <2> QED
      BY <1>3, <2>1, <2>2, <2>3, LoopStable, LocalStable, LedgerStable DEF TimerDue
  <1>4. CASE TimerRun
    <2>1. result' \in [Msgs -> Results]
      BY <1>4 DEF TimerRun, LedgerType
    <2>2. LedgerType'
      BY <1>0, <1>4, <2>1, LedgerRun DEF TimerRun
    <2>3. OwnerType' /\ OwnerShape'
      BY <1>0, <1>4 DEF TimerRun, OwnerType, OwnerShape, OwnerStates, localVars
    <2> QED
      BY <1>4, <2>2, <2>3, QueueStable, LoopStable, LocalStable, RecordStable DEF TimerRun
  <1>5. CASE TimerCancelled
    <2>1. LoopType'
      BY <1>0, <1>5 DEF TimerCancelled, DeleteTimer, LoopType, TimerStates
    <2>2. LocalType' /\ OwnerType' /\ OwnerShape'
      BY <1>5 DEF TimerCancelled, LocalType, OwnerType, OwnerShape, OwnerStates
    <2>3. result' \in [Msgs -> Results] /\ sub' \in [Submitters -> Submissions \cup {Idle}]
      BY <1>5 DEF TimerCancelled, LedgerType, RecordType
    <2>4. LedgerType'
      BY <1>0, <1>5, <2>3, LedgerClean, ReasonNames DEF TimerCancelled
    <2>5. RecordType'
      BY <1>0, <1>5, <2>3, ReleaseType DEF TimerCancelled
    <2> QED BY <1>5, <2>1, <2>2, <2>4, <2>5, QueueStable DEF TimerCancelled
  <1>6. CASE TimerReturn
    <2>1. LoopType'
      BY <1>0, <1>6 DEF TimerReturn, DeleteTimer, LoopType, TimerStates
    <2>2. LocalType' /\ OwnerType' /\ OwnerShape'
      BY <1>6 DEF TimerReturn, LocalType, OwnerType, OwnerShape, OwnerStates
    <2>3. sub' \in [Submitters -> Submissions \cup {Idle}]
      BY <1>6 DEF TimerReturn, RecordType
    <2>4. RecordType'
      BY <1>0, <1>6, <2>3, ReleaseType DEF TimerReturn
    <2> QED BY <1>6, <2>1, <2>2, <2>4, QueueStable, LedgerStable DEF TimerReturn
  <1> QED BY <1>1, <1>2, <1>3, <1>4, <1>5, <1>6 DEF RunTimed

(* The lifecycle only takes its own values.                                *)
LEMMA Lifecycles ==
    /\ Initialized = 0 /\ Running = 1 /\ QuiesceRequested = 2
    /\ Quiesced = 3 /\ DrainRequested = 4 /\ Drained = 5
    /\ TeardownRequested = 6 /\ Exited = 7 /\ Joined = 8
  BY DEF Initialized, Running, QuiesceRequested, Quiesced, DrainRequested,
         Drained, TeardownRequested, Exited, Joined

(* A published lifecycle is one of the phases.                             *)
LEMMA PublishType ==
    ASSUME OwnerType, NEW l \in Initialized .. Joined, Publish(l)
    PROVE  lifecycle' \in Initialized .. Joined
  BY DEF OwnerType, Publish

(* Taking everything that is pending for cancellation.                     *)
LEMMA TakeType ==
    ASSUME QueueType, LocalType, TakePending,
           admission' \in BOOLEAN, attached' \in BOOLEAN, UNCHANGED <<batch, cur>>
    PROVE  QueueType' /\ LocalType'
  <1>1. wakeup_pending' \in BOOLEAN
    BY Zenon DEF TakePending
  <1>2. queued' \in Seq(Entries) /\ timed' \in SUBSET Msgs
    BY DEF TakePending
  <1>3. LocalType'
    BY DEF TakePending, QueueType, LocalType
  <1> QED BY <1>1, <1>2, <1>3 DEF QueueType

(* Cancelling one of the messages taken.                                   *)
LEMMA CleanTakenType ==
    ASSUME TypeOK, NEW why \in Reasons, CleanTaken(why),
           UNCHANGED <<queueVars, normalOpen, roots, rearmed, batch, cur,
                       result, sub>>
    PROVE  QueueType' /\ LoopType' /\ LocalType' /\ LedgerType' /\ RecordType'
  <1> USE DEF TypeOK
  <1>1. QueueType'
    BY QueueStable
  <1>2. result' \in [Msgs -> Results] /\ sub' \in [Submitters -> Submissions \cup {Idle}]
    BY DEF LedgerType, RecordType
  <1>3. CASE taken # << >> /\ CleanEntry(Head(taken), why) /\ taken' = Tail(taken)
             /\ UNCHANGED <<takenTimed, timer>>
    <2>1. Head(taken) \in Entries /\ Tail(taken) \in Seq(Entries)
      BY <1>3, HeadTail DEF LocalType
    <2>2. LedgerType' /\ RecordType'
      BY <1>3, <2>1, CleanEntryType
    <2>3. LoopType' /\ LocalType'
      BY <1>3, <2>1 DEF LoopType, LocalType
    <2> QED BY <1>1, <2>2, <2>3
  <1>4. ASSUME NEW m \in takenTimed, Clean(m, why), Release(m),
               takenTimed' = takenTimed \ {m}, DeleteTimer(m), UNCHANGED taken
        PROVE  LoopType' /\ LocalType' /\ LedgerType' /\ RecordType'
    <2>1. m \in Msgs
      BY <1>4 DEF LocalType
    <2>2. LedgerType'
      BY <1>2, <1>4, <2>1, LedgerClean
    <2>3. RecordType'
      BY <1>2, <1>4, <2>1, ReleaseType
    <2>4. LoopType' /\ LocalType'
      BY <1>4, <2>1 DEF LoopType, LocalType, DeleteTimer, TimerStates
    <2> QED BY <2>2, <2>3, <2>4
  <1> QED BY <1>1, <1>3, <1>4 DEF CleanTaken
(* Startup and shutdown of the worker.                                     *)
LEMMA LifecycleType ==
    ASSUME TypeInv, StartThread \/ EnterLoop \/ LoopFails \/ WindDown \/ Control
    PROVE  TypeInv'
  <1> USE DEF TypeInv, TypeOK
  <1>1. CASE StartThread \/ EnterLoop \/ Spawn \/ ExitLoop \/ RequestDrain
             \/ PerformDrain \/ RequestTeardown \/ Join
    <2>1. UNCHANGED dataVars
      BY <1>1, Zenon DEF StartThread, EnterLoop, Spawn, ExitLoop, RequestDrain,
           PerformDrain, RequestTeardown, Join
    <2>2. QueueType' /\ LoopType' /\ LocalType' /\ LedgerType' /\ RecordType'
      BY <2>1, DataStable
    <2>3. OwnerType'
      BY <1>1, Lifecycles
         DEF StartThread, EnterLoop, Spawn, ExitLoop, RequestDrain, PerformDrain,
             RequestTeardown, RequestPhase, Join, Publish, OwnerType, OwnerStates
    <2>4. UNCHANGED <<batch, cur>>
      BY <2>1 DEF dataVars, localVars
    <2>5. OwnerShape'
      BY <1>1, <2>4
         DEF StartThread, EnterLoop, Spawn, ExitLoop, RequestDrain, PerformDrain,
             RequestTeardown, Join, OwnerShape
    <2> QED BY <2>2, <2>3, <2>5
  <1>2. CASE LoopFails
    <2>1. QueueType'
      <3>1. admission' \in BOOLEAN
        BY <1>2, Zenon DEF LoopFails, CloseBoth
      <3> QED BY <1>2, <3>1 DEF LoopFails, QueueType
    <2>2. LoopType'
      <3>1. normalOpen' \in BOOLEAN
        BY <1>2, Zenon DEF LoopFails, CloseBoth
      <3> QED BY <1>2, <3>1 DEF LoopFails, LoopType
    <2>3. OwnerType' /\ OwnerShape'
      BY <1>2, Lifecycles
         DEF LoopFails, CloseBoth, Publish, OwnerType, OwnerShape, OwnerStates
    <2> QED
      BY <1>2, <2>1, <2>2, <2>3, LocalStable, LedgerStable, RecordStable DEF LoopFails
  <1>3. CASE RequestQuiesce
    <2>1. QueueType'
      <3>1. admission' \in BOOLEAN
        BY <1>3, Zenon DEF RequestQuiesce, CloseBoth
      <3> QED BY <1>3, <3>1 DEF RequestQuiesce, QueueType
    <2>2. LoopType'
      <3>1. normalOpen' \in BOOLEAN
        BY <1>3, Zenon DEF RequestQuiesce, CloseBoth
      <3> QED BY <1>3, <3>1 DEF RequestQuiesce, LoopType
    <2>3. OwnerType' /\ OwnerShape'
      BY <1>3, Lifecycles, ShapeStable
         DEF RequestQuiesce, CloseBoth, Publish, OwnerType, OwnerStates, localVars
    <2> QED
      BY <1>3, <2>1, <2>2, <2>3, LocalStable, LedgerStable, RecordStable DEF RequestQuiesce
  <1>4. CASE OpenAdmission
    <2>1. QueueType'
      <3>1. admission' \in BOOLEAN
        BY <1>4, Zenon DEF OpenAdmission
      <3> QED BY <1>4, <3>1 DEF OpenAdmission, QueueType
    <2>2. OwnerType' /\ OwnerShape'
      BY <1>4, OwnerStable, ShapeStable DEF OpenAdmission, localVars
    <2> QED
      BY <1>4, <2>1, <2>2, LoopStable, LocalStable, LedgerStable, RecordStable
         DEF OpenAdmission
  <1>5. CASE QuiesceTake
    <2>1. admission' \in BOOLEAN /\ attached' \in BOOLEAN
      BY <1>5 DEF QuiesceTake, QueueType
    <2>2. QueueType' /\ LocalType'
      BY <1>5, <2>1, TakeType DEF QuiesceTake
    <2>3. OwnerType' /\ OwnerShape'
      BY <1>5 DEF QuiesceTake, OwnerType, OwnerShape, OwnerStates
    <2> QED
      BY <1>5, <2>2, <2>3, LoopStable, LedgerStable, RecordStable DEF QuiesceTake
  <1>6. CASE QuiesceClean
    <2>1. QueueType' /\ LoopType' /\ LocalType' /\ LedgerType' /\ RecordType'
      BY <1>6, CleanTakenType, ReasonNames DEF QuiesceClean
    <2> QED BY <1>6, <2>1, OwnerStable, ShapeStable DEF QuiesceClean
  <1>7. CASE DestroyClean
    <2>1. QueueType' /\ LoopType' /\ LocalType' /\ LedgerType' /\ RecordType'
      BY <1>7, CleanTakenType, ReasonNames DEF DestroyClean
    <2> QED BY <1>7, <2>1, OwnerStable, ShapeStable DEF DestroyClean
  <1>8. CASE QuiesceLoop
    <2>1. LoopType'
      BY <1>8 DEF QuiesceLoop, LoopType, TimerStates
    <2>2. OwnerType' /\ OwnerShape'
      BY <1>8, Lifecycles DEF QuiesceLoop, Publish, OwnerType, OwnerShape, OwnerStates
    <2> QED
      BY <1>8, <2>1, <2>2, QueueStable, LocalStable, LedgerStable, RecordStable
         DEF QuiesceLoop
  <1>9. CASE PerformTeardown \/ DestroyUnstarted
    <2>0. Detach
      BY <1>9 DEF PerformTeardown, DestroyUnstarted
    <2>1. admission' \in BOOLEAN /\ attached' \in BOOLEAN
      BY <2>0, Zenon DEF Detach
    <2>2. QueueType' /\ LocalType'
      BY <2>0, <2>1, TakeType DEF Detach
    <2>3. OwnerType' /\ OwnerShape'
      BY <2>0 DEF Detach, OwnerType, OwnerShape, OwnerStates
    <2> QED
      BY <2>0, <2>2, <2>3, LoopStable, LedgerStable, RecordStable DEF Detach
  <1>10. CASE DestroyDone
    <2>1. LoopType'
      BY <1>10 DEF DestroyDone, LoopType, TimerStates
    <2>2. OwnerType' /\ OwnerShape'
      BY <1>10, Lifecycles DEF DestroyDone, Publish, OwnerType, OwnerShape, OwnerStates
    <2> QED
      BY <1>10, <2>1, <2>2, QueueStable, LocalStable, LedgerStable, RecordStable
         DEF DestroyDone
  <1> QED
    BY <1>1, <1>2, <1>3, <1>4, <1>5, <1>6, <1>7, <1>8, <1>9, <1>10 DEF WindDown, Control

(* TypeInv is inductive.                                                   *)
LEMMA TypeStep == TypeInv /\ [Next]_vars => TypeInv'
  <1> SUFFICES ASSUME TypeInv, [Next]_vars PROVE TypeInv'
    OBVIOUS
  <1>1. CASE UNCHANGED vars
    <2>1. QueueType' /\ LoopType' /\ LocalType' /\ LedgerType' /\ RecordType'
      BY <1>1, DataStable DEF vars, TypeInv
    <2> QED
      BY <1>1, <2>1, OwnerStable, ShapeStable
         DEF TypeInv, TypeOK, vars, dataVars, localVars
  <1>2. CASE Submit
    <2>1. UNCHANGED <<opc, batch, cur>>
      BY <1>2 DEF Submit, RejectUndeliverable, SubmitCheck, SendInline, localVars
    <2> QED BY <1>2, <2>1, SubmitType, ShapeStable DEF TypeInv
  <1>3. ASSUME NEW p \in Submitters, Transact(p) PROVE TypeInv'
    <2>1. UNCHANGED <<opc, batch, cur>>
      BY <1>3 DEF Transact, EnqueueRefused, EnqueueCoalesced, EnqueueWoken,
                  EnqueueWakeFailed, localVars
    <2> QED BY <1>3, <2>1, TransactType, ShapeStable DEF TypeInv
  <1>4. CASE OwnerArm
    <2>1. UNCHANGED <<opc, batch, cur>>
      BY <1>4 DEF OwnerArm, localVars
    <2> QED BY <1>4, <2>1, OwnerArmType, ShapeStable DEF TypeInv
  <1>5. CASE PopRoot \/ IoCallback \/ IoReturn
             \/ \E m \in Msgs : TimerExpire(m) \/ TimerDispatch(m)
    BY <1>5, LoopStepType
  <1>6. CASE Drain
    BY <1>6, DrainType
  <1>7. CASE RunTimed
    BY <1>7, RunTimedType
  <1>8. CASE StartThread \/ EnterLoop \/ LoopFails \/ WindDown \/ Control
    BY <1>8, LifecycleType
  <1>9. CASE Terminated
    BY <1>1, <1>9 DEF Terminated
  <1> QED
    BY <1>1, <1>2, <1>3, <1>4, <1>5, <1>6, <1>7, <1>8, <1>9 DEF Next

(* In every state the worker's queue, its loop, its owner thread and its   *)
(* submitters have their types, for any number of messages and producers,  *)
(* any batch size and any queue bound.                                     *)
THEOREM MessagesTyped == Spec => []TypeOK
  <1>1. Init => TypeInv
    BY InitType DEF TypeInv, OwnerShape, Init
  <1>2. Spec => []TypeInv
    BY <1>1, TypeStep, PTL DEF Spec
  <1>3. TypeInv => TypeOK
    BY DEF TypeInv
  <1> QED BY <1>2, <1>3, PTL
-----------------------------------------------------------------------------
(* The drain-root protocol.                                                *)

wakeVars == <<normalOpen, attached, queued, wakeup_pending, roots, opc, lifecycle>>

(* The drain-root protocol depends on wakeVars only.                       *)
LEMMA WakeStable == WakeInv /\ UNCHANGED wakeVars => WakeInv'
  BY DEF WakeInv, WakeCovered, SingleDrain, ActiveRoots, Draining, OwnerPhase, wakeVars

(* A step of the owner that leaves the queue, the roots and the lifecycle  *)
(* alone and neither enters nor leaves the drain.                          *)
LEMMA WakeMove ==
    ASSUME WakeInv, roots \in Nat,
           UNCHANGED <<normalOpen, attached, queued, wakeup_pending, roots, lifecycle>>,
           Draining <=> Draining', OwnerPhase'
    PROVE  WakeInv'
  BY DEF WakeInv, WakeCovered, SingleDrain, ActiveRoots

(* A push keeps the drain-root protocol: it finds the flag set or posts a  *)
(* root.                                                                   *)
LEMMA WakeTransact ==
    ASSUME TypeInv, WakeInv, NEW p \in Submitters, Transact(p)
    PROVE  WakeInv'
  <1>1. CASE EnqueueRefused(p) \/ EnqueueWakeFailed(p)
    BY <1>1, WakeStable
       DEF EnqueueRefused, EnqueueWakeFailed, wakeVars, queueVars, loopVars
  <1>2. CASE EnqueueCoalesced(p)
    BY <1>2
       DEF EnqueueCoalesced, loopVars, WakeInv, WakeCovered, SingleDrain, ActiveRoots,
           Draining, OwnerPhase
  <1>3. CASE EnqueueWoken(p)
    <2>1. roots \in Nat
      BY DEF TypeInv, TypeOK, LoopType
    <2>2. attached /\ normalOpen /\ ~wakeup_pending
      BY <1>3 DEF EnqueueWoken, CanPush
    <2>3. ActiveRoots = 0
      BY <2>1, <2>2 DEF WakeInv, WakeCovered, SingleDrain, ActiveRoots
    <2>4. ActiveRoots' = 1
      BY <1>3, <2>1, <2>3 DEF ActiveRoots, EnqueueWoken, PostWakeup, Draining
    <2>5. wakeup_pending' = TRUE /\ UNCHANGED <<normalOpen, attached, opc, lifecycle>>
      BY <1>3 DEF EnqueueWoken
    <2> QED BY <2>4, <2>5 DEF WakeInv, WakeCovered, SingleDrain, OwnerPhase
  <1> QED BY <1>1, <1>2, <1>3 DEF Transact

(* The drain keeps it: it leaves a successor, clears the flag on an empty  *)
(* queue, or goes on.                                                      *)
LEMMA WakeDrain ==
    ASSUME TypeInv, WakeInv, Drain
    PROVE  WakeInv'
  <1>0. roots \in Nat
    BY DEF TypeInv, TypeOK, LoopType
  <1>d. Draining
    BY DEF Draining, Drain, RunRoot, DrainTake, DrainNext, DrainCancel, DrainStart,
           DrainSetup, DrainReturn, DrainStop, DrainSuccessor, DrainFallback
  <1>r. roots = 0
    BY <1>0, <1>d DEF WakeInv, SingleDrain, ActiveRoots
  <1>p. OwnerPhase'
    BY DEF Drain, RunRoot, DrainTake, DrainNext, DrainCancel, DrainStart, DrainSetup,
           DrainReturn, DrainStop, DrainSuccessor, DrainFallback, WakeInv, OwnerPhase,
           dataVars, queueVars, loopVars
  <1>1. CASE RunRoot
    BY <1>0, <1>r, <1>p, <1>1
       DEF RunRoot, dataVars, queueVars, loopVars, WakeInv, WakeCovered, SingleDrain,
           ActiveRoots, Draining
  <1>2. CASE DrainTake
    <2>1. CASE normalOpen /\ queued # << >>
      <3>1. UNCHANGED <<normalOpen, attached, wakeup_pending, roots>> /\ opc' = "next"
        BY <1>2, <2>1 DEF DrainTake, loopVars
      <3>2. Draining' /\ ActiveRoots' = ActiveRoots
        BY <3>1, <1>d DEF Draining, ActiveRoots
      <3>3. wakeup_pending \/ ~attached
        BY <2>1 DEF WakeInv, WakeCovered
      <3> QED BY <2>1, <3>1, <3>2, <3>3, <1>p DEF WakeInv, WakeCovered, SingleDrain
    <2>2. CASE ~(normalOpen /\ queued # << >>)
      <3>1. /\ UNCHANGED <<normalOpen, attached, queued, roots>>
            /\ opc' = "poll" /\ wakeup_pending' = FALSE
        BY <1>2, <2>2 DEF DrainTake, loopVars
      <3>2. ActiveRoots' = 0
        BY <3>1, <1>r DEF Draining, ActiveRoots
      <3> QED BY <2>2, <3>1, <3>2, <1>p DEF WakeInv, WakeCovered, SingleDrain
    <2> QED BY <2>1, <2>2
  <1>3. CASE DrainNext \/ DrainCancel \/ DrainStart \/ DrainSetup \/ DrainReturn
             \/ DrainFallback
    <2>1. Draining'
      BY <1>3 DEF Draining, DrainNext, DrainCancel, DrainStart, DrainSetup, DrainReturn,
                  DrainFallback
    <2>2. UNCHANGED <<normalOpen, attached, queued, wakeup_pending, roots, lifecycle>>
      BY <1>3 DEF DrainNext, DrainCancel, DrainStart, DrainSetup, DrainReturn,
                  DrainFallback, dataVars, queueVars, loopVars
    <2> QED BY <1>0, <1>d, <1>p, <2>1, <2>2, WakeMove
  <1>4. CASE DrainStop
    <2>1. /\ UNCHANGED <<normalOpen, attached, queued, roots>>
          /\ opc' = "poll" /\ wakeup_pending' = FALSE
          /\ queued = << >> \/ ~normalOpen
      BY <1>4 DEF DrainStop, loopVars
    <2>2. ActiveRoots' = 0
      BY <2>1, <1>r DEF Draining, ActiveRoots
    <2> QED BY <2>1, <2>2, <1>p DEF WakeInv, WakeCovered, SingleDrain
  <1>5. CASE DrainSuccessor
    <2>1. /\ UNCHANGED <<normalOpen, attached, queued, wakeup_pending>>
          /\ opc' = "poll" /\ roots' = roots + 1 /\ queued # << >> /\ normalOpen
      BY <1>5 DEF DrainSuccessor, PostWakeup, queueVars
    <2>2. ActiveRoots' = 1
      BY <2>1, <1>r DEF Draining, ActiveRoots
    <2>3. wakeup_pending \/ ~attached
      BY <2>1 DEF WakeInv, WakeCovered
    <2> QED BY <2>1, <2>2, <2>3, <1>p DEF WakeInv, WakeCovered, SingleDrain
  <1> QED BY <1>1, <1>2, <1>3, <1>4, <1>5 DEF Drain

(* The rest of the loop keeps it: popping a root makes its drain the       *)
(* active one.                                                             *)
LEMMA WakeLoop ==
    ASSUME TypeInv, WakeInv,
           \/ PopRoot \/ IoCallback \/ IoReturn \/ RunTimed
           \/ \E m \in Msgs : TimerExpire(m) \/ TimerDispatch(m)
    PROVE  WakeInv'
  <1>0. roots \in Nat
    BY DEF TypeInv, TypeOK, LoopType
  <1>1. CASE PopRoot
    <2>1. /\ UNCHANGED <<normalOpen, attached, queued, wakeup_pending, lifecycle>>
          /\ opc = "poll" /\ opc' = "popped" /\ roots' = roots - 1
      BY <1>1 DEF PopRoot, queueVars
    <2>2. ActiveRoots' = ActiveRoots
      BY <1>0, <2>1 DEF ActiveRoots, Draining
    <2>3. OwnerPhase'
      BY <2>1 DEF WakeInv, OwnerPhase
    <2> QED BY <2>1, <2>2, <2>3 DEF WakeInv, WakeCovered, SingleDrain
  <1>2. CASE IoCallback \/ IoReturn \/ RunTimed
             \/ \E m \in Msgs : TimerExpire(m) \/ TimerDispatch(m)
    <2>1. UNCHANGED <<normalOpen, attached, queued, wakeup_pending, roots, lifecycle>>
      BY <1>2 DEF IoCallback, IoReturn, RunTimed, TimerReset, TimerResetRefused, TimerDue,
                  TimerRun, TimerCancelled, TimerReturn, TimerExpire, TimerDispatch,
                  dataVars, queueVars, loopVars
    <2>2. ~Draining /\ ~Draining' /\ OwnerPhase'
      BY <1>2, <2>1
         DEF IoCallback, IoReturn, RunTimed, TimerReset, TimerResetRefused, TimerDue,
             TimerRun, TimerCancelled, TimerReturn, TimerExpire, TimerDispatch,
             Draining, WakeInv, OwnerPhase
    <2> QED BY <1>0, <2>1, <2>2, WakeMove
  <1> QED BY <1>1, <1>2

(* Starting, quiescing and tearing down keep it: roots are dropped on a    *)
(* closed loop only.                                                       *)
LEMMA WakeLifecycle ==
    ASSUME TypeInv, WakeInv, StartThread \/ EnterLoop \/ LoopFails \/ WindDown \/ Control
    PROVE  WakeInv'
  <1>0. roots \in Nat /\ lifecycle \in 0 .. 8
    BY Lifecycles DEF TypeInv, TypeOK, LoopType, OwnerType
  <1>1. CASE QuiesceClean \/ DestroyClean \/ OpenAdmission
    BY <1>1, WakeStable
       DEF QuiesceClean, DestroyClean, OpenAdmission, wakeVars, queueVars, loopVars
  <1>2. CASE StartThread \/ EnterLoop \/ Spawn \/ ExitLoop \/ RequestDrain
             \/ PerformDrain \/ RequestTeardown \/ Join
    <2>1. UNCHANGED <<normalOpen, attached, queued, wakeup_pending, roots>>
      BY <1>2 DEF StartThread, EnterLoop, Spawn, ExitLoop, RequestDrain, PerformDrain,
                  RequestTeardown, Join, dataVars, queueVars, loopVars
    <2>2. Draining <=> Draining'
      BY <1>2 DEF StartThread, EnterLoop, Spawn, ExitLoop, RequestDrain, PerformDrain,
                  RequestTeardown, Join, Draining
    <2>3. OwnerPhase'
      BY <1>0, <1>2, <2>1, Lifecycles
         DEF StartThread, EnterLoop, Spawn, ExitLoop, RequestDrain, PerformDrain,
             RequestTeardown, RequestPhase, Join, Publish, WakeInv, OwnerPhase
    <2> QED BY <1>0, <2>1, <2>2, <2>3 DEF WakeInv, WakeCovered, SingleDrain, ActiveRoots
  <1>3. CASE LoopFails \/ RequestQuiesce
    <2>1. normalOpen' = FALSE /\ UNCHANGED <<attached, roots>>
      BY <1>3 DEF LoopFails, RequestQuiesce, CloseBoth
    <2>2. Draining <=> Draining'
      BY <1>3 DEF LoopFails, RequestQuiesce, Draining
    <2>3. OwnerPhase'
      BY <1>0, <1>3, <2>1, Lifecycles
         DEF LoopFails, RequestQuiesce, CloseBoth, Publish, WakeInv, OwnerPhase
    <2> QED BY <1>0, <2>1, <2>2, <2>3 DEF WakeInv, WakeCovered, SingleDrain, ActiveRoots
  <1>4. CASE QuiesceTake
    <2>1. UNCHANGED <<normalOpen, attached, roots, lifecycle>>
          /\ opc = "quiesce" /\ opc' = "clean"
      BY <1>4 DEF QuiesceTake, loopVars
    <2>2. ~normalOpen
      BY <2>1 DEF WakeInv, OwnerPhase
    <2> QED
      BY <1>0, <2>1, <2>2
         DEF WakeInv, WakeCovered, SingleDrain, ActiveRoots, Draining, OwnerPhase
  <1>5. CASE QuiesceLoop
    <2>1. /\ UNCHANGED <<normalOpen, attached>> /\ Publish(Quiesced)
          /\ opc = "clean" /\ opc' = "quiesced" /\ roots' = 0
      BY <1>5 DEF QuiesceLoop, queueVars
    <2>2. ~normalOpen /\ attached
      BY <2>1 DEF WakeInv, OwnerPhase
    <2> QED
      BY <2>1, <2>2
         DEF WakeInv, WakeCovered, SingleDrain, ActiveRoots, Draining, OwnerPhase
  <1>6. CASE PerformTeardown \/ DestroyUnstarted
    <2>1. attached' = FALSE /\ UNCHANGED <<roots, lifecycle, normalOpen>> /\ opc' = "destroy"
      BY <1>6 DEF PerformTeardown, DestroyUnstarted, Detach, loopVars
    <2>2. ~Draining
      BY <1>6 DEF PerformTeardown, DestroyUnstarted, Draining
    <2> QED
      BY <1>0, <2>1, <2>2
         DEF WakeInv, WakeCovered, SingleDrain, ActiveRoots, Draining, OwnerPhase
  <1>7. CASE DestroyDone
    <2>1. /\ UNCHANGED <<normalOpen, attached>>
          /\ opc = "destroy" /\ opc' = "gone" /\ roots' = 0
      BY <1>7 DEF DestroyDone, queueVars
    <2>2. ~attached
      BY <2>1 DEF WakeInv, OwnerPhase
    <2> QED
      BY <2>1, <2>2
         DEF WakeInv, WakeCovered, SingleDrain, ActiveRoots, Draining, OwnerPhase
  <1> QED
    BY <1>1, <1>2, <1>3, <1>4, <1>5, <1>6, <1>7 DEF WindDown, Control

(* WakeInv is inductive, given the types.                                  *)
LEMMA WakeStep == TypeInv /\ WakeInv /\ [Next]_vars => WakeInv'
  <1> SUFFICES ASSUME TypeInv, WakeInv, [Next]_vars PROVE WakeInv'
    OBVIOUS
  <1>1. CASE UNCHANGED vars \/ Terminated
    BY <1>1, WakeStable
       DEF Terminated, vars, dataVars, queueVars, loopVars, wakeVars
  <1>2. CASE Submit \/ OwnerArm
    BY <1>2, WakeStable
       DEF Submit, RejectUndeliverable, SubmitCheck, SendInline, OwnerArm, wakeVars,
           queueVars, loopVars
  <1>3. ASSUME NEW p \in Submitters, Transact(p) PROVE WakeInv'
    BY <1>3, WakeTransact
  <1>4. CASE PopRoot \/ IoCallback \/ IoReturn \/ RunTimed
             \/ \E m \in Msgs : TimerExpire(m) \/ TimerDispatch(m)
    BY <1>4, WakeLoop
  <1>5. CASE Drain
    BY <1>5, WakeDrain
  <1>6. CASE StartThread \/ EnterLoop \/ LoopFails \/ WindDown \/ Control
    BY <1>6, WakeLifecycle
  <1> QED BY <1>1, <1>2, <1>3, <1>4, <1>5, <1>6 DEF Next

(* A fresh worker has no root and an empty queue.                          *)
LEMMA WakeInit == Init => WakeInv
  BY Lifecycles
     DEF Init, WakeInv, WakeCovered, SingleDrain, ActiveRoots, Draining, OwnerPhase

(* The two invariants together.                                            *)
LEMMA MessagesInv == Spec => [](TypeInv /\ WakeInv)
  <1>1. Init => TypeInv
    BY InitType DEF TypeInv, OwnerShape, Init
  <1> QED BY <1>1, WakeInit, TypeStep, WakeStep, PTL DEF Spec

(* No wakeup is lost: as long as the worker's loop is open, a non-empty    *)
(* queue has a drain pending, and a pending drain is exactly one root,     *)
(* queued in the loop or executing on the owner.                           *)
THEOREM WakeNeverLost == Spec => []WakeCovered
  <1>1. TypeInv /\ WakeInv => WakeCovered
    BY DEF WakeInv
  <1> QED BY <1>1, MessagesInv, PTL

(* Two drains never compete for the same queue, before or after closure.   *)
THEOREM DrainsAlone == Spec => []SingleDrain
  <1>1. TypeInv /\ WakeInv => SingleDrain
    BY DEF WakeInv
  <1> QED BY <1>1, MessagesInv, PTL

(* Once the worker has published its quiescence no message callback starts *)
(* on it, neither from the queue, nor from a timer, nor inline.            *)
THEOREM QuietAfterQuiesce == Spec => NoCallbackAfterQuiesced
  <1>1. TypeInv /\ WakeInv /\ [Next]_vars => [lifecycle >= Quiesced => runs' = runs]_vars
    <2> SUFFICES ASSUME TypeInv, WakeInv, Next, lifecycle >= Quiesced
                 PROVE  runs' = runs
      BY DEF vars
    <2>0. opc \in {"quiesced", "drained", "destroy", "gone"}
      BY DEF WakeInv, OwnerPhase
    <2>1. CASE Submit
      BY <2>0, <2>1
         DEF Submit, RejectUndeliverable, Refuse, Clean, SubmitCheck, SendInline, InCallback
    <2>2. ASSUME NEW p \in Submitters, Transact(p) PROVE runs' = runs
      BY <2>2 DEF Transact, EnqueueRefused, EnqueueCoalesced, EnqueueWoken,
                  EnqueueWakeFailed, RefuseHeld, Refuse, Clean, Accept
    <2>3. CASE OwnerArm
      BY <2>3 DEF OwnerArm, RefuseHeld, Refuse, Clean, Accept
    <2>4. CASE Drain
      BY <2>0, <2>4
         DEF Drain, RunRoot, DrainTake, DrainNext, DrainCancel, DrainStart, DrainSetup,
             DrainReturn, DrainStop, DrainSuccessor, DrainFallback
    <2>5. CASE RunTimed
      BY <2>0, <2>5
         DEF RunTimed, TimerReset, TimerResetRefused, TimerDue, TimerRun, TimerCancelled,
             TimerReturn
    <2>6. CASE PopRoot \/ IoCallback \/ IoReturn \/ StartThread \/ EnterLoop \/ LoopFails
               \/ \E m \in Msgs : TimerExpire(m) \/ TimerDispatch(m)
      BY <2>6 DEF PopRoot, IoCallback, IoReturn, StartThread, EnterLoop, LoopFails,
                  TimerExpire, TimerDispatch, dataVars, ledgerVars
    <2>7. CASE WindDown
      BY <2>7 DEF WindDown, ExitLoop, QuiesceTake, QuiesceClean, QuiesceLoop, PerformDrain,
                  PerformTeardown, Detach, DestroyClean, DestroyDone, CleanTaken,
                  CleanEntry, Clean, dataVars, ledgerVars
    <2>8. CASE Control \/ Terminated
      BY <2>8 DEF Control, OpenAdmission, Spawn, DestroyUnstarted, Detach, RequestQuiesce,
                  RequestDrain, RequestTeardown, Join, Terminated, vars, dataVars, ledgerVars
    <2> QED BY <2>1, <2>2, <2>3, <2>4, <2>5, <2>6, <2>7, <2>8 DEF Next
  <1> QED BY <1>1, MessagesInv, PTL DEF Spec, NoCallbackAfterQuiesced

(* A refusal makes no message accepted.                                    *)
LEMMA RefuseAcceptsNothing ==
    ASSUME LedgerType, NEW n \in Msgs, NEW retain, NEW why, Refuse(n, retain, why),
           NEW m \in Msgs, result'[m] = "accepted"
    PROVE  result[m] = "accepted"
  BY DEF LedgerType, Refuse

(* A submission that passed its unlocked check before the close is not     *)
(* accepted after it.                                                      *)
THEOREM ClosedAcceptsNothing == Spec => NoAcceptAfterClose
  <1> DEFINE Kept == \A m \in Msgs : result'[m] = "accepted" => result[m] = "accepted"
  <1>1. TypeInv /\ [Next]_vars => [~admission => Kept]_vars
    <2> SUFFICES ASSUME TypeInv, Next, ~admission PROVE Kept
      BY DEF vars
    <2>0. LedgerType /\ RecordType
      BY DEF TypeInv, TypeOK
    <2>r. ASSUME NEW s \in Submissions, NEW why, RefuseHeld(s, why) PROVE Kept
      <3>1. s.msg \in Msgs
        BY DEF Submissions
      <3> QED BY <2>0, <2>r, <3>1, RefuseAcceptsNothing DEF RefuseHeld
    <2>1. CASE Submit
      <3>1. ASSUME NEW n \in Msgs, NEW r \in BOOLEAN, NEW why, Refuse(n, r, why)
            PROVE  Kept
        BY <2>0, <3>1, RefuseAcceptsNothing
      <3>2. ASSUME NEW n \in Msgs, SendInline(n) PROVE Kept
        BY <2>0, <3>2 DEF SendInline, LedgerType
      <3>3. ASSUME NEW p \in Submitters, NEW n \in Msgs, NEW d \in BOOLEAN,
                   NEW r \in BOOLEAN, SubmitCheck(p, n, d, r)
            PROVE  Kept
        BY <3>1, <3>3 DEF SubmitCheck
      <3>4. ASSUME NEW p \in Submitters, NEW n \in Msgs, NEW r \in BOOLEAN,
                   RejectUndeliverable(p, n, r)
            PROVE  Kept
        BY <3>1, <3>4 DEF RejectUndeliverable
      <3> QED BY <2>1, <3>2, <3>3, <3>4 DEF Submit
    <2>2. ASSUME NEW p \in Submitters, Transact(p) PROVE Kept
      <3>0. sub[p] # Idle
        BY <2>2 DEF Transact, EnqueueRefused, EnqueueCoalesced, EnqueueWoken,
                    EnqueueWakeFailed, Queues
      <3>1. sub[p] \in Submissions
        BY <2>0, <3>0, HeldSubmission
      <3>2. EnqueueRefused(p)
        BY <2>2 DEF Transact, EnqueueCoalesced, EnqueueWoken, EnqueueWakeFailed, CanPush
      <3> QED BY <2>r, <3>1, <3>2 DEF EnqueueRefused
    <2>3. CASE OwnerArm
      <3>1. sub[Owner] \in Submissions
        BY <2>0, <2>3, HeldSubmission DEF OwnerArm, Submitters
      <3>2. RefuseHeld(sub[Owner], "AdmissionClosed")
        BY <2>3 DEF OwnerArm, MayArm
      <3> QED BY <2>r, <3>1, <3>2
    <2>4. CASE \/ PopRoot \/ Drain \/ IoCallback \/ IoReturn \/ RunTimed \/ StartThread
               \/ EnterLoop \/ LoopFails \/ WindDown \/ Control \/ Terminated
               \/ \E m \in Msgs : TimerExpire(m) \/ TimerDispatch(m)
      <3>1. result' = result
        BY <2>4 DEF PopRoot, Drain, RunRoot, DrainTake, DrainNext, DrainCancel, DrainStart,
                    DrainSetup, DrainReturn, DrainStop, DrainSuccessor, DrainFallback,
                    IoCallback, IoReturn, RunTimed, TimerReset, TimerResetRefused, TimerDue,
                    TimerRun, TimerCancelled, TimerReturn, StartThread, EnterLoop, LoopFails,
                    WindDown, ExitLoop, QuiesceTake, QuiesceClean, QuiesceLoop, PerformDrain,
                    PerformTeardown, Detach, DestroyClean, DestroyDone, Control,
                    OpenAdmission, Spawn, DestroyUnstarted, RequestQuiesce, RequestDrain,
                    RequestTeardown, Join, Terminated, TimerExpire, TimerDispatch, vars,
                    dataVars, ledgerVars
      <3> QED BY <3>1
    <2> QED BY <2>1, <2>2, <2>3, <2>4 DEF Next
  <1> QED BY <1>1, MessagesInv, PTL DEF Spec, NoAcceptAfterClose

-----------------------------------------------------------------------------
(* The custody of messages.                                                *)

(* The entries of a queue after a push,                                    *)
LEMMA PushEntries ==
    ASSUME NEW q \in Seq(Entries), NEW e \in Entries
    PROVE  /\ \A m : In(m, Append(q, e)) <=> In(m, q) \/ m = e.msg
           /\ \A m : Wrapped(m, Append(q, e)) <=>
                        Wrapped(m, q) \/ (m = e.msg /\ e.setup)
           /\ Distinct(q) /\ ~In(e.msg, q) => Distinct(Append(q, e))
  <1> DEFINE r == Append(q, e)
  <1>1. /\ Len(r) = Len(q) + 1 /\ Len(q) \in Nat
        /\ \A i \in 1 .. Len(q) : r[i] = q[i]
        /\ r[Len(q) + 1] = e
    OBVIOUS
  <1>2. \A i \in 1 .. Len(r) : i \in 1 .. Len(q) \/ i = Len(q) + 1
    BY <1>1
  <1>3. \A i \in 1 .. Len(q) : i \in 1 .. Len(r)
    BY <1>1
  <1>4. Len(q) + 1 \in 1 .. Len(r)
    BY <1>1
  <1> HIDE DEF r
  <1>5. \A m : In(m, r) <=> In(m, q) \/ m = e.msg
    BY <1>1, <1>2, <1>3, <1>4 DEF In
  <1>6. \A m : Wrapped(m, r) <=> Wrapped(m, q) \/ (m = e.msg /\ e.setup)
    BY <1>1, <1>2, <1>3, <1>4 DEF Wrapped
  <1>7. Distinct(q) /\ ~In(e.msg, q) => Distinct(r)
    BY <1>1, <1>2, <1>3 DEF Distinct, In
  <1> QED BY <1>5, <1>6, <1>7 DEF r

(* its entries without the first,                                          *)
LEMMA HeadEntries ==
    ASSUME NEW q \in Seq(Entries), q # << >>
    PROVE  /\ \A m : In(m, q) <=> In(m, Tail(q)) \/ m = Head(q).msg
           /\ \A m : Wrapped(m, q) <=>
                        Wrapped(m, Tail(q)) \/ (m = Head(q).msg /\ Head(q).setup)
           /\ Distinct(q) => Distinct(Tail(q)) /\ ~In(Head(q).msg, Tail(q))
  <1> DEFINE r == Tail(q)
             h == Head(q)
  <1>1. /\ Len(q) = Len(r) + 1 /\ Len(r) \in Nat
        /\ \A i \in 1 .. Len(r) : r[i] = q[i + 1]
        /\ q[1] = h
    OBVIOUS
  <1>2. \A i \in 1 .. Len(q) : i = 1 \/ (i - 1 \in 1 .. Len(r) /\ r[i - 1] = q[i])
    BY <1>1
  <1>3. \A i \in 1 .. Len(r) : i + 1 \in 1 .. Len(q)
    BY <1>1
  <1>4. 1 \in 1 .. Len(q)
    BY <1>1
  <1> HIDE DEF r, h
  <1>5. \A m : In(m, q) <=> In(m, r) \/ m = h.msg
    BY <1>1, <1>2, <1>3, <1>4 DEF In
  <1>6. \A m : Wrapped(m, q) <=> Wrapped(m, r) \/ (m = h.msg /\ h.setup)
    BY <1>1, <1>2, <1>3, <1>4 DEF Wrapped
  <1>7. Distinct(q) => Distinct(r)
    BY <1>1, <1>3 DEF Distinct
  <1>8. Distinct(q) => ~In(h.msg, r)
    BY <1>1, <1>3, <1>4 DEF Distinct, In
  <1> QED BY <1>5, <1>6, <1>7, <1>8 DEF r, h

(* cut in two,                                                             *)
LEMMA CutEntries ==
    ASSUME NEW q \in Seq(Entries), NEW n \in 0 .. Len(q)
    PROVE  LET a == SubSeq(q, 1, n)
               b == SubSeq(q, n + 1, Len(q))
           IN  /\ \A m : In(m, q) <=> In(m, a) \/ In(m, b)
               /\ \A m : Wrapped(m, q) <=> Wrapped(m, a) \/ Wrapped(m, b)
               /\ Distinct(q) => /\ Distinct(a) /\ Distinct(b)
                                 /\ \A m : ~(In(m, a) /\ In(m, b))
  <1> DEFINE a == SubSeq(q, 1, n)
             b == SubSeq(q, n + 1, Len(q))
  <1>1. /\ Len(a) = n /\ Len(b) = Len(q) - n /\ n \in Nat /\ Len(q) \in Nat
        /\ \A i \in 1 .. n : a[i] = q[i]
        /\ \A i \in 1 .. Len(b) : b[i] = q[n + i]
    OBVIOUS
  <1>2. \A i \in 1 .. Len(q) :
           (i \in 1 .. Len(a) /\ a[i] = q[i]) \/ (i - n \in 1 .. Len(b) /\ b[i - n] = q[i])
    BY <1>1
  <1>3. \A i \in 1 .. Len(a) : i \in 1 .. Len(q) /\ a[i] = q[i]
    BY <1>1
  <1>4. \A i \in 1 .. Len(b) : n + i \in 1 .. Len(q) /\ b[i] = q[n + i] /\ n + i > n
    BY <1>1
  <1> HIDE DEF a, b
  <1>5. \A m : In(m, q) <=> In(m, a) \/ In(m, b)
    BY <1>2, <1>3, <1>4 DEF In
  <1>6. \A m : Wrapped(m, q) <=> Wrapped(m, a) \/ Wrapped(m, b)
    BY <1>2, <1>3, <1>4 DEF Wrapped
  <1>7. Distinct(q) => Distinct(a)
    BY <1>3 DEF Distinct
  <1>8. ASSUME Distinct(q) PROVE Distinct(b)
    <2> SUFFICES ASSUME NEW i \in 1 .. Len(b), NEW j \in 1 .. Len(b),
                        b[i].msg = b[j].msg
                 PROVE  i = j
      BY DEF Distinct
    <2>1. n + i \in 1 .. Len(q) /\ n + j \in 1 .. Len(q) /\ q[n + i].msg = q[n + j].msg
      BY <1>4
    <2>2. n + i = n + j
      BY <1>8, <2>1 DEF Distinct
    <2> QED BY <2>2, <1>1
  <1>9. Distinct(q) => \A m : ~(In(m, a) /\ In(m, b))
    BY <1>1, <1>3, <1>4 DEF Distinct, In
  <1> QED BY <1>5, <1>6, <1>7, <1>8, <1>9 DEF a, b

(* with one entry only,                                                    *)
LEMMA LastEntry ==
    ASSUME NEW q \in Seq(Entries), Len(q) = 1
    PROVE  Tail(q) = << >>
  <1>1. Tail(q) \in Seq(Entries) /\ Len(Tail(q)) = 0
    OBVIOUS
  <1> QED BY <1>1, EmptySeq

(* and when there are none.                                                *)
LEMMA NoEntries ==
    /\ \A m : ~In(m, << >>) /\ ~Wrapped(m, << >>)
    /\ Distinct(<< >>)
  BY DEF In, Wrapped, Distinct

(* A wrapper is an entry.                                                  *)
LEMMA WrappedIn == \A m, q : Wrapped(m, q) => In(m, q)
  BY DEF Wrapped, In

-----------------------------------------------------------------------------
(* Where the owner is and what is closed, for any step.                    *)
ShapeInv == TypeInv /\ WakeInv /\ OwnerLists /\ Admissions

(* The values of the lifecycle.                                            *)
LEMMA Phases ==
    /\ Initialized = 0 /\ Running = 1 /\ QuiesceRequested = 2 /\ Quiesced = 3
    /\ DrainRequested = 4 /\ Drained = 5 /\ TeardownRequested = 6 /\ Exited = 7
    /\ Joined = 8
  BY DEF Initialized, Running, QuiesceRequested, Quiesced, DrainRequested,
         Drained, TeardownRequested, Exited, Joined

(* The variables the shape depends on.                                     *)
shapeVars == <<batch, cur, taken, takenTimed, opc, lifecycle, admission, queued,
               timed, roots, normalOpen>>

(* A step that touches no list keeps the shape.                            *)
LEMMA ListsStable ==
    OwnerLists /\ Admissions /\ UNCHANGED shapeVars => OwnerLists' /\ Admissions'
  BY DEF OwnerLists, Admissions, shapeVars

(* Submissions keep the shape,                                             *)
LEMMA ListsSubmit ==
    ASSUME ShapeInv,
           \/ Submit
           \/ \E p \in Submitters : Transact(p)
           \/ OwnerArm
    PROVE  OwnerLists' /\ Admissions'
  <1> USE DEF ShapeInv
  <1>1. CASE Submit
    <2>1. UNCHANGED shapeVars
      BY <1>1 DEF Submit, RejectUndeliverable, SubmitCheck, SendInline, queueVars, loopVars, localVars, shapeVars
    <2> QED BY <2>1, ListsStable
  <1>2. ASSUME NEW p \in Submitters, Transact(p) PROVE OwnerLists' /\ Admissions'
    <2>1. CASE EnqueueRefused(p) \/ EnqueueWakeFailed(p)
      <3>1. UNCHANGED shapeVars
        BY <2>1 DEF EnqueueRefused, EnqueueWakeFailed, queueVars, loopVars, localVars, shapeVars
      <3> QED BY <3>1, ListsStable
    <2>2. CASE EnqueueCoalesced(p)
      BY <2>2 DEF EnqueueCoalesced, CanPush, OwnerLists, Admissions, loopVars, localVars
    <2>3. CASE EnqueueWoken(p)
      BY <2>3 DEF EnqueueWoken, CanPush, OwnerLists, Admissions, localVars, WakeInv, OwnerPhase
    <2> QED BY <1>2, <2>1, <2>2, <2>3 DEF Transact
  <1>3. CASE OwnerArm
    BY <1>3 DEF OwnerArm, MayArm, OwnerLists, Admissions, localVars, loopVars
  <1> QED BY <1>1, <1>2, <1>3

(* and so does the drain,                                                  *)
LEMMA ListsDrain ==
    ASSUME ShapeInv, PopRoot \/ Drain
    PROVE  OwnerLists' /\ Admissions'
  <1> USE DEF ShapeInv, OwnerLists, Admissions, loopVars, localVars, queueVars, dataVars,
              WakeInv, OwnerPhase
  <1> USE Phases
  <1>0. batch \in Seq(Entries) /\ lifecycle \in 0 .. 8 /\ roots \in Nat
    BY DEF TypeInv, TypeOK, LocalType, OwnerType, LoopType
  <1>1. CASE PopRoot
    BY <1>0, <1>1 DEF PopRoot
  <1>2. CASE RunRoot
    BY <1>0, <1>2 DEF RunRoot
  <1>3. CASE DrainTake
    BY <1>0, <1>3 DEF DrainTake
  <1>4. CASE DrainNext
    BY <1>0, <1>4 DEF DrainNext
  <1>5. CASE DrainCancel
    <2>1. Len(batch) = 1 => Tail(batch) = << >>
      BY <1>0, LastEntry
    <2> QED BY <1>0, <1>5, <2>1 DEF DrainCancel
  <1>6. CASE DrainStart
    BY <1>0, <1>6 DEF DrainStart
  <1>7. CASE DrainSetup
    BY <1>0, <1>7 DEF DrainSetup
  <1>8. CASE DrainReturn
    BY <1>0, <1>8 DEF DrainReturn
  <1>9. CASE DrainStop
    BY <1>0, <1>9 DEF DrainStop
  <1>10. CASE DrainSuccessor
    BY <1>0, <1>10 DEF DrainSuccessor
  <1>11. CASE DrainFallback
    BY <1>0, <1>11 DEF DrainFallback
  <1> QED BY <1>1, <1>2, <1>3, <1>4, <1>5, <1>6, <1>7, <1>8, <1>9, <1>10, <1>11 DEF Drain

(* the timers and other callbacks,                                         *)
LEMMA ListsTimers ==
    ASSUME ShapeInv,
           \/ IoCallback \/ IoReturn \/ RunTimed
           \/ \E m \in Msgs : TimerExpire(m) \/ TimerDispatch(m)
    PROVE  OwnerLists' /\ Admissions'
  <1> USE DEF ShapeInv, OwnerLists, Admissions, loopVars, localVars, queueVars, dataVars
  <1> USE Phases
  <1>0. lifecycle \in 0 .. 8
    BY DEF TypeInv, TypeOK, OwnerType
  <1>1. CASE IoCallback
    BY <1>0, <1>1 DEF IoCallback
  <1>2. CASE IoReturn
    BY <1>0, <1>2 DEF IoReturn
  <1>3. ASSUME NEW m \in Msgs, TimerExpire(m) PROVE OwnerLists' /\ Admissions'
    BY <1>0, <1>3 DEF TimerExpire
  <1>4. ASSUME NEW m \in Msgs, TimerDispatch(m) PROVE OwnerLists' /\ Admissions'
    BY <1>0, <1>4, MessagesAssumption DEF TimerDispatch
  <1>5. CASE TimerReset
    BY <1>0, <1>5 DEF TimerReset
  <1>6. CASE TimerResetRefused
    BY <1>0, <1>6 DEF TimerResetRefused, Unlink
  <1>7. CASE TimerDue
    BY <1>0, <1>7 DEF TimerDue, Unlink
  <1>8. CASE TimerRun
    BY <1>0, <1>8 DEF TimerRun
  <1>9. CASE TimerCancelled
    BY <1>0, <1>9 DEF TimerCancelled
  <1>10. CASE TimerReturn
    BY <1>0, <1>10 DEF TimerReturn
  <1> QED BY <1>1, <1>2, <1>3, <1>4, <1>5, <1>6, <1>7, <1>8, <1>9, <1>10 DEF RunTimed

(* and the lifecycle.                                                      *)
LEMMA ListsLifecycle ==
    ASSUME ShapeInv, StartThread \/ EnterLoop \/ LoopFails \/ WindDown \/ Control
    PROVE  OwnerLists' /\ Admissions'
  <1> USE DEF ShapeInv, OwnerLists, Admissions, loopVars, localVars, queueVars, dataVars,
              WakeInv, OwnerPhase, Publish
  <1> USE Phases
  <1>0. lifecycle \in 0 .. 8
    BY DEF TypeInv, TypeOK, OwnerType
  <1>1. CASE StartThread
    BY <1>0, <1>1 DEF StartThread
  <1>2. CASE EnterLoop
    BY <1>0, <1>2 DEF EnterLoop
  <1>3. CASE LoopFails
    BY <1>0, <1>3 DEF LoopFails, CloseBoth
  <1>4. CASE ExitLoop
    BY <1>0, <1>4 DEF ExitLoop
  <1>5. CASE QuiesceTake
    BY <1>0, <1>5 DEF QuiesceTake, TakePending
  <1>6. CASE QuiesceClean
    BY <1>0, <1>6 DEF QuiesceClean, CleanTaken
  <1>7. CASE QuiesceLoop
    BY <1>0, <1>7 DEF QuiesceLoop
  <1>8. CASE PerformDrain
    BY <1>0, <1>8 DEF PerformDrain
  <1>9. CASE PerformTeardown
    BY <1>0, <1>9 DEF PerformTeardown, Detach, TakePending
  <1>10. CASE DestroyClean
    BY <1>0, <1>10 DEF DestroyClean, CleanTaken
  <1>11. CASE DestroyDone
    BY <1>0, <1>11 DEF DestroyDone
  <1>12. CASE OpenAdmission
    BY <1>0, <1>12 DEF OpenAdmission
  <1>13. CASE Spawn
    BY <1>0, <1>13 DEF Spawn
  <1>14. CASE DestroyUnstarted
    BY <1>0, <1>14 DEF DestroyUnstarted, Detach, TakePending
  <1>15. CASE RequestQuiesce
    BY <1>0, <1>15 DEF RequestQuiesce, CloseBoth
  <1>16. CASE RequestDrain \/ RequestTeardown
    BY <1>0, <1>16 DEF RequestDrain, RequestTeardown, RequestPhase
  <1>17. CASE Join
    BY <1>0, <1>17 DEF Join
  <1> QED
    BY <1>1, <1>2, <1>3, <1>4, <1>5, <1>6, <1>7, <1>8, <1>9, <1>10, <1>11, <1>12,
       <1>13, <1>14, <1>15, <1>16, <1>17 DEF WindDown, Control

(* Every step keeps the shape.                                             *)
LEMMA ShapeStep == ShapeInv /\ [Next]_vars => ShapeInv'
  <1> SUFFICES ASSUME ShapeInv, [Next]_vars PROVE ShapeInv'
    OBVIOUS
  <1>1. TypeInv' /\ WakeInv'
    BY TypeStep, WakeStep DEF ShapeInv
  <1>2. CASE UNCHANGED vars \/ Terminated
    <2>1. UNCHANGED shapeVars
      BY <1>2 DEF Terminated, vars, dataVars, queueVars, loopVars, localVars, shapeVars
    <2> QED BY <1>1, <2>1, ListsStable DEF ShapeInv
  <1>3. CASE Next /\ ~Terminated
    <2>1. OwnerLists' /\ Admissions'
      BY <1>3, ListsSubmit, ListsDrain, ListsTimers, ListsLifecycle DEF Next
    <2> QED BY <1>1, <2>1 DEF ShapeInv
  <1> QED BY <1>2, <1>3

-----------------------------------------------------------------------------
(* The custody of one message.                                             *)
Delayed(m) == \E p \in Submitters : sub[p].msg = m /\ sub[p].delayed
Armed(m) == m \in timed \/ m \in takenTimed \/ m = cur
HasEntry(m) == Wrapped(m, queued) \/ Wrapped(m, batch) \/ Wrapped(m, taken)

MsgInv(m) ==
    /\ Settled(m) <= 1
    /\ result[m] \in {"new", "submitting", "retained"} => Settled(m) = 0
    /\ result[m] \in {"cleaned", "inline"} => Settled(m) = 1
    /\ result[m] = "accepted" /\ Settled(m) = 0 <=> Queueing(m) \/ Timing(m)
    /\ ~(Queueing(m) /\ Timing(m))
    /\ timer[m] \in {"heap", "pending"} => m \in records /\ Armed(m)
    /\ m \in records <=> Delayed(m) \/ HasEntry(m) \/ Armed(m)
    /\ ~(In(m, batch) /\ In(m, queued))

(* The timer that runTimedTask is handling.                                *)
TimerHeld ==
    /\ opc = "timer" => cur \in timed
    /\ opc \in {"tcheck", "tcallback"} => cur \notin timed
    /\ opc = "tcallback" => result[cur] = "accepted" /\ Settled(cur) = 1

Unrepeated == Distinct(batch) /\ Distinct(queued) /\ Distinct(taken)

(* The ledger, seen from one message.                                      *)
Books ==
    /\ \A m \in Msgs : MsgInv(m)
    /\ TimerHeld /\ Unrepeated /\ SubmissionsHeld /\ TeardownUnstarted
    /\ fault = "none"
LedgerInv == ShapeInv /\ Books

(* What these say together is the ledger of the specification.             *)
LEMMA LedgerHolds == LedgerInv => MessageLedger
  <1> SUFFICES ASSUME LedgerInv PROVE MessageLedger
    OBVIOUS
  <1> USE DEF LedgerInv, Books
  <1>1. TypeInv /\ OwnerLists /\ Admissions /\ SubmissionsHeld /\ TeardownUnstarted
    BY DEF ShapeInv
  <1>2. SettledOnce
    BY DEF SettledOnce, MsgInv
  <1>3. AcceptedIsHeld
    BY DEF AcceptedIsHeld, MsgInv
  <1>4. TimedRecordsSafe
    BY WrappedIn DEF TimedRecordsSafe, MsgInv, Delayed, Armed, HasEntry, Queueing,
          TypeInv, TypeOK, RecordType, ShapeInv
  <1>5. EntriesDistinct
    BY DEF EntriesDistinct, MsgInv, Unrepeated
  <1>6. RecordsHeld
    BY DEF RecordsHeld, MsgInv, TimerHeld, HasEntry, Armed
  <1>7. QuiescedOwesNothing
    <2>1. ASSUME lifecycle \in Quiesced .. Exited
          PROVE  /\ queued = << >> /\ timed = {} /\ batch = << >> /\ roots = 0
                 /\ \A m \in Msgs : result[m] = "accepted" => Settled(m) = 1
      <3>0. opc \in {"quiesced", "drained", "destroy", "gone"} /\ lifecycle >= 3 /\ lifecycle # 0
        BY <2>1, Phases DEF ShapeInv, WakeInv, OwnerPhase
      <3>1. /\ queued = << >> /\ timed = {} /\ batch = << >> /\ roots = 0
            /\ taken = << >> /\ takenTimed = {} /\ cur = NoMsg
        BY <3>0, <1>1, Phases DEF OwnerLists
      <3>2. ASSUME NEW m \in Msgs, result[m] = "accepted" PROVE Settled(m) = 1
        <4>1. ~Queueing(m)
          BY <3>1, NoEntries DEF Queueing
        <4>2. ~Timing(m)
          BY <3>0, <3>1 DEF Timing
        <4>3. MsgInv(m) /\ Settled(m) \in Nat
          BY <1>1 DEF Settled, TypeInv, TypeOK, LedgerType
        <4> QED BY <3>2, <4>1, <4>2, <4>3 DEF MsgInv
      <3> QED BY <3>1, <3>2
    <2>2. (\E m \in Msgs : reason[m] = "Teardown") => lifecycle \in {Initialized, Joined}
      BY <1>1 DEF TeardownUnstarted
    <2> QED BY <2>1, <2>2 DEF QuiescedOwesNothing
  <1> QED
    BY <1>1, <1>2, <1>3, <1>4, <1>5, <1>6, <1>7 DEF MessageLedger, Custody

(* A fresh worker holds nothing.                                           *)
LEMMA LedgerInit == Init => LedgerInv
  <1> SUFFICES ASSUME Init PROVE LedgerInv
    OBVIOUS
  <1>1. TypeInv /\ WakeInv
    BY InitType, WakeInit DEF TypeInv, OwnerShape, Init
  <1>2. OwnerLists /\ Admissions
    BY Phases DEF Init, OwnerLists, Admissions
  <1>3. ASSUME NEW m \in Msgs PROVE MsgInv(m)
    BY NoEntries, MessagesAssumption
       DEF Init, MsgInv, Settled, Queueing, Timing, Armed, HasEntry, Delayed, Idle
  <1>4. TimerHeld /\ SubmissionsHeld /\ TeardownUnstarted
    BY DEF Init, TimerHeld, SubmissionsHeld, TeardownUnstarted
  <1>5. Unrepeated /\ fault = "none"
    BY NoEntries DEF Init, Unrepeated
  <1> QED BY <1>1, <1>2, <1>3, <1>4, <1>5 DEF LedgerInv, Books, ShapeInv

-----------------------------------------------------------------------------
(* What one step does to the books.                                        *)

(* The ledger of a message that a step does not touch.                     *)
placeVars == <<queued, batch, taken, timed, takenTimed, cur>>

(* A step that touches nothing of a message keeps what is said of it,      *)
LEMMA MsgFrame ==
    ASSUME NEW m \in Msgs, MsgInv(m), UNCHANGED placeVars,
           result'[m] = result[m], runs'[m] = runs[m], cleanups'[m] = cleanups[m],
           timer'[m] = timer[m] \/ timer'[m] \notin {"heap", "pending"}
              \/ timer[m] \in {"heap", "pending"},
           m \in records' <=> m \in records,
           Delayed(m)' <=> Delayed(m),
           m = cur => (opc' = "tcheck" <=> opc = "tcheck")
    PROVE  MsgInv(m)'
  BY DEF MsgInv, Settled, Queueing, Timing, Armed, HasEntry, placeVars

(* The books of a step that moves no message.                              *)
bookVars == <<placeVars, result, runs, cleanups, reason, records, sub, fault>>

(* and one that touches no message keeps the books.                        *)
LEMMA BooksFrame ==
    ASSUME LedgerInv, ShapeInv', UNCHANGED bookVars, TeardownUnstarted',
           \A m \in Msgs : timer'[m] = timer[m] \/ timer'[m] \notin {"heap", "pending"}
                             \/ timer[m] \in {"heap", "pending"},
           cur = NoMsg \/ opc' = opc
    PROVE  Books'
  <1> USE DEF LedgerInv, Books, bookVars, placeVars
  <1>1. ASSUME NEW m \in Msgs PROVE MsgInv(m)'
    <2>1. Delayed(m)' <=> Delayed(m)
      BY DEF Delayed
    <2>2. m = cur => (opc' = "tcheck" <=> opc = "tcheck")
      BY MessagesAssumption
    <2> QED BY <2>1, <2>2, MsgFrame
  <1>2. TimerHeld'
    <2>1. CASE cur = NoMsg
      BY <2>1 DEF TimerHeld, ShapeInv, OwnerLists
    <2>2. CASE opc' = opc
      BY <2>2 DEF TimerHeld, Settled
    <2> QED BY <2>1, <2>2
  <1>3. Unrepeated'
    BY DEF Unrepeated
  <1>4. SubmissionsHeld'
    BY DEF SubmissionsHeld
  <1> QED BY <1>1, <1>2, <1>3, <1>4

(* A message whose submission is not over is nowhere else.                 *)
LEMMA NotHeld ==
    ASSUME LedgerInv, NEW m \in Msgs, result[m] \in {"new", "submitting"}
    PROVE  /\ ~Queueing(m) /\ ~Timing(m) /\ ~Armed(m) /\ ~HasEntry(m)
           /\ runs[m] = 0 /\ cleanups[m] = 0
           /\ timer[m] \notin {"heap", "pending"}
           /\ m \in records <=> Delayed(m)
  <1>1. MsgInv(m) /\ runs[m] \in Nat /\ cleanups[m] \in Nat
    BY DEF LedgerInv, Books, ShapeInv, TypeInv, TypeOK, LedgerType
  <1>2. ~Queueing(m) /\ ~Timing(m) /\ Settled(m) = 0
    BY <1>1 DEF MsgInv
  <1>3. m # cur
    BY <1>2, MessagesAssumption
       DEF LedgerInv, Books, TimerHeld, Timing, ShapeInv, OwnerLists
  <1>4. ~Armed(m) /\ ~HasEntry(m)
    BY <1>2, <1>3, WrappedIn DEF Armed, HasEntry, Timing, Queueing
  <1> QED BY <1>1, <1>2, <1>4 DEF MsgInv, Settled

(* A submitter that lets go of its message.                                *)
LEMMA SubReleased ==
    ASSUME LedgerInv, NEW p \in Submitters, sub[p] # Idle, NEW s, s = sub[p],
           sub' = [sub EXCEPT ![p] = Idle]
    PROVE  /\ \A m \in Msgs : m # s.msg => (Delayed(m)' <=> Delayed(m))
           /\ ~Delayed(s.msg)'
           /\ Delayed(s.msg) <=> s.delayed
           /\ s \in Submissions /\ s.msg \in Msgs /\ result[s.msg] = "submitting"
           /\ \A q \in Submitters : sub'[q] # Idle => sub'[q] = sub[q] /\ sub[q].msg # s.msg
  <1>1. s \in Submissions /\ s.msg \in Msgs /\ sub \in [Submitters -> Submissions \cup {Idle}]
    BY HeldSubmission DEF LedgerInv, ShapeInv, TypeInv, TypeOK, RecordType
  <1>2. /\ result[s.msg] = "submitting"
        /\ \A q \in Submitters : q # p => sub[q].msg # s.msg
    BY DEF LedgerInv, Books, SubmissionsHeld
  <1>3. sub'[p] = Idle /\ \A q \in Submitters : q # p => sub'[q] = sub[q]
    BY <1>1
  <1>4. Idle.msg \notin Msgs /\ Idle.delayed = FALSE
    BY MessagesAssumption DEF Idle
  <1>5. ASSUME NEW m \in Msgs, m # s.msg PROVE Delayed(m)' <=> Delayed(m)
    <2>1. \A q \in Submitters :
             (sub'[q].msg = m /\ sub'[q].delayed) <=> (sub[q].msg = m /\ sub[q].delayed)
      BY <1>3, <1>4, <1>5
    <2> QED BY <2>1 DEF Delayed
  <1>6. ~Delayed(s.msg)'
    BY <1>1, <1>2, <1>3, <1>4 DEF Delayed
  <1>7. Delayed(s.msg) <=> s.delayed
    BY <1>1, <1>2, <1>4 DEF Delayed
  <1> QED BY <1>1, <1>2, <1>3, <1>5, <1>6, <1>7

(* The books after a message has been refused.                             *)
LEMMA BooksRefuse ==
    ASSUME LedgerInv, ShapeInv', NEW k \in Msgs, result[k] \in {"new", "submitting"},
           NEW retain \in BOOLEAN, NEW why \in Reasons \ {"Teardown"},
           Refuse(k, retain, why),
           UNCHANGED <<placeVars, timer, opc, lifecycle>>, fault' = "none",
           records' = records \ {k},
           \A m \in Msgs : m # k => (Delayed(m)' <=> Delayed(m)),
           ~Delayed(k)',
           \A q \in Submitters : sub'[q] # Idle => sub'[q] = sub[q] /\ sub[q].msg # k,
           \A p, q \in Submitters : p # q /\ sub'[p] # Idle => sub'[p].msg # sub'[q].msg
    PROVE  Books'
  <1> USE DEF LedgerInv, Books
  <1>0. /\ result \in [Msgs -> Results] /\ runs \in [Msgs -> Nat]
        /\ cleanups \in [Msgs -> Nat] /\ reason \in [Msgs -> Reasons]
    BY DEF ShapeInv, TypeInv, TypeOK, LedgerType
  <1>1. /\ ~Queueing(k) /\ ~Timing(k) /\ ~Armed(k) /\ ~HasEntry(k)
        /\ runs[k] = 0 /\ cleanups[k] = 0
        /\ timer[k] \notin {"heap", "pending"}
    BY NotHeld
  <1>2. /\ \A m \in Msgs : m # k => result'[m] = result[m] /\ runs'[m] = runs[m]
                                  /\ cleanups'[m] = cleanups[m]
        /\ runs'[k] = 0
        /\ \/ result'[k] = "retained" /\ cleanups'[k] = 0
           \/ result'[k] = "cleaned" /\ cleanups'[k] = 1
    BY <1>0, <1>1 DEF Refuse, Clean
  <1>3. ASSUME NEW m \in Msgs PROVE MsgInv(m)'
    <2>1. CASE m = k
      BY <1>1, <1>2, <2>1 DEF MsgInv, Settled, Queueing, Timing, Armed, HasEntry, placeVars
    <2>2. CASE m # k
      BY <1>2, <2>2, MsgFrame DEF placeVars
    <2> QED BY <2>1, <2>2
  <1>4. TimerHeld'
    <2>1. cur \in Msgs => cur # k
      BY <1>1 DEF Armed
    <2>2. opc = "tcallback" => cur \in Msgs
      BY DEF ShapeInv, TypeInv, OwnerShape
    <2> QED BY <1>2, <2>1, <2>2 DEF TimerHeld, Settled, placeVars
  <1>5. SubmissionsHeld'
    BY <1>2, HeldSubmission DEF SubmissionsHeld, ShapeInv, TypeInv, TypeOK
  <1>6. Unrepeated'
    BY DEF Unrepeated, placeVars
  <1>7. TeardownUnstarted'
    <2>1. \A m \in Msgs : reason'[m] = reason[m] \/ reason'[m] # "Teardown"
      BY <1>0 DEF Refuse, Clean
    <2> QED BY <2>1 DEF TeardownUnstarted
  <1> QED BY <1>3, <1>4, <1>5, <1>6, <1>7

(* The first half of a submission.                                         *)
LEMMA BooksSubmit ==
    ASSUME LedgerInv, ShapeInv', Submit
    PROVE  Books'
  <1> USE DEF LedgerInv, Books
  <1>0. /\ result \in [Msgs -> Results] /\ runs \in [Msgs -> Nat]
        /\ cleanups \in [Msgs -> Nat] /\ records \in SUBSET Msgs
        /\ sub \in [Submitters -> Submissions \cup {Idle}]
    BY DEF ShapeInv, TypeInv, TypeOK, LedgerType, RecordType
  <1>a. ASSUME NEW k \in Msgs, result[k] = "new"
        PROVE  /\ ~Delayed(k) /\ k \notin records
               /\ \A q \in Submitters : sub[q].msg # k
    <2>1. Idle.msg \notin Msgs
      BY MessagesAssumption DEF Idle
    <2>2. \A q \in Submitters : sub[q].msg # k
      BY <1>a, <2>1 DEF SubmissionsHeld
    <2> QED BY <1>a, <2>2, NotHeld DEF Delayed
  <1>b. ASSUME NEW k \in Msgs, NEW r \in BOOLEAN, NEW why \in Reasons \ {"Teardown"},
               result[k] = "new", Refuse(k, r, why),
               UNCHANGED <<queueVars, loopVars, localVars, lifecycle, opc, records, sub, fault>>
        PROVE  Books'
    <2>1. /\ records' = records \ {k} /\ fault' = "none"
          /\ UNCHANGED <<placeVars, timer, opc, lifecycle>>
      BY <1>a, <1>b DEF queueVars, loopVars, localVars, placeVars
    <2>2. \A m \in Msgs : Delayed(m)' <=> Delayed(m)
      BY <1>b DEF Delayed
    <2>3. /\ \A q \in Submitters : sub'[q] # Idle => sub'[q] = sub[q] /\ sub[q].msg # k
          /\ \A p, q \in Submitters : p # q /\ sub'[p] # Idle => sub'[p].msg # sub'[q].msg
      BY <1>a, <1>b DEF SubmissionsHeld
    <2> QED BY <1>a, <1>b, <2>1, <2>2, <2>3, BooksRefuse
  <1>1. ASSUME NEW p \in Submitters, NEW k \in Msgs, NEW r \in BOOLEAN,
               RejectUndeliverable(p, k, r)
        PROVE  Books'
    <2>1. "TargetUnavailable" \in Reasons \ {"Teardown"}
      BY DEF Reasons
    <2> QED BY <1>b, <1>1, <2>1 DEF RejectUndeliverable
  <1>2. ASSUME NEW p \in Submitters, NEW k \in Msgs, NEW d \in BOOLEAN,
               NEW r \in BOOLEAN, SubmitCheck(p, k, d, r)
        PROVE  Books'
    <2>1. CASE ~admission
      <3>1. "AdmissionClosed" \in Reasons \ {"Teardown"}
        BY DEF Reasons
      <3> QED BY <1>b, <1>2, <2>1, <3>1 DEF SubmitCheck
    <2>2. CASE admission
      <3> DEFINE s == [msg |-> k, delayed |-> d, retain |-> r]
      <3>1. /\ result[k] = "new" /\ sub[p] = Idle /\ sub'[p] = s
            /\ \A q \in Submitters : q # p => sub'[q] = sub[q]
            /\ result'[k] = "submitting"
            /\ \A m \in Msgs : m # k => result'[m] = result[m]
            /\ records' = IF d THEN records \cup {k} ELSE records
            /\ UNCHANGED <<runs, cleanups, reason, placeVars, timer, opc, lifecycle, fault>>
        BY <1>0, <1>2, <2>2
           DEF SubmitCheck, MaySubmit, queueVars, loopVars, localVars, placeVars
      <3>2. /\ ~Queueing(k) /\ ~Timing(k) /\ ~Armed(k) /\ ~HasEntry(k)
            /\ runs[k] = 0 /\ cleanups[k] = 0
            /\ timer[k] \notin {"heap", "pending"} /\ k \notin records
            /\ \A q \in Submitters : sub[q].msg # k
        BY <1>a, <3>1, NotHeld
      <3>3. s.msg = k /\ s.delayed = d /\ s # Idle
        BY MessagesAssumption DEF Idle
      <3> HIDE DEF s
      <3>4. ASSUME NEW m \in Msgs PROVE MsgInv(m)'
        <4>1. CASE m = k
          <5>1. Delayed(k)' <=> d
            BY <3>1, <3>2, <3>3 DEF Delayed
          <5> QED BY <3>1, <3>2, <4>1, <5>1
              DEF MsgInv, Settled, Queueing, Timing, Armed, HasEntry, placeVars
        <4>2. CASE m # k
          <5>1. Idle.msg \notin Msgs
            BY MessagesAssumption DEF Idle
          <5>2. \A q \in Submitters : sub'[q].msg = m => q # p
            BY <3>1, <3>3, <4>2
          <5>3. \A q \in Submitters : sub[q].msg = m => q # p
            BY <3>1, <5>1
          <5>4. Delayed(m)' <=> Delayed(m)
            BY <3>1, <5>2, <5>3 DEF Delayed
          <5>5. m \in records' <=> m \in records
            BY <3>1, <4>2
          <5> QED BY <3>1, <4>2, <5>4, <5>5, MsgFrame DEF placeVars
        <4> QED BY <4>1, <4>2
      <3>5. TimerHeld'
        <4>1. cur # k
          BY <3>2 DEF Armed
        <4>2. opc = "tcallback" => cur \in Msgs
          BY DEF ShapeInv, TypeInv, OwnerShape
        <4> QED BY <3>1, <4>1, <4>2 DEF TimerHeld, Settled, placeVars
      <3>6. SubmissionsHeld'
        <4>1. \A q \in Submitters : sub[q] # Idle => sub[q].msg \in Msgs
          BY HeldSubmission DEF ShapeInv, TypeInv, TypeOK
        <4>2. ASSUME NEW q \in Submitters, sub'[q] # Idle
              PROVE  /\ result'[sub'[q].msg] = "submitting"
                     /\ sub'[q].delayed => sub'[q].msg \in records'
          BY <3>1, <3>2, <3>3, <4>1, <4>2 DEF SubmissionsHeld
        <4>3. ASSUME NEW q \in Submitters, NEW o \in Submitters, q # o, sub'[q] # Idle
              PROVE  sub'[q].msg # sub'[o].msg
          BY <3>1, <3>2, <3>3, <4>3 DEF SubmissionsHeld
        <4> QED BY <4>2, <4>3 DEF SubmissionsHeld
      <3>7. Unrepeated' /\ TeardownUnstarted' /\ fault' = "none"
        BY <3>1 DEF Unrepeated, placeVars, TeardownUnstarted
      <3> QED BY <3>4, <3>5, <3>6, <3>7
    <2> QED BY <2>1, <2>2
  <1>3. ASSUME NEW k \in Msgs, SendInline(k)
        PROVE  Books'
    <2>1. /\ result[k] = "new" /\ result'[k] = "inline" /\ runs'[k] = runs[k] + 1
          /\ \A m \in Msgs : m # k => result'[m] = result[m] /\ runs'[m] = runs[m]
          /\ UNCHANGED <<cleanups, reason, placeVars, timer, opc, lifecycle, records, sub, fault>>
      BY <1>0, <1>3 DEF SendInline, Run, queueVars, loopVars, localVars, placeVars
    <2>2. /\ ~Queueing(k) /\ ~Timing(k) /\ ~Armed(k) /\ ~HasEntry(k)
          /\ runs[k] = 0 /\ cleanups[k] = 0
          /\ timer[k] \notin {"heap", "pending"} /\ k \notin records
      BY <1>a, <2>1, NotHeld
    <2>3. \A m \in Msgs : Delayed(m)' <=> Delayed(m)
      BY <2>1 DEF Delayed
    <2>4. ASSUME NEW m \in Msgs PROVE MsgInv(m)'
      <3>1. CASE m = k
        BY <2>1, <2>2, <2>3, <3>1, <1>a DEF MsgInv, Settled, Queueing, Timing, Armed, HasEntry, placeVars
      <3>2. CASE m # k
        BY <2>1, <2>3, <3>2, MsgFrame DEF placeVars
      <3> QED BY <3>1, <3>2
    <2>5. TimerHeld'
      <3>1. cur # k
        BY <2>2 DEF Armed
      <3>2. opc = "tcallback" => cur \in Msgs
        BY DEF ShapeInv, TypeInv, OwnerShape
      <3> QED BY <2>1, <3>1, <3>2 DEF TimerHeld, Settled, placeVars
    <2>6. SubmissionsHeld'
      <3>1. \A q \in Submitters : sub[q] # Idle => sub[q].msg \in Msgs
        BY HeldSubmission DEF ShapeInv, TypeInv, TypeOK
      <3> QED BY <2>1, <3>1 DEF SubmissionsHeld
    <2>7. Unrepeated' /\ TeardownUnstarted' /\ fault' = "none"
      BY <2>1 DEF Unrepeated, placeVars, TeardownUnstarted
    <2> QED BY <2>4, <2>5, <2>6, <2>7
  <1> QED BY <1>1, <1>2, <1>3 DEF Submit

(* The second half: a refusal under the lock,                              *)
LEMMA BooksRefused ==
    ASSUME LedgerInv, ShapeInv', NEW p \in Submitters, sub[p] # Idle,
           NEW why \in Reasons \ {"Teardown"}, RefuseHeld(sub[p], why),
           sub' = [sub EXCEPT ![p] = Idle],
           UNCHANGED <<placeVars, timer, opc, lifecycle>>
    PROVE  Books'
  <1> USE DEF LedgerInv, Books
  <1>1. PICK s : s = sub[p]
    OBVIOUS
  <1>2. /\ \A m \in Msgs : m # s.msg => (Delayed(m)' <=> Delayed(m))
        /\ ~Delayed(s.msg)' /\ (Delayed(s.msg) <=> s.delayed)
        /\ s \in Submissions /\ s.msg \in Msgs /\ result[s.msg] = "submitting"
        /\ \A q \in Submitters : sub'[q] # Idle => sub'[q] = sub[q] /\ sub[q].msg # s.msg
    BY <1>1, SubReleased
  <1>3. s.msg \in records <=> s.delayed
    BY <1>2, NotHeld
  <1>4. records' = records \ {s.msg} /\ fault' = "none"
    BY <1>1, <1>3, <1>2 DEF RefuseHeld, Release, Submissions
  <1>5. \A o, q \in Submitters : o # q /\ sub'[o] # Idle => sub'[o].msg # sub'[q].msg
    <2>1. Idle.msg \notin Msgs
      BY MessagesAssumption DEF Idle
    <2>2. \A q \in Submitters : sub[q] # Idle => sub[q].msg \in Msgs
      BY HeldSubmission DEF ShapeInv, TypeInv, TypeOK
    <2>3. SubmissionsHeld
      OBVIOUS
    <2> QED BY <1>2, <2>1, <2>2, <2>3 DEF SubmissionsHeld
  <1>6. s.retain \in BOOLEAN /\ Refuse(s.msg, s.retain, why)
    BY <1>1, <1>2 DEF RefuseHeld, Submissions
  <1> QED BY <1>2, <1>4, <1>5, <1>6, BooksRefuse

(* or an acceptance, which moves the message to the queue or to the timed  *)
(* list.                                                                   *)
LEMMA BooksAccepted ==
    ASSUME LedgerInv, ShapeInv', NEW p \in Submitters, sub[p] # Idle,
           sub' = [sub EXCEPT ![p] = Idle], Accept(sub[p].msg),
           \/ Push(EntryOf(sub[p])) /\ UNCHANGED <<timed, timer>>
           \/ Arm(sub[p].msg) /\ sub[p].delayed /\ UNCHANGED queued,
           UNCHANGED <<batch, taken, takenTimed, cur, opc, lifecycle, records, fault>>
    PROVE  Books'
  <1> USE DEF LedgerInv, Books
  <1>1. PICK s : s = sub[p]
    OBVIOUS
  <1>2. /\ \A m \in Msgs : m # s.msg => (Delayed(m)' <=> Delayed(m))
        /\ ~Delayed(s.msg)' /\ (Delayed(s.msg) <=> s.delayed)
        /\ s \in Submissions /\ s.msg \in Msgs /\ result[s.msg] = "submitting"
        /\ \A q \in Submitters : sub'[q] # Idle => sub'[q] = sub[q] /\ sub[q].msg # s.msg
    BY <1>1, SubReleased
  <1> DEFINE k == s.msg
  <1>0. /\ result \in [Msgs -> Results] /\ timer \in [Msgs -> TimerStates]
        /\ queued \in Seq(Entries) /\ EntryOf(s) \in Entries
        /\ EntryOf(s).msg = k /\ EntryOf(s).setup = s.delayed
    BY <1>2 DEF ShapeInv, TypeInv, TypeOK, LedgerType, LoopType, QueueType, EntryOf,
                Entries, Submissions
  <1>3. /\ ~Queueing(k) /\ ~Timing(k) /\ ~Armed(k) /\ ~HasEntry(k)
        /\ runs[k] = 0 /\ cleanups[k] = 0
        /\ timer[k] \notin {"heap", "pending"} /\ (k \in records <=> s.delayed)
    BY <1>2, NotHeld
  <1>4. /\ result'[k] = "accepted" /\ UNCHANGED <<runs, cleanups, reason>>
        /\ \A m \in Msgs : m # k => result'[m] = result[m]
    BY <1>0, <1>1, <1>2 DEF Accept
  <1>5. \/ /\ \A m \in Msgs : m # k => (In(m, queued') <=> In(m, queued))
           /\ \A m \in Msgs : m # k => (Wrapped(m, queued') <=> Wrapped(m, queued))
           /\ In(k, queued') /\ (Wrapped(k, queued') <=> s.delayed)
           /\ Distinct(queued') /\ UNCHANGED <<timed, timer>>
        \/ /\ timed' = timed \cup {k} /\ s.delayed /\ UNCHANGED queued
           /\ \A m \in Msgs : m # k => timer'[m] = timer[m]
    <2>1. CASE Push(EntryOf(sub[p])) /\ UNCHANGED <<timed, timer>>
      <3>1. queued' = Append(queued, EntryOf(s))
        BY <1>1, <2>1 DEF Push
      <3>2. ~In(k, queued) /\ ~Wrapped(k, queued) /\ Distinct(queued)
        BY <1>3, WrappedIn DEF Queueing, Unrepeated
      <3> QED BY <1>0, <2>1, <3>1, <3>2, PushEntries
    <2>2. CASE Arm(sub[p].msg) /\ sub[p].delayed /\ UNCHANGED queued
      BY <1>0, <1>1, <2>2 DEF Arm
    <2> QED BY <2>1, <2>2
  <1> HIDE DEF k
  <1>6. ASSUME NEW m \in Msgs PROVE MsgInv(m)'
    <2>1. CASE m = k
      <3>1. ~Delayed(m)'
        BY <1>2, <2>1 DEF k
      <3> QED BY <1>3, <1>4, <1>5, <2>1, <3>1
          DEF MsgInv, Settled, Queueing, Timing, Armed, HasEntry
    <2>2. CASE m # k
      <3>1. MsgInv(m) /\ (Delayed(m)' <=> Delayed(m))
        BY <1>2, <2>2 DEF k
      <3> QED BY <1>4, <1>5, <2>2, <3>1
          DEF MsgInv, Settled, Queueing, Timing, Armed, HasEntry
    <2> QED BY <2>1, <2>2
  <1>7. TimerHeld'
    <2>1. cur # k
      BY <1>3 DEF Armed
    <2>2. opc = "tcallback" => cur \in Msgs
      BY DEF ShapeInv, TypeInv, OwnerShape
    <2> QED BY <1>4, <1>5, <2>1, <2>2 DEF TimerHeld, Settled
  <1>8. SubmissionsHeld'
    <2>1. Idle.msg \notin Msgs
      BY MessagesAssumption DEF Idle
    <2>2. \A q \in Submitters : sub[q] # Idle => sub[q].msg \in Msgs
      BY HeldSubmission DEF ShapeInv, TypeInv, TypeOK
    <2>3. SubmissionsHeld
      OBVIOUS
    <2> QED BY <1>2, <1>4, <2>1, <2>2, <2>3 DEF SubmissionsHeld, k
  <1>9. Unrepeated' /\ TeardownUnstarted' /\ fault' = "none"
    BY <1>4, <1>5 DEF Unrepeated, TeardownUnstarted
  <1> QED BY <1>6, <1>7, <1>8, <1>9

(* The whole second half.                                                  *)
LEMMA BooksTransact ==
    ASSUME LedgerInv, ShapeInv', (\E p \in Submitters : Transact(p)) \/ OwnerArm
    PROVE  Books'
  <1> USE DEF queueVars, loopVars, localVars, placeVars
  <1>0. "AdmissionClosed" \in Reasons \ {"Teardown"} /\ "EnqueueFailure" \in Reasons \ {"Teardown"}
    BY DEF Reasons
  <1>1. ASSUME NEW p \in Submitters, EnqueueRefused(p) PROVE Books'
    BY <1>0, <1>1, BooksRefused DEF EnqueueRefused, Queues
  <1>2. ASSUME NEW p \in Submitters, EnqueueWakeFailed(p) PROVE Books'
    BY <1>0, <1>2, BooksRefused DEF EnqueueWakeFailed, Queues
  <1>3. ASSUME NEW p \in Submitters, EnqueueCoalesced(p) PROVE Books'
    BY <1>3, BooksAccepted DEF EnqueueCoalesced, Queues
  <1>4. ASSUME NEW p \in Submitters, EnqueueWoken(p) PROVE Books'
    BY <1>4, BooksAccepted DEF EnqueueWoken, Queues
  <1>5. CASE OwnerArm
    <2>1. Owner \in Submitters
      BY DEF Submitters
    <2>2. CASE MayArm
      BY <1>5, <2>1, <2>2, BooksAccepted DEF OwnerArm
    <2>3. CASE ~MayArm
      BY <1>0, <1>5, <2>1, <2>3, BooksRefused DEF OwnerArm
    <2> QED BY <2>2, <2>3
  <1> QED BY <1>1, <1>2, <1>3, <1>4, <1>5 DEF Transact

(* The first entry of the batch or of a cancellation list, and how the     *)
(* lists look without it.                                                  *)
Leaves(e) ==
    \/ /\ batch # << >> /\ e = Head(batch)
       /\ batch' = Tail(batch) /\ UNCHANGED taken
    \/ /\ taken # << >> /\ e = Head(taken)
       /\ taken' = Tail(taken) /\ UNCHANGED batch

(* What is known of an entry that leaves the queue or a batch.             *)
LEMMA EntryLeaves ==
    ASSUME LedgerInv, NEW e, Leaves(e), UNCHANGED queued
    PROVE  /\ e \in Entries /\ e.msg \in Msgs /\ e.setup \in BOOLEAN /\ cur = NoMsg
           /\ result[e.msg] = "accepted" /\ runs[e.msg] = 0 /\ cleanups[e.msg] = 0
           /\ ~Timing(e.msg) /\ ~Armed(e.msg) /\ ~Delayed(e.msg)
           /\ e.msg \in records <=> e.setup
           /\ ~In(e.msg, batch') /\ ~In(e.msg, queued') /\ ~In(e.msg, taken')
           /\ \A m \in Msgs : m # e.msg =>
                 /\ In(m, batch') <=> In(m, batch)
                 /\ In(m, taken') <=> In(m, taken)
                 /\ Wrapped(m, batch') <=> Wrapped(m, batch)
                 /\ Wrapped(m, taken') <=> Wrapped(m, taken)
           /\ Distinct(batch') /\ Distinct(queued') /\ Distinct(taken')
  <1> USE DEF LedgerInv, Books
  <1>0. /\ batch \in Seq(Entries) /\ taken \in Seq(Entries) /\ queued \in Seq(Entries)
        /\ runs \in [Msgs -> Nat] /\ cleanups \in [Msgs -> Nat]
    BY DEF ShapeInv, TypeInv, TypeOK, LedgerType, LocalType, QueueType
  <1>1. e \in Entries
    BY <1>0, HeadTail DEF Leaves
  <1>2. e.msg \in Msgs /\ e.setup \in BOOLEAN
    BY <1>1 DEF Entries
  <1>3. /\ batch # << >> => taken = << >> /\ cur = NoMsg
        /\ taken # << >> => batch = << >> /\ queued = << >> /\ cur = NoMsg
    BY DEF ShapeInv, OwnerLists
  <1>4. /\ In(e.msg, batch) \/ In(e.msg, taken)
        /\ ~In(e.msg, batch') /\ ~In(e.msg, taken')
        /\ \A m \in Msgs : m # e.msg =>
              /\ In(m, batch') <=> In(m, batch)
              /\ In(m, taken') <=> In(m, taken)
              /\ Wrapped(m, batch') <=> Wrapped(m, batch)
              /\ Wrapped(m, taken') <=> Wrapped(m, taken)
        /\ Distinct(batch') /\ Distinct(taken')
        /\ Wrapped(e.msg, batch) \/ Wrapped(e.msg, taken) <=> e.setup
    <2>1. CASE batch # << >>
      <3>1. e = Head(batch) /\ batch' = Tail(batch) /\ taken' = << >> /\ taken = << >>
        BY <1>3, <2>1 DEF Leaves
      <3> QED BY <1>0, <2>1, <3>1, HeadEntries, NoEntries, WrappedIn DEF Unrepeated
    <2>2. CASE taken # << >>
      <3>1. e = Head(taken) /\ taken' = Tail(taken) /\ batch' = << >> /\ batch = << >>
        BY <1>3, <2>2 DEF Leaves
      <3> QED BY <1>0, <2>2, <3>1, HeadEntries, NoEntries, WrappedIn DEF Unrepeated
    <2> QED BY <2>1, <2>2 DEF Leaves
  <1>5. ~In(e.msg, queued) /\ ~Wrapped(e.msg, queued)
    <2>1. CASE batch # << >>
      <3>1. In(e.msg, batch)
        BY <1>3, <1>4, <2>1, NoEntries
      <3> QED BY <1>2, <3>1, WrappedIn DEF MsgInv
    <2>2. CASE taken # << >>
      BY <1>3, <2>2, NoEntries
    <2> QED BY <2>1, <2>2 DEF Leaves
  <1>6. /\ result[e.msg] = "accepted" /\ Settled(e.msg) = 0 /\ ~Timing(e.msg)
    BY <1>2, <1>4 DEF MsgInv, Queueing
  <1>7. cur = NoMsg /\ e.msg # NoMsg
    BY <1>2, <1>3, MessagesAssumption DEF Leaves
  <1>8. ~Armed(e.msg)
    BY <1>6, <1>7 DEF Armed, Timing
  <1>9. ~Delayed(e.msg)
    <2>1. \A q \in Submitters : sub[q].msg = e.msg => sub[q] # Idle
      BY <1>7 DEF Idle
    <2> QED BY <1>6, <2>1 DEF Delayed, SubmissionsHeld
  <1>10. e.msg \in records <=> e.setup
    BY <1>2, <1>4, <1>5, <1>8, <1>9 DEF MsgInv, HasEntry
  <1>11. runs[e.msg] = 0 /\ cleanups[e.msg] = 0
    BY <1>0, <1>2, <1>6 DEF Settled
  <1>12. Distinct(queued')
    BY DEF Unrepeated
  <1> QED BY <1>1, <1>2, <1>4, <1>5, <1>6, <1>7, <1>8, <1>9, <1>10, <1>11, <1>12

(* Such an entry is run or cancelled, with its record.                     *)
LEMMA BooksSettle ==
    ASSUME LedgerInv, ShapeInv', NEW e, Leaves(e), NEW why,
           UNCHANGED <<queued, timed, takenTimed, cur, timer, sub, result>>,
           \/ Run(e.msg) /\ ~e.setup /\ UNCHANGED <<records, fault>>
           \/ CleanEntry(e, why),
           TeardownUnstarted'
    PROVE  Books'
  <1> USE DEF LedgerInv, Books
  <1> DEFINE k == e.msg
  <1>0. runs \in [Msgs -> Nat] /\ cleanups \in [Msgs -> Nat]
    BY DEF ShapeInv, TypeInv, TypeOK, LedgerType
  <1>1. /\ k \in Msgs /\ e.setup \in BOOLEAN /\ cur = NoMsg
        /\ result[k] = "accepted" /\ runs[k] = 0 /\ cleanups[k] = 0
        /\ ~Timing(k) /\ ~Armed(k) /\ ~Delayed(k)
        /\ k \in records <=> e.setup
        /\ ~In(k, batch') /\ ~In(k, queued') /\ ~In(k, taken')
        /\ \A m \in Msgs : m # k =>
              /\ In(m, batch') <=> In(m, batch)
              /\ In(m, taken') <=> In(m, taken)
              /\ Wrapped(m, batch') <=> Wrapped(m, batch)
              /\ Wrapped(m, taken') <=> Wrapped(m, taken)
        /\ Distinct(batch') /\ Distinct(queued') /\ Distinct(taken')
    BY EntryLeaves
  <1>2. /\ runs'[k] + cleanups'[k] = 1
        /\ \A m \in Msgs : m # k => runs'[m] = runs[m] /\ cleanups'[m] = cleanups[m]
        /\ records' = records \ {k} /\ fault' = "none"
    BY <1>0, <1>1 DEF Run, CleanEntry, Clean, Release
  <1>3. \A m \in Msgs : Delayed(m)' <=> Delayed(m)
    BY DEF Delayed
  <1>4. opc' # "tcheck"
    BY <1>1 DEF ShapeInv, OwnerLists
  <1>5. timer[k] \notin {"heap", "pending"}
    BY <1>1 DEF MsgInv
  <1> HIDE DEF k
  <1>6. ASSUME NEW m \in Msgs PROVE MsgInv(m)'
    <2>1. CASE m = k
      <3>1. /\ ~Wrapped(m, batch') /\ ~Wrapped(m, queued') /\ ~Wrapped(m, taken')
            /\ Settled(m)' = 1
        BY <1>1, <1>2, <2>1, WrappedIn DEF Settled
      <3>2. ~Queueing(m)' /\ ~Timing(m)' /\ ~Armed(m)' /\ ~HasEntry(m)'
        BY <1>1, <2>1, <3>1, <1>4 DEF Queueing, Timing, Armed, HasEntry
      <3> QED BY <1>1, <1>2, <1>3, <1>5, <2>1, <3>1, <3>2 DEF MsgInv
    <2>2. CASE m # k
      <3>1. cur # m
        BY <1>1, MessagesAssumption
      <3> QED BY <1>1, <1>2, <1>3, <1>4, <2>2, <3>1
          DEF MsgInv, Settled, Queueing, Timing, Armed, HasEntry
    <2> QED BY <2>1, <2>2
  <1>7. TimerHeld'
    BY <1>1 DEF TimerHeld, ShapeInv, OwnerLists
  <1>8. SubmissionsHeld'
    <2>1. \A q \in Submitters : sub[q] # Idle => sub[q].msg # k
      BY <1>1 DEF SubmissionsHeld
    <2> QED BY <1>2, <2>1 DEF SubmissionsHeld
  <1> QED BY <1>1, <1>2, <1>6, <1>7, <1>8 DEF Unrepeated

(* Only the rollback of an unstarted worker gives the teardown reason.     *)
LEMMA NoTeardown ==
    ASSUME TeardownUnstarted,
           \A m \in Msgs : reason'[m] = "Teardown" => reason[m] = "Teardown",
           opc \notin {"destroy", "gone"} \/ UNCHANGED <<opc, lifecycle>>
    PROVE  TeardownUnstarted'
  BY DEF TeardownUnstarted

(* Only the teardown gives the teardown as a reason.                       *)
LEMMA CleanReason ==
    ASSUME LedgerInv, NEW k \in Msgs, NEW why, why # "Teardown", Clean(k, why)
    PROVE  \A m \in Msgs : reason'[m] = "Teardown" => reason[m] = "Teardown"
  <1>1. reason \in [Msgs -> Reasons]
    BY DEF LedgerInv, ShapeInv, TypeInv, TypeOK, LedgerType
  <1> QED BY <1>1 DEF Clean

(* The drain moves a prefix of the queue to its batch,                     *)
LEMMA BooksTake ==
    ASSUME LedgerInv, ShapeInv', DrainTake
    PROVE  Books'
  <1> USE DEF LedgerInv, Books
  <1>1. /\ UNCHANGED <<taken, takenTimed, timed, cur, timer, result, runs, cleanups,
                       reason, records, sub, fault>>
        /\ opc = "drain" /\ opc' # "tcheck"
    BY DEF DrainTake, loopVars, ledgerVars
  <1>2. TeardownUnstarted' /\ cur = NoMsg /\ batch = << >>
    BY <1>1, NoTeardown DEF ShapeInv, OwnerLists
  <1>3. CASE UNCHANGED <<batch, queued>>
    BY <1>1, <1>2, <1>3, BooksFrame DEF bookVars, placeVars
  <1>4. CASE normalOpen /\ queued # << >>
    <2>0. queued \in Seq(Entries) /\ BatchSize \in Nat \ {0}
      BY MessagesAssumption DEF ShapeInv, TypeInv, TypeOK, QueueType
    <2>1. PICK n : n = Smaller(BatchSize, Len(queued))
      OBVIOUS
    <2>2. n \in 0 .. Len(queued)
      BY <2>0, <2>1 DEF Smaller
    <2>3. batch' = SubSeq(queued, 1, n) /\ queued' = SubSeq(queued, n + 1, Len(queued))
      BY <1>4, <2>1 DEF DrainTake
    <2>4. /\ \A m : In(m, queued) <=> In(m, batch') \/ In(m, queued')
          /\ \A m : Wrapped(m, queued) <=> Wrapped(m, batch') \/ Wrapped(m, queued')
          /\ Distinct(batch') /\ Distinct(queued')
          /\ \A m : ~(In(m, batch') /\ In(m, queued'))
      BY <2>0, <2>2, <2>3, CutEntries DEF Unrepeated
    <2>5. \A m : ~In(m, batch) /\ ~Wrapped(m, batch)
      BY <1>2, NoEntries
    <2>6. ASSUME NEW m \in Msgs PROVE MsgInv(m)'
      <3>1. Delayed(m)' <=> Delayed(m)
        BY <1>1 DEF Delayed
      <3>2. MsgInv(m)
        OBVIOUS
      <3> QED BY <1>1, <2>4, <2>5, <3>1, <3>2
          DEF MsgInv, Settled, Queueing, Timing, Armed, HasEntry
    <2>7. TimerHeld' /\ Unrepeated' /\ SubmissionsHeld'
      BY <1>1, <1>2, <2>4
         DEF TimerHeld, Unrepeated, SubmissionsHeld, ShapeInv, OwnerLists
    <2> QED BY <1>1, <1>2, <2>6, <2>7
  <1> QED BY <1>3, <1>4 DEF DrainTake

(* a wrapper's record moves from the batch to the timed list,              *)
LEMMA BooksArm ==
    ASSUME LedgerInv, ShapeInv', opc = "start", Head(batch).setup, Arm(Head(batch).msg),
           batch' = Tail(batch), opc' = "next",
           UNCHANGED <<runs, cleanups, reason, records, fault, queued, cur, taken,
                       takenTimed, result, sub>>
    PROVE  Books'
  <1> USE DEF LedgerInv, Books
  <1>1. PICK e : e = Head(batch)
    OBVIOUS
  <1>2. Leaves(e)
    BY <1>1 DEF Leaves, ShapeInv, TypeInv, OwnerShape
  <1> DEFINE k == e.msg
  <1>3. /\ k \in Msgs /\ e.setup \in BOOLEAN /\ cur = NoMsg
        /\ result[k] = "accepted" /\ runs[k] = 0 /\ cleanups[k] = 0
        /\ ~Timing(k) /\ ~Armed(k) /\ ~Delayed(k)
        /\ k \in records <=> e.setup
        /\ ~In(k, batch') /\ ~In(k, queued') /\ ~In(k, taken')
        /\ \A m \in Msgs : m # k =>
              /\ In(m, batch') <=> In(m, batch)
              /\ Wrapped(m, batch') <=> Wrapped(m, batch)
        /\ Distinct(batch') /\ Distinct(queued') /\ Distinct(taken')
    BY <1>2, EntryLeaves
  <1>4. /\ timed' = timed \cup {k} /\ k \in records'
        /\ \A m \in Msgs : m # k => timer'[m] = timer[m]
    BY <1>1, <1>3 DEF Arm, ShapeInv, TypeInv, TypeOK, LoopType
  <1>5. \A m \in Msgs : Delayed(m)' <=> Delayed(m)
    BY DEF Delayed
  <1> HIDE DEF k
  <1>6. ASSUME NEW m \in Msgs PROVE MsgInv(m)'
    <2>1. CASE m = k
      <3>1. ~Queueing(m)' /\ Settled(m)' = 0
        BY <1>3, <2>1 DEF Queueing, Settled
      <3>2. Timing(m)' /\ Armed(m)'
        BY <1>4, <2>1 DEF Timing, Armed
      <3> QED BY <1>3, <1>4, <2>1, <3>1, <3>2 DEF MsgInv
    <2>2. CASE m # k
      <3>1. cur # m
        BY <1>3, MessagesAssumption
      <3> QED BY <1>3, <1>4, <1>5, <2>2, <3>1
          DEF MsgInv, Settled, Queueing, Timing, Armed, HasEntry
    <2> QED BY <2>1, <2>2
  <1>7. TeardownUnstarted'
    BY NoTeardown
  <1>8. TimerHeld' /\ SubmissionsHeld' /\ Unrepeated'
    BY <1>3 DEF TimerHeld, SubmissionsHeld, Unrepeated
  <1> QED BY <1>6, <1>7, <1>8

(* and the rest of the drain settles entries or moves nothing.             *)
LEMMA BooksDrain ==
    ASSUME LedgerInv, ShapeInv', PopRoot \/ Drain
    PROVE  Books'
  <1> USE DEF LedgerInv, queueVars, loopVars, localVars, ledgerVars, dataVars, placeVars, bookVars
  <1>1. TeardownUnstarted
    BY DEF Books
  <1>2. opc \in {"poll", "popped", "drain", "next", "start", "cancel", "callback", "post"} =>
           cur = NoMsg
    BY DEF ShapeInv, OwnerLists
  <1>3. CASE PopRoot
    BY <1>1, <1>2, <1>3, NoTeardown, BooksFrame DEF PopRoot
  <1>4. CASE RunRoot \/ DrainNext \/ DrainReturn \/ DrainFallback
    BY <1>1, <1>2, <1>4, NoTeardown, BooksFrame DEF RunRoot, DrainNext, DrainReturn, DrainFallback
  <1>5. CASE DrainStop \/ DrainSuccessor
    BY <1>1, <1>2, <1>5, NoTeardown, BooksFrame DEF DrainStop, DrainSuccessor
  <1>6. CASE DrainTake
    BY <1>6, BooksTake
  <1>7. CASE DrainCancel
    <2>1. PICK e : e = Head(batch)
      OBVIOUS
    <2>2. Leaves(e) /\ CleanEntry(e, "Quiesced")
      BY <1>7, <2>1 DEF DrainCancel, Leaves
    <2>3. e.msg \in Msgs
      BY <1>7, <2>2, EntryLeaves DEF DrainCancel
    <2>4. TeardownUnstarted'
      BY <1>1, <1>7, <2>2, <2>3, CleanReason, NoTeardown DEF DrainCancel, CleanEntry
    <2> QED BY <1>7, <2>2, <2>4, BooksSettle DEF DrainCancel
  <1>8. CASE DrainStart
    <2>1. PICK e : e = Head(batch)
      OBVIOUS
    <2>2. Leaves(e) /\ Run(e.msg) /\ ~e.setup
      BY <1>8, <2>1 DEF DrainStart, Leaves, ShapeInv, TypeInv, OwnerShape
    <2>3. TeardownUnstarted'
      BY <1>1, <1>8, <2>2, NoTeardown DEF DrainStart, Run
    <2> QED BY <1>8, <2>2, <2>3, BooksSettle DEF DrainStart
  <1>9. CASE DrainSetup
    <2>1. CASE MayArm
      BY <1>9, <2>1, BooksArm DEF DrainSetup
    <2>2. CASE ~MayArm
      <3>1. PICK e : e = Head(batch)
        OBVIOUS
      <3>2. Leaves(e) /\ CleanEntry(e, "AdmissionClosed")
        BY <1>9, <2>2, <3>1 DEF DrainSetup, Leaves, ShapeInv, TypeInv, OwnerShape
      <3>3. e.msg \in Msgs
        BY <1>9, <3>2, EntryLeaves DEF DrainSetup
      <3>4. TeardownUnstarted'
        BY <1>1, <1>9, <3>2, <3>3, CleanReason, NoTeardown DEF DrainSetup, CleanEntry
      <3> QED BY <1>9, <2>2, <3>2, <3>4, BooksSettle DEF DrainSetup
    <2> QED BY <2>1, <2>2
  <1> QED BY <1>3, <1>4, <1>5, <1>6, <1>7, <1>8, <1>9 DEF Drain

(* The message whose timer is handled is held by it alone.                 *)
LEMMA HandledMessage ==
    ASSUME LedgerInv, opc \in {"timer", "tcheck", "tcallback"}
    PROVE  /\ cur \in Msgs /\ result[cur] = "accepted" /\ cur \in records /\ attached
           /\ ~In(cur, queued) /\ ~In(cur, batch) /\ ~In(cur, taken)
           /\ ~Delayed(cur) /\ cur \notin takenTimed
           /\ opc \in {"timer", "tcheck"} => runs[cur] = 0 /\ cleanups[cur] = 0
           /\ opc = "timer" => cur \in timed
           /\ opc \in {"tcheck", "tcallback"} => cur \notin timed
           /\ opc = "tcallback" => runs[cur] + cleanups[cur] = 1
  <1> USE DEF LedgerInv, Books
  <1>1. /\ cur \in Msgs /\ attached /\ cur \notin takenTimed
    BY DEF ShapeInv, TypeInv, OwnerShape, WakeInv, OwnerPhase, OwnerLists
  <1>2. cur \in records /\ MsgInv(cur)
    BY <1>1 DEF MsgInv, Armed
  <1>3. result[cur] = "accepted" /\ ~Queueing(cur) /\ (opc # "tcallback" => Settled(cur) = 0)
    BY <1>2 DEF MsgInv, Timing, TimerHeld
  <1>4. ~Delayed(cur)
    <2>1. Idle.msg # cur
      BY <1>1, MessagesAssumption DEF Idle
    <2> QED BY <1>3, <2>1 DEF Delayed, SubmissionsHeld
  <1>5. opc \in {"timer", "tcheck"} => runs[cur] = 0 /\ cleanups[cur] = 0
    BY <1>1, <1>3 DEF Settled, ShapeInv, TypeInv, TypeOK, LedgerType
  <1> QED BY <1>1, <1>2, <1>3, <1>4, <1>5 DEF Queueing, TimerHeld, Settled

(* The timer's message is settled and its record released.                 *)
LEMMA TimerGone ==
    ASSUME LedgerInv, ShapeInv', opc \in {"timer", "tcheck", "tcallback"},
           runs'[cur] + cleanups'[cur] = 1,
           \A m \in Msgs : m # cur => runs'[m] = runs[m] /\ cleanups'[m] = cleanups[m],
           timed' = timed \ {cur}, records' = records \ {cur}, DeleteTimer(cur),
           cur' = NoMsg, opc' = "poll", fault' = "none", TeardownUnstarted',
           UNCHANGED <<queued, batch, taken, takenTimed, result, sub>>
    PROVE  Books'
  <1> USE DEF LedgerInv, Books
  <1> DEFINE HM == /\ cur \in Msgs /\ result[cur] = "accepted"
                   /\ ~In(cur, queued) /\ ~In(cur, batch) /\ ~In(cur, taken)
                   /\ ~Delayed(cur) /\ cur \notin takenTimed
  <1>1. HM
    BY HandledMessage
  <1>2. PICK k : k = cur
    OBVIOUS
  <1>3. /\ timer'[k] = "none" /\ \A m \in Msgs : m # k => timer'[m] = timer[m]
    BY <1>1, <1>2 DEF DeleteTimer, ShapeInv, TypeInv, TypeOK, LoopType
  <1>4. \A m \in Msgs : Delayed(m)' <=> Delayed(m)
    BY DEF Delayed
  <1>5. ASSUME NEW m \in Msgs PROVE MsgInv(m)'
    <2>0. m # NoMsg
      BY MessagesAssumption
    <2>1. CASE m = k
      <3>1. ~Queueing(m)' /\ ~Timing(m)' /\ ~Armed(m)' /\ Settled(m)' = 1 /\ ~HasEntry(m)'
        BY <1>1, <1>2, <2>0, <2>1, WrappedIn DEF Queueing, Timing, Armed, Settled, HasEntry
      <3> QED BY <1>1, <1>2, <1>3, <1>4, <2>1, <3>1 DEF MsgInv, Queueing
    <2>2. CASE m # k
      BY <1>2, <1>3, <1>4, <2>0, <2>2 DEF MsgInv, Settled, Queueing, Timing, Armed, HasEntry
    <2> QED BY <2>1, <2>2
  <1>6. SubmissionsHeld'
    <2>1. \A q \in Submitters : sub[q] # Idle => sub[q].msg # cur
      BY <1>1 DEF SubmissionsHeld
    <2> QED BY <2>1 DEF SubmissionsHeld
  <1>7. TimerHeld' /\ Unrepeated'
    BY DEF TimerHeld, Unrepeated
  <1> QED BY <1>5, <1>6, <1>7

(* What the timers and other callbacks do to the books.                    *)
LEMMA BooksTimers ==
    ASSUME LedgerInv, ShapeInv',
           \/ IoCallback \/ IoReturn \/ RunTimed
           \/ \E m \in Msgs : TimerExpire(m) \/ TimerDispatch(m)
    PROVE  Books'
  <1> USE DEF LedgerInv, queueVars, loopVars, localVars, ledgerVars, dataVars, placeVars, bookVars
  <1>0. /\ timer \in [Msgs -> TimerStates] /\ runs \in [Msgs -> Nat]
        /\ cleanups \in [Msgs -> Nat]
    BY DEF ShapeInv, TypeInv, TypeOK, LoopType, LedgerType
  <1>1. TeardownUnstarted /\ fault = "none"
    BY DEF Books
  <1>2. opc \in {"poll", "io"} => cur = NoMsg /\ takenTimed = {}
    BY DEF ShapeInv, OwnerLists
  <1>3. CASE IoCallback \/ IoReturn
    BY <1>1, <1>2, <1>3, NoTeardown, BooksFrame DEF IoCallback, IoReturn
  <1>4. ASSUME NEW k \in Msgs, TimerExpire(k) PROVE Books'
    <2>1. TeardownUnstarted'
      BY <1>1, <1>4, NoTeardown DEF TimerExpire
    <2> QED BY <1>0, <1>2, <1>4, <2>1, BooksFrame DEF TimerExpire
  <1>5. ASSUME NEW k \in Msgs, TimerDispatch(k) PROVE Books'
    <2>1. TeardownUnstarted'
      BY <1>1, <1>5, NoTeardown DEF TimerDispatch
    <2>2. CASE ~normalOpen
      BY <1>0, <1>2, <1>5, <2>1, <2>2, BooksFrame DEF TimerDispatch
    <2>3. CASE normalOpen
      <3>1. /\ cur' = k /\ opc' = "timer" /\ opc = "poll" /\ timer[k] = "pending"
            /\ UNCHANGED <<queued, batch, taken, timed, takenTimed, timer, result, runs,
                           cleanups, records, sub>>
        BY <1>5, <2>3 DEF TimerDispatch
      <3>2. cur = NoMsg /\ takenTimed = {} /\ k \in records /\ Armed(k)
        BY <1>2, <3>1 DEF Books, MsgInv
      <3>3. k \in timed
        BY <3>2, MessagesAssumption DEF Armed
      <3>4. ASSUME NEW m \in Msgs PROVE MsgInv(m)'
        <4>1. MsgInv(m) /\ m # NoMsg
          BY MessagesAssumption DEF Books
        <4>2. Delayed(m)' <=> Delayed(m)
          BY <3>1 DEF Delayed
        <4> QED BY <3>1, <3>2, <3>3, <4>1, <4>2
            DEF MsgInv, Settled, Queueing, Timing, Armed, HasEntry
      <3>5. TimerHeld' /\ fault' = "none"
        BY <1>1, <1>5, <2>3, <3>1, <3>2, <3>3 DEF TimerHeld, TimerDispatch
      <3>6. Unrepeated' /\ SubmissionsHeld'
        BY <3>1 DEF Books, Unrepeated, SubmissionsHeld
      <3> QED BY <2>1, <3>4, <3>5, <3>6 DEF Books
    <2> QED BY <2>2, <2>3
  <1>6. CASE TimerReset
    <2>1. /\ cur \in Msgs /\ cur \in records /\ cur \in timed /\ opc = "timer"
          /\ cur' = NoMsg /\ opc' = "poll"
          /\ UNCHANGED <<queued, batch, taken, timed, takenTimed, result, runs,
                         cleanups, records, sub, fault>>
          /\ \A m \in Msgs : m # cur => timer'[m] = timer[m]
      BY <1>0, <1>6, HandledMessage DEF TimerReset
    <2>2. TeardownUnstarted'
      BY <1>1, <1>6, NoTeardown DEF TimerReset
    <2>3. ASSUME NEW m \in Msgs PROVE MsgInv(m)'
      <3>1. MsgInv(m) /\ m # NoMsg
        BY MessagesAssumption DEF Books
      <3>2. Delayed(m)' <=> Delayed(m)
        BY <2>1 DEF Delayed
      <3> QED BY <2>1, <3>1, <3>2 DEF MsgInv, Settled, Queueing, Timing, Armed, HasEntry
    <2>4. TimerHeld' /\ Unrepeated' /\ SubmissionsHeld'
      BY <2>1 DEF Books, TimerHeld, Unrepeated, SubmissionsHeld
    <2> QED BY <1>1, <2>1, <2>2, <2>3, <2>4 DEF Books
  <1>7. CASE TimerResetRefused
    <2>1. cur \in Msgs /\ cur \in records /\ cur \in timed /\ attached
          /\ runs[cur] = 0 /\ cleanups[cur] = 0
      BY <1>7, HandledMessage DEF TimerResetRefused
    <2>2. /\ runs'[cur] + cleanups'[cur] = 1 /\ fault' = "none"
          /\ \A m \in Msgs : m # cur => runs'[m] = runs[m] /\ cleanups'[m] = cleanups[m]
      BY <1>0, <1>1, <1>7, <2>1 DEF TimerResetRefused, Clean, Linked
    <2>3. TeardownUnstarted'
      BY <1>1, <1>7, <2>1, CleanReason, NoTeardown DEF TimerResetRefused
    <2> QED BY <1>7, <2>2, <2>3, TimerGone DEF TimerResetRefused, Unlink
  <1>8. CASE TimerDue
    <2>1. /\ cur \in Msgs /\ cur \in timed /\ attached /\ opc = "timer" /\ opc' = "tcheck"
          /\ timed' = timed \ {cur}
          /\ UNCHANGED <<queued, batch, taken, takenTimed, timer, result, runs, cur,
                         cleanups, records, sub>>
      BY <1>8, HandledMessage DEF TimerDue, Unlink
    <2>2. TeardownUnstarted' /\ fault' = "none"
      BY <1>1, <1>8, <2>1, NoTeardown DEF TimerDue, Linked
    <2>3. ASSUME NEW m \in Msgs PROVE MsgInv(m)'
      <3>1. MsgInv(m)
        BY DEF Books
      <3>2. Delayed(m)' <=> Delayed(m)
        BY <2>1 DEF Delayed
      <3> QED BY <2>1, <3>1, <3>2 DEF MsgInv, Settled, Queueing, Timing, Armed, HasEntry
    <2>4. TimerHeld' /\ Unrepeated' /\ SubmissionsHeld'
      BY <2>1 DEF Books, TimerHeld, Unrepeated, SubmissionsHeld
    <2> QED BY <2>2, <2>3, <2>4 DEF Books
  <1>9. CASE TimerRun
    <2>1. /\ cur \in Msgs /\ cur \notin timed /\ opc = "tcheck" /\ opc' = "tcallback"
          /\ result[cur] = "accepted" /\ ~In(cur, queued) /\ ~In(cur, batch) /\ ~In(cur, taken)
          /\ cur \notin takenTimed /\ runs[cur] = 0 /\ cleanups[cur] = 0
          /\ UNCHANGED <<queued, batch, taken, timed, takenTimed, timer, result, cur,
                         cleanups, records, sub, fault>>
      BY <1>9, HandledMessage DEF TimerRun, Run
    <2>2. TeardownUnstarted'
      BY <1>1, <1>9, NoTeardown DEF TimerRun, Run
    <2>3. /\ runs'[cur] = 1 /\ cleanups'[cur] = 0
          /\ \A m \in Msgs : m # cur => runs'[m] = runs[m]
      BY <1>0, <1>9, <2>1 DEF TimerRun, Run
    <2>4. ASSUME NEW m \in Msgs PROVE MsgInv(m)'
      <3>1. MsgInv(m)
        BY DEF Books
      <3>2. Delayed(m)' <=> Delayed(m)
        BY <2>1 DEF Delayed
      <3>3. CASE m = cur
        <4>1. Settled(m)' = 1 /\ ~Queueing(m)' /\ ~Timing(m)'
          BY <2>1, <2>3, <3>3 DEF Settled, Queueing, Timing
        <4> QED BY <2>1, <3>1, <3>2, <3>3, <4>1 DEF MsgInv, Armed, HasEntry
      <3>4. CASE m # cur
        BY <2>1, <2>3, <3>1, <3>2, <3>4 DEF MsgInv, Settled, Queueing, Timing, Armed, HasEntry
      <3> QED BY <3>3, <3>4
    <2>5. TimerHeld' /\ Unrepeated' /\ SubmissionsHeld'
      BY <2>1, <2>3 DEF Books, TimerHeld, Settled, Unrepeated, SubmissionsHeld
    <2> QED BY <1>1, <2>1, <2>2, <2>4, <2>5 DEF Books
  <1>10. CASE TimerCancelled
    <2>1. cur \in Msgs /\ cur \in records /\ cur \notin timed
          /\ runs[cur] = 0 /\ cleanups[cur] = 0
      BY <1>10, HandledMessage DEF TimerCancelled
    <2>2. /\ runs'[cur] + cleanups'[cur] = 1 /\ fault' = "none"
          /\ \A m \in Msgs : m # cur => runs'[m] = runs[m] /\ cleanups'[m] = cleanups[m]
          /\ timed' = timed \ {cur} /\ records' = records \ {cur}
      BY <1>0, <1>1, <1>10, <2>1 DEF TimerCancelled, Clean, Release
    <2>3. TeardownUnstarted'
      BY <1>1, <1>10, <2>1, CleanReason, NoTeardown DEF TimerCancelled
    <2> QED BY <1>10, <2>2, <2>3, TimerGone DEF TimerCancelled
  <1>11. CASE TimerReturn
    <2>1. cur \in Msgs /\ cur \in records /\ cur \notin timed
          /\ runs[cur] + cleanups[cur] = 1
      BY <1>11, HandledMessage DEF TimerReturn
    <2>2. /\ runs'[cur] + cleanups'[cur] = 1 /\ fault' = "none"
          /\ UNCHANGED <<runs, cleanups>>
          /\ timed' = timed \ {cur} /\ records' = records \ {cur}
      BY <1>0, <1>1, <1>11, <2>1 DEF TimerReturn, Release
    <2>3. TeardownUnstarted'
      BY <1>1, <1>11, <2>1, NoTeardown DEF TimerReturn
    <2> QED BY <1>11, <2>2, <2>3, TimerGone DEF TimerReturn
  <1> QED BY <1>3, <1>4, <1>5, <1>6, <1>7, <1>8, <1>9, <1>10, <1>11 DEF RunTimed

(* Quiesce and teardown move both collections to a cancellation list,      *)
LEMMA BooksTakePending ==
    ASSUME LedgerInv, ShapeInv', opc \in {"unstarted", "quiesce", "drained"},
           TakePending, opc' \in {"clean", "destroy"},
           UNCHANGED <<timer, batch, cur, result, runs, cleanups, reason, lifecycle,
                       records, sub, fault>>
    PROVE  Books'
  <1> USE DEF LedgerInv, Books
  <1>1. /\ taken = << >> /\ takenTimed = {} /\ batch = << >> /\ cur = NoMsg
    BY DEF ShapeInv, OwnerLists
  <1>2. /\ taken' = queued /\ takenTimed' = timed /\ queued' = << >> /\ timed' = {}
    BY DEF TakePending
  <1>3. ASSUME NEW m \in Msgs PROVE MsgInv(m)'
    <2>1. MsgInv(m) /\ m # NoMsg
      BY MessagesAssumption
    <2>2. Delayed(m)' <=> Delayed(m)
      BY DEF Delayed
    <2>3. /\ ~In(m, << >>) /\ ~Wrapped(m, << >>)
      BY NoEntries
    <2> QED BY <1>1, <1>2, <2>1, <2>2, <2>3
        DEF MsgInv, Settled, Queueing, Timing, Armed, HasEntry
  <1>4. TeardownUnstarted'
    BY NoTeardown
  <1>5. TimerHeld' /\ Unrepeated' /\ SubmissionsHeld'
    BY <1>1, <1>2, NoEntries DEF TimerHeld, Unrepeated, SubmissionsHeld
  <1> QED BY <1>3, <1>4, <1>5

(* and settle it, first the entries, then the records.                     *)
LEMMA BooksCleanTaken ==
    ASSUME LedgerInv, ShapeInv', NEW why, CleanTaken(why), TeardownUnstarted',
           UNCHANGED <<queued, timed, batch, cur, result, opc, sub>>
    PROVE  Books'
  <1> USE DEF LedgerInv, Books
  <1>1. CASE taken # << >>
    <2>1. PICK e : e = Head(taken)
      OBVIOUS
    <2>2. /\ Leaves(e) /\ CleanEntry(e, why) /\ UNCHANGED <<takenTimed, timer>>
      BY <1>1, <2>1 DEF CleanTaken, Leaves
    <2> QED BY <2>2, BooksSettle
  <1>2. CASE taken = << >>
    <2>0. /\ runs \in [Msgs -> Nat] /\ cleanups \in [Msgs -> Nat]
          /\ timer \in [Msgs -> TimerStates] /\ takenTimed \in SUBSET Msgs
      BY DEF ShapeInv, TypeInv, TypeOK, LedgerType, LoopType, LocalType
    <2>1. PICK k \in takenTimed : /\ Clean(k, why) /\ Release(k) /\ DeleteTimer(k)
                                  /\ takenTimed' = takenTimed \ {k} /\ UNCHANGED taken
      BY <1>2 DEF CleanTaken
    <2>2. k \in Msgs /\ opc \in {"clean", "destroy"} /\ timed = {} /\ cur = NoMsg
      BY <2>0, <2>1 DEF ShapeInv, OwnerLists
    <2>3. MsgInv(k) /\ Timing(k) /\ Armed(k)
      BY <2>1, <2>2 DEF Timing, Armed
    <2>4. /\ result[k] = "accepted" /\ Settled(k) = 0 /\ ~Queueing(k) /\ k \in records
      BY <2>3 DEF MsgInv
    <2>5. runs[k] = 0 /\ cleanups[k] = 0
      BY <2>0, <2>2, <2>4 DEF Settled
    <2>6. /\ runs'[k] + cleanups'[k] = 1 /\ fault' = "none" /\ records' = records \ {k}
          /\ \A m \in Msgs : m # k => runs'[m] = runs[m] /\ cleanups'[m] = cleanups[m]
          /\ timer'[k] = "none" /\ \A m \in Msgs : m # k => timer'[m] = timer[m]
      BY <2>0, <2>1, <2>2, <2>4, <2>5 DEF Clean, Release, DeleteTimer
    <2>7. \A m \in Msgs : Delayed(m)' <=> Delayed(m)
      BY DEF Delayed
    <2>8. \A q \in Submitters : sub[q].msg # k
      <3>1. Idle.msg # k
        BY <2>2, MessagesAssumption DEF Idle
      <3> QED BY <2>4, <3>1 DEF SubmissionsHeld
    <2>9. ASSUME NEW m \in Msgs PROVE MsgInv(m)'
      <3>0. m # NoMsg
        BY MessagesAssumption
      <3>1. CASE m = k
        <4>1. ~Delayed(m)'
          BY <2>8, <3>1 DEF Delayed
        <4>2. ~Queueing(m)' /\ ~HasEntry(m)'
          BY <2>1, <2>4, <3>1, WrappedIn DEF Queueing, HasEntry
        <4>3. ~Timing(m)' /\ ~Armed(m)' /\ Settled(m)' = 1
          BY <2>1, <2>2, <2>6, <3>0, <3>1 DEF Timing, Armed, Settled
        <4> QED BY <2>4, <2>6, <3>1, <4>1, <4>2, <4>3 DEF MsgInv, Queueing
      <3>2. CASE m # k
        <4>1. MsgInv(m) /\ (m \in takenTimed' <=> m \in takenTimed)
          BY <2>1, <3>2
        <4> QED BY <2>1, <2>2, <2>6, <2>7, <3>0, <3>2, <4>1
            DEF MsgInv, Settled, Queueing, Timing, Armed, HasEntry
      <3> QED BY <3>1, <3>2
    <2>10. TimerHeld' /\ Unrepeated'
      BY <2>1, <2>2 DEF TimerHeld, Unrepeated
    <2>11. SubmissionsHeld'
      BY <2>6, <2>8 DEF SubmissionsHeld
    <2> QED BY <2>6, <2>9, <2>10, <2>11
  <1> QED BY <1>1, <1>2

(* The lifecycle's steps.                                                  *)
LEMMA BooksLifecycle ==
    ASSUME LedgerInv, ShapeInv', StartThread \/ EnterLoop \/ LoopFails \/ WindDown \/ Control
    PROVE  Books'
  <1> USE DEF LedgerInv, queueVars, loopVars, localVars, ledgerVars, dataVars, placeVars, bookVars
  <1> USE Phases
  <1>0. /\ timer \in [Msgs -> TimerStates] /\ takenTimed \in SUBSET Msgs
        /\ taken \in Seq(Entries) /\ lifecycle \in 0 .. 8
    BY DEF ShapeInv, TypeInv, TypeOK, LoopType, LocalType, OwnerType
  <1>1. TeardownUnstarted
    BY DEF Books
  <1>2. opc \notin {"timer", "tcheck", "tcallback"} => cur = NoMsg
    BY DEF ShapeInv, OwnerLists
  <1>3. CASE StartThread \/ EnterLoop \/ ExitLoop \/ Spawn
    BY <1>1, <1>2, <1>3, NoTeardown, BooksFrame DEF StartThread, EnterLoop, ExitLoop, Spawn
  <1>4. CASE LoopFails
    BY <1>1, <1>2, <1>4, NoTeardown, BooksFrame DEF LoopFails
  <1>5. CASE PerformDrain \/ OpenAdmission
    BY <1>1, <1>2, <1>5, NoTeardown, BooksFrame DEF PerformDrain, OpenAdmission
  <1>6. CASE RequestQuiesce
    <2>1. opc \notin {"destroy", "gone"}
      BY <1>6 DEF RequestQuiesce, ShapeInv, WakeInv, OwnerPhase
    <2> QED BY <1>1, <1>6, <2>1, NoTeardown, BooksFrame DEF RequestQuiesce
  <1>7. CASE RequestDrain \/ RequestTeardown
    <2>1. UNCHANGED <<dataVars, opc>> /\ lifecycle # Initialized /\ lifecycle # Joined
      BY <1>0, <1>7 DEF RequestDrain, RequestTeardown, RequestPhase
    <2>2. TeardownUnstarted'
      BY <1>1, <2>1 DEF TeardownUnstarted
    <2> QED BY <2>1, <2>2, BooksFrame
  <1>8. CASE Join
    <2>1. UNCHANGED <<dataVars, opc>> /\ lifecycle' = Joined /\ opc = "gone"
      BY <1>8 DEF Join, Publish
    <2>2. TeardownUnstarted'
      BY <1>1, <2>1 DEF TeardownUnstarted
    <2> QED BY <2>1, <2>2, BooksFrame
  <1>9. CASE QuiesceTake
    BY <1>9, BooksTakePending DEF QuiesceTake
  <1>10. CASE PerformTeardown \/ DestroyUnstarted
    BY <1>10, BooksTakePending DEF PerformTeardown, DestroyUnstarted, Detach
  <1>11. CASE QuiesceClean
    <2>1. TeardownUnstarted'
      <3>1. CASE taken # << >>
        <4>1. PICK e : e = Head(taken)
          OBVIOUS
        <4>2. Leaves(e) /\ Clean(e.msg, "Quiesced")
          BY <1>11, <3>1, <4>1 DEF QuiesceClean, CleanTaken, CleanEntry, Leaves
        <4>3. e.msg \in Msgs
          BY <1>11, <4>2, EntryLeaves DEF QuiesceClean
        <4> QED BY <1>1, <1>11, <4>2, <4>3, CleanReason, NoTeardown DEF QuiesceClean
      <3>2. CASE taken = << >>
        <4>1. PICK k \in takenTimed : Clean(k, "Quiesced")
          BY <1>11, <3>2 DEF QuiesceClean, CleanTaken
        <4> QED BY <1>0, <1>1, <1>11, <4>1, CleanReason, NoTeardown DEF QuiesceClean
      <3> QED BY <3>1, <3>2
    <2> QED BY <1>11, <2>1, BooksCleanTaken DEF QuiesceClean
  <1>12. CASE DestroyClean
    <2>1. taken # << >> \/ takenTimed # {}
      BY <1>12 DEF DestroyClean, CleanTaken
    <2>2. TeardownUnstarted'
      BY <1>12, <2>1 DEF DestroyClean, TeardownUnstarted, ShapeInv, OwnerLists
    <2> QED BY <1>12, <2>2, BooksCleanTaken DEF DestroyClean
  <1>13. CASE QuiesceLoop
    <2>1. TeardownUnstarted'
      BY <1>1, <1>13, NoTeardown DEF QuiesceLoop
    <2>2. \A m \in Msgs : timer'[m] = timer[m] \/ timer'[m] \notin {"heap", "pending"}
      BY <1>0, <1>13 DEF QuiesceLoop
    <2> QED BY <1>2, <1>13, <2>1, <2>2, BooksFrame DEF QuiesceLoop
  <1>14. CASE DestroyDone
    <2>1. TeardownUnstarted'
      BY <1>0, <1>1, <1>14 DEF DestroyDone, TeardownUnstarted, Publish
    <2>2. \A m \in Msgs : timer'[m] \notin {"heap", "pending"}
      BY <1>14 DEF DestroyDone
    <2> QED BY <1>2, <1>14, <2>1, <2>2, BooksFrame DEF DestroyDone
  <1> QED BY <1>3, <1>4, <1>5, <1>6, <1>7, <1>8, <1>9, <1>10, <1>11, <1>12, <1>13, <1>14
          DEF WindDown, Control

-----------------------------------------------------------------------------
(* Every step keeps the ledger.                                            *)
LEMMA LedgerStep == LedgerInv /\ [Next]_vars => LedgerInv'
  <1> SUFFICES ASSUME LedgerInv, [Next]_vars PROVE LedgerInv'
    OBVIOUS
  <1>1. ShapeInv'
    BY ShapeStep DEF LedgerInv
  <1>2. CASE UNCHANGED vars \/ Terminated
    <2>1. UNCHANGED bookVars /\ UNCHANGED <<timer, opc, lifecycle>>
      BY <1>2 DEF Terminated, vars, dataVars, queueVars, loopVars, localVars, ledgerVars,
                  bookVars, placeVars
    <2>2. TeardownUnstarted'
      BY <2>1, NoTeardown DEF LedgerInv, Books, bookVars
    <2>3. Books'
      BY <1>1, <2>1, <2>2, BooksFrame
    <2> QED BY <1>1, <2>3 DEF LedgerInv
  <1>3. CASE Next /\ ~Terminated
    <2>1. Books'
      BY <1>1, <1>3, BooksSubmit, BooksTransact, BooksDrain, BooksTimers, BooksLifecycle
         DEF Next
    <2> QED BY <1>1, <2>1 DEF LedgerInv
  <1> QED BY <1>2, <1>3

(* The custody of messages holds for any number of messages, submitters,   *)
(* batch size and capacity: nothing that workerSubmitMessage accepts is    *)
(* lost, settled twice or held twice, no timer outlives its record, and a  *)
(* quiesced worker owes nothing.                                           *)
THEOREM LedgerKept == Spec => []MessageLedger
  <1>1. Spec => []LedgerInv
    BY LedgerInit, LedgerStep, PTL DEF Spec
  <1>2. LedgerInv => MessageLedger
    BY LedgerHolds
  <1> QED BY <1>1, <1>2, PTL

-----------------------------------------------------------------------------
(* Messages leave in the order of their acceptance: the shapes a step can  *)
(* give to the waiting entries.                                            *)
OrderKept(w, v) ==
    \E k \in 0 .. Len(w) :
        LET kept == SubSeq(w, k + 1, Len(w))
            n == Len(kept)
        IN  /\ n <= Len(v)
            /\ SubSeq(v, 1, n) = kept
            /\ \A j \in n + 1 .. Len(v) : ~In(v[j].msg, w)

(* A queue that stays keeps the order,                                     *)
LEMMA OrderSame ==
    ASSUME NEW w \in Seq(Entries)
    PROVE  OrderKept(w, w)
  <1>1. Len(w) \in Nat /\ SubSeq(w, 1, Len(w)) = w
    BY SubSeqFull
  <1>2. 0 \in 0 .. Len(w) /\ 0 + 1 = 1
    BY <1>1
  <1> QED BY <1>1, <1>2 DEF OrderKept

(* so does one whose first entry left,                                     *)
LEMMA OrderFirstOut ==
    ASSUME NEW w \in Seq(Entries), w # << >>
    PROVE  OrderKept(w, Tail(w))
  <1>1. /\ Tail(w) \in Seq(Entries) /\ Len(Tail(w)) = Len(w) - 1 /\ Len(w) \in Nat \ {0}
        /\ SubSeq(w, 2, Len(w)) = Tail(w)
    BY TailIsSubSeq, EmptySeq
  <1>2. SubSeq(Tail(w), 1, Len(Tail(w))) = Tail(w)
    BY <1>1, SubSeqFull
  <1>3. 1 \in 0 .. Len(w) /\ 1 + 1 = 2 /\ (Len(Tail(w)) + 1) .. Len(Tail(w)) = {}
    BY <1>1
  <1> QED BY <1>1, <1>2, <1>3 DEF OrderKept

(* and one that a new message joined.                                      *)
LEMMA OrderAppend ==
    ASSUME NEW w \in Seq(Entries), NEW e \in Entries, ~In(e.msg, w)
    PROVE  OrderKept(w, Append(w, e))
  <1> DEFINE v == Append(w, e)
  <1>1. /\ v \in Seq(Entries) /\ Len(v) = Len(w) + 1 /\ Len(w) \in Nat
        /\ \A i \in 1 .. Len(w) : v[i] = w[i]
        /\ v[Len(w) + 1] = e
    OBVIOUS
  <1>2. SubSeq(w, 1, Len(w)) = w
    BY SubSeqFull
  <1>3. SubSeq(v, 1, Len(w)) = w
    <2>1. /\ SubSeq(v, 1, Len(w)) \in Seq(Entries)
          /\ Len(SubSeq(v, 1, Len(w))) = Len(w)
          /\ \A i \in 1 .. Len(w) : SubSeq(v, 1, Len(w))[i] = v[i]
      BY <1>1
    <2> QED BY <1>1, <2>1, SeqEqual
  <1>4. \A j \in Len(w) + 1 .. Len(v) : v[j] = e
    BY <1>1
  <1>5. 0 \in 0 .. Len(w) /\ 0 + 1 = 1 /\ Len(w) <= Len(v)
    BY <1>1
  <1> HIDE DEF v
  <1>6. OrderKept(w, v)
    BY <1>2, <1>3, <1>4, <1>5 DEF OrderKept
  <1> QED BY <1>6 DEF v

(* The entries of two queues in a row.                                     *)
LEMMA JoinedEntries ==
    ASSUME NEW a \in Seq(Entries), NEW b \in Seq(Entries)
    PROVE  /\ a \o b \in Seq(Entries)
           /\ \A m : In(m, a \o b) => In(m, a) \/ In(m, b)
           /\ a # << >> => a \o b # << >> /\ Tail(a \o b) = Tail(a) \o b
           /\ \A e \in Entries : a \o Append(b, e) = Append(a \o b, e)
  <1> DEFINE c == a \o b
  <1>1. /\ c \in Seq(Entries) /\ Len(c) = Len(a) + Len(b)
        /\ Len(a) \in Nat /\ Len(b) \in Nat
        /\ \A i \in 1 .. Len(a) + Len(b) : c[i] = IF i <= Len(a) THEN a[i] ELSE b[i - Len(a)]
    BY ConcatProperties
  <1>2. ASSUME NEW m, In(m, c) PROVE In(m, a) \/ In(m, b)
    <2>1. PICK i \in 1 .. Len(c) : c[i].msg = m
      BY <1>2 DEF In
    <2>2. CASE i <= Len(a)
      BY <1>1, <2>1, <2>2 DEF In
    <2>3. CASE ~(i <= Len(a))
      <3>1. i - Len(a) \in 1 .. Len(b) /\ b[i - Len(a)].msg = m
        BY <1>1, <2>1, <2>3
      <3> QED BY <3>1 DEF In
    <2> QED BY <2>2, <2>3
  <1>3. ASSUME a # << >> PROVE c # << >> /\ Tail(c) = Tail(a) \o b
    <2>1. Len(a) > 0 /\ Len(c) > 0
      BY <1>1, <1>3, EmptySeq
    <2>2. c # << >>
      BY <2>1
    <2>3. /\ Tail(a) \in Seq(Entries) /\ Len(Tail(a)) = Len(a) - 1
          /\ \A i \in 1 .. Len(a) - 1 : Tail(a)[i] = a[i + 1]
      BY <1>3
    <2>4. /\ Tail(c) \in Seq(Entries) /\ Len(Tail(c)) = Len(c) - 1
          /\ \A i \in 1 .. Len(c) - 1 : Tail(c)[i] = c[i + 1]
      BY <1>1, <2>2
    <2>5. /\ Tail(a) \o b \in Seq(Entries) /\ Len(Tail(a) \o b) = Len(Tail(a)) + Len(b)
          /\ \A i \in 1 .. Len(Tail(a)) + Len(b) : (Tail(a) \o b)[i] =
                IF i <= Len(Tail(a)) THEN Tail(a)[i] ELSE b[i - Len(Tail(a))]
      BY <2>3, ConcatProperties
    <2> DEFINE ta == Tail(a)
               tc == Tail(c)
               tb == ta \o b
    <2> HIDE DEF ta, tc, tb
    <2>6. \A i \in 1 .. Len(tc) : tc[i] = tb[i]
      BY <1>1, <2>1, <2>3, <2>4, <2>5 DEF ta, tc, tb
    <2>7. tc = tb
      BY <1>1, <2>3, <2>4, <2>5, <2>6, SeqEqual DEF ta, tc, tb
    <2> QED BY <2>2, <2>7 DEF ta, tc, tb
  <1>4. ASSUME NEW e \in Entries PROVE a \o Append(b, e) = Append(c, e)
    <2>1. /\ Append(b, e) \in Seq(Entries) /\ Len(Append(b, e)) = Len(b) + 1
          /\ \A i \in 1 .. Len(b) : Append(b, e)[i] = b[i]
          /\ Append(b, e)[Len(b) + 1] = e
      OBVIOUS
    <2>2. /\ Append(c, e) \in Seq(Entries) /\ Len(Append(c, e)) = Len(c) + 1
          /\ \A i \in 1 .. Len(c) : Append(c, e)[i] = c[i]
          /\ Append(c, e)[Len(c) + 1] = e
      BY <1>1
    <2> DEFINE be == Append(b, e)
               ce == Append(c, e)
               abe == a \o be
    <2>3. /\ abe \in Seq(Entries) /\ Len(abe) = Len(a) + Len(be)
          /\ \A i \in 1 .. Len(a) + Len(be) : abe[i] =
                IF i <= Len(a) THEN a[i] ELSE be[i - Len(a)]
      BY <2>1, ConcatProperties
    <2> HIDE DEF be, ce, abe, c
    <2>4. \A i \in 1 .. Len(abe) : abe[i] = ce[i]
      <3> TAKE i \in 1 .. Len(abe)
      <3>0. /\ i \in 1 .. Len(a) + Len(b) + 1 /\ Len(abe) = Len(a) + Len(b) + 1
            /\ Len(ce) = Len(a) + Len(b) + 1
        BY <1>1, <2>1, <2>2, <2>3 DEF be, ce
      <3>1. CASE i <= Len(a)
        <4>1. abe[i] = a[i]
          BY <2>1, <2>3, <3>0, <3>1 DEF be
        <4>2. ce[i] = c[i] /\ c[i] = a[i]
          BY <1>1, <2>2, <3>0, <3>1 DEF ce
        <4> QED BY <4>1, <4>2
      <3>2. CASE i > Len(a) /\ i <= Len(a) + Len(b)
        <4>1. i - Len(a) \in 1 .. Len(b)
          BY <1>1, <3>0, <3>2
        <4>2. abe[i] = be[i - Len(a)] /\ be[i - Len(a)] = b[i - Len(a)]
          BY <1>1, <2>1, <2>3, <3>0, <3>2, <4>1 DEF be
        <4>3. ce[i] = c[i] /\ c[i] = b[i - Len(a)]
          BY <1>1, <2>2, <3>0, <3>2 DEF ce
        <4> QED BY <4>2, <4>3
      <3>3. CASE i = Len(a) + Len(b) + 1
        <4>1. i - Len(a) = Len(b) + 1
          BY <1>1, <3>0, <3>3
        <4>2. abe[i] = e
          BY <1>1, <2>1, <2>3, <3>0, <3>3, <4>1 DEF be
        <4>3. ce[i] = e
          BY <1>1, <2>2, <3>3 DEF ce
        <4> QED BY <4>2, <4>3
      <3> QED BY <1>1, <3>0, <3>1, <3>2, <3>3
    <2>5. abe = ce
      BY <1>1, <2>1, <2>2, <2>3, <2>4, SeqEqual DEF be, ce
    <2> QED BY <2>5 DEF be, ce, abe
  <1> QED BY <1>1, <1>2, <1>3, <1>4

(* Every step keeps the order of what waits.                               *)
LEMMA OrderStep == LedgerInv /\ [Next]_vars => OrderKept(Waiting, Waiting')
  <1> SUFFICES ASSUME LedgerInv, [Next]_vars PROVE OrderKept(Waiting, Waiting')
    OBVIOUS
  <1> USE DEF queueVars, loopVars, localVars, ledgerVars, dataVars
  <1>0. /\ batch \in Seq(Entries) /\ queued \in Seq(Entries) /\ taken \in Seq(Entries)
        /\ << >> \in Seq(Entries)
    BY DEF LedgerInv, ShapeInv, TypeInv, TypeOK, LocalType, QueueType
  <1>1. Waiting \in Seq(Entries) /\ batch \o queued \in Seq(Entries)
    BY <1>0, JoinedEntries DEF Waiting
  <1>2. /\ batch # << >> => taken = << >>
        /\ taken # << >> => batch = << >> /\ queued = << >>
        /\ admission => taken = << >>
        /\ opc \in {"drain", "unstarted", "quiesce", "drained"} => batch = << >> /\ taken = << >>
    BY DEF LedgerInv, ShapeInv, OwnerLists
  <1>a. ASSUME UNCHANGED <<batch, queued, taken>>
        PROVE  OrderKept(Waiting, Waiting')
    BY <1>1, <1>a, OrderSame DEF Waiting
  <1>b. ASSUME NEW p \in Submitters, Queues(p), CanPush, Push(EntryOf(sub[p])),
               UNCHANGED <<batch, taken>>
        PROVE  OrderKept(Waiting, Waiting')
    <2>1. PICK e : e = EntryOf(sub[p])
      OBVIOUS
    <2>2. sub[p] # Idle /\ sub[p].msg \in Msgs /\ e \in Entries /\ e.msg = sub[p].msg
      BY <1>b, <2>1, HeldSubmission
         DEF Queues, EntryOf, LedgerInv, ShapeInv, TypeInv, TypeOK
    <2>3. result[e.msg] = "submitting"
      BY <2>2 DEF LedgerInv, Books, SubmissionsHeld
    <2>4. ~In(e.msg, batch) /\ ~In(e.msg, queued)
      BY <2>2, <2>3, NotHeld DEF Queueing
    <2>5. taken = << >> /\ queued' = Append(queued, e)
      BY <1>2, <1>b, <2>1 DEF CanPush, Push
    <2>6. Waiting = batch \o queued
      BY <1>1, <2>5, ConcatEmptySeq DEF Waiting
    <2>7. Waiting' = batch \o Append(queued, e)
      <3>1. Append(queued, e) \in Seq(Entries)
        BY <1>0, <2>2
      <3>2. batch \o Append(queued, e) \in Seq(Entries)
        BY <1>0, <3>1, JoinedEntries
      <3> QED BY <1>b, <2>5, <3>2, ConcatEmptySeq DEF Waiting
    <2>8. Waiting' = Append(Waiting, e)
      BY <1>0, <2>2, <2>6, <2>7, JoinedEntries
    <2>9. ~In(e.msg, Waiting)
      BY <1>0, <2>4, <2>6, JoinedEntries
    <2> QED BY <1>1, <2>2, <2>8, <2>9, OrderAppend
  <1>c. ASSUME batch # << >>, batch' = Tail(batch), UNCHANGED <<queued, taken>>
        PROVE  OrderKept(Waiting, Waiting')
    <2>1. batch \o queued # << >> /\ Tail(batch \o queued) = Tail(batch) \o queued
      BY <1>0, <1>c, JoinedEntries
    <2>2. Waiting # << >> /\ Tail(Waiting) = (Tail(batch) \o queued) \o taken
      <3> DEFINE bq == batch \o queued
      <3>1. bq # << >> => bq \o taken # << >> /\ Tail(bq \o taken) = Tail(bq) \o taken
        <4> HIDE DEF bq
        <4> QED BY <1>0, <1>1, JoinedEntries DEF bq
      <3> QED BY <2>1, <3>1 DEF Waiting
    <2>3. Waiting' = Tail(Waiting)
      BY <1>c, <2>2 DEF Waiting
    <2> QED BY <1>1, <2>2, <2>3, OrderFirstOut
  <1>d. ASSUME DrainTake, normalOpen, queued # << >>
        PROVE  OrderKept(Waiting, Waiting')
    <2>1. PICK n : n = Smaller(BatchSize, Len(queued))
      OBVIOUS
    <2>2. n \in 0 .. Len(queued) /\ Len(queued) \in Nat
      BY <1>0, <2>1, MessagesAssumption DEF Smaller
    <2>3. /\ batch' = SubSeq(queued, 1, n) /\ queued' = SubSeq(queued, n + 1, Len(queued))
          /\ batch = << >> /\ taken = << >> /\ taken' = << >>
      BY <1>2, <1>d, <2>1 DEF DrainTake
    <2>4. batch' \o queued' = queued
      <3>1. /\ 1 \in 1 .. Len(queued) + 1 /\ n \in 1 - 1 .. Len(queued)
            /\ Len(queued) \in n .. Len(queued)
        BY <2>2
      <3>2. SubSeq(queued, 1, n) \o SubSeq(queued, n + 1, Len(queued)) =
               SubSeq(queued, 1, Len(queued))
        BY <1>0, <3>1, ConcatAdjacentSubSeq
      <3> QED BY <1>0, <2>3, <3>2, SubSeqFull
    <2>5. Waiting = queued /\ Waiting' = queued
      BY <1>0, <2>3, <2>4, ConcatEmptySeq DEF Waiting
    <2> QED BY <1>0, <2>5, OrderSame
  <1>e. ASSUME TakePending, UNCHANGED batch, batch = << >>, taken = << >>
        PROVE  OrderKept(Waiting, Waiting')
    <2>1. batch' = << >> /\ queued' = << >> /\ taken' = queued
      BY <1>e DEF TakePending
    <2>2. Waiting = queued
      BY <1>0, <1>e, ConcatEmptySeq DEF Waiting
    <2>3. Waiting' = queued
      BY <1>0, <2>1, ConcatEmptySeq DEF Waiting
    <2> QED BY <1>0, <2>2, <2>3, OrderSame
  <1>f. ASSUME NEW why, CleanTaken(why), UNCHANGED <<queued, batch>>
        PROVE  OrderKept(Waiting, Waiting')
    <2>1. CASE taken = << >>
      BY <1>a, <1>f, <2>1 DEF CleanTaken
    <2>2. CASE taken # << >>
      <3>1. batch = << >> /\ queued = << >> /\ taken' = Tail(taken)
        BY <1>2, <1>f, <2>2 DEF CleanTaken
      <3>2. Tail(taken) \in Seq(Entries)
        BY <1>0, <2>2
      <3>3. Waiting = taken /\ Waiting' = Tail(taken)
        BY <1>0, <1>f, <3>1, <3>2, ConcatEmptySeq DEF Waiting
      <3> QED BY <1>0, <2>2, <3>3, OrderFirstOut
    <2> QED BY <2>1, <2>2
  <1>3. CASE UNCHANGED vars \/ Terminated
    BY <1>3, <1>a DEF vars, Terminated
  <1>4. CASE Submit
    BY <1>4, <1>a DEF Submit, RejectUndeliverable, SubmitCheck, SendInline
  <1>5. ASSUME NEW p \in Submitters, Transact(p) PROVE OrderKept(Waiting, Waiting')
    <2>1. CASE EnqueueRefused(p) \/ EnqueueWakeFailed(p)
      BY <2>1, <1>a DEF EnqueueRefused, EnqueueWakeFailed
    <2>2. CASE EnqueueCoalesced(p)
      BY <2>2, <1>b DEF EnqueueCoalesced
    <2>3. CASE EnqueueWoken(p)
      BY <2>3, <1>b DEF EnqueueWoken
    <2> QED BY <1>5, <2>1, <2>2, <2>3 DEF Transact
  <1>6. CASE OwnerArm \/ PopRoot
    BY <1>6, <1>a DEF OwnerArm, PopRoot
  <1>7. CASE Drain
    <2>1. CASE RunRoot \/ DrainNext \/ DrainReturn \/ DrainStop \/ DrainSuccessor \/ DrainFallback
      BY <2>1, <1>a DEF RunRoot, DrainNext, DrainReturn, DrainStop, DrainSuccessor, DrainFallback
    <2>2. CASE DrainTake
      BY <2>2, <1>a, <1>d DEF DrainTake
    <2>3. CASE DrainCancel
      BY <2>3, <1>c DEF DrainCancel
    <2>4. CASE DrainStart \/ DrainSetup
      BY <2>4, <1>c DEF DrainStart, DrainSetup, LedgerInv, ShapeInv, TypeInv, OwnerShape
    <2> QED BY <1>7, <2>1, <2>2, <2>3, <2>4 DEF Drain
  <1>8. CASE IoCallback \/ IoReturn \/ RunTimed
    BY <1>8, <1>a DEF IoCallback, IoReturn, RunTimed, TimerReset, TimerResetRefused, TimerDue,
                      TimerRun, TimerCancelled, TimerReturn
  <1>9. CASE \E m \in Msgs : TimerExpire(m) \/ TimerDispatch(m)
    BY <1>9, <1>a DEF TimerExpire, TimerDispatch
  <1>10. CASE StartThread \/ EnterLoop \/ LoopFails \/ ExitLoop \/ QuiesceLoop \/ PerformDrain
              \/ DestroyDone
    BY <1>10, <1>a DEF StartThread, EnterLoop, LoopFails, ExitLoop, QuiesceLoop, PerformDrain,
                       DestroyDone
  <1>11. CASE OpenAdmission \/ Spawn \/ RequestQuiesce \/ RequestDrain \/ RequestTeardown \/ Join
    BY <1>11, <1>a DEF OpenAdmission, Spawn, RequestQuiesce, RequestDrain, RequestTeardown, Join
  <1>12. CASE QuiesceTake \/ PerformTeardown \/ DestroyUnstarted
    BY <1>12, <1>2, <1>e DEF QuiesceTake, PerformTeardown, DestroyUnstarted, Detach
  <1>13. CASE QuiesceClean \/ DestroyClean
    BY <1>13, <1>f DEF QuiesceClean, DestroyClean
  <1> QED BY <1>3, <1>4, <1>5, <1>6, <1>7, <1>8, <1>9, <1>10, <1>11, <1>12, <1>13
          DEF Next, WindDown, Control

(* Messages are taken, run and cancelled in the order of their acceptance, *)
(* through the queue, the drain's batches and the cancellation lists.      *)
THEOREM FirstInFirstOut == Spec => FirstOut
  <1>1. Spec => []LedgerInv
    BY LedgerInit, LedgerStep, PTL DEF Spec
  <1>2. LedgerInv /\ [Next]_vars =>
           [\E k \in 0 .. Len(Waiting) :
              LET kept == SubSeq(Waiting, k + 1, Len(Waiting))
                  n == Len(kept)
              IN  /\ n <= Len(Waiting')
                  /\ SubSeq(Waiting', 1, n) = kept
                  /\ \A j \in n + 1 .. Len(Waiting') :
                        ~In(Waiting'[j].msg, Waiting)]_vars
    BY OrderStep DEF OrderKept
  <1> QED BY <1>1, <1>2, PTL DEF Spec, FirstOut

-----------------------------------------------------------------------------
(* The delivery contract.  Where a worker is open and where it is closed.  *)
LEMMA PhaseOf ==
    ASSUME LedgerInv
    PROVE  /\ admission => phaseBar = "open"
           /\ ~normalOpen /\ opc \notin {"quiesced", "drained", "destroy", "gone"} =>
                 phaseBar = "closed"
           /\ opc = "destroy" /\ lifecycle = Initialized => phaseBar = "closed"
           /\ opc \in {"io", "start", "callback", "tcheck", "tcallback"} =>
                 phaseBar \in {"open", "closed"}
           /\ lifecycle >= Quiesced => phaseBar = "quiesced"
  <1> USE Phases
  <1> USE DEF LedgerInv, ShapeInv, WakeInv, OwnerPhase, OwnerLists, Admissions
  <1>0. lifecycle \in 0 .. 8
    BY DEF TypeInv, TypeOK, OwnerType
  <1>1. admission => phaseBar = "open"
    BY <1>0 DEF phaseBar
  <1>2. ~normalOpen /\ opc \notin {"quiesced", "drained", "destroy", "gone"} =>
           phaseBar = "closed"
    BY <1>0 DEF phaseBar
  <1>3. opc = "destroy" /\ lifecycle = Initialized => phaseBar = "closed"
    BY <1>0 DEF phaseBar
  <1>4. opc \in {"io", "start", "callback", "tcheck", "tcallback"} =>
           phaseBar \in {"open", "closed"}
    BY <1>0 DEF phaseBar
  <1>5. lifecycle >= Quiesced => phaseBar = "quiesced"
    BY DEF phaseBar
  <1> QED BY <1>1, <1>2, <1>3, <1>4, <1>5

(* What the contract sees of a message.                                    *)
LEMMA StatusOf ==
    ASSUME LedgerInv, NEW m \in Msgs
    PROVE  /\ result[m] \in {"new", "submitting"} => statusBar[m] = "new"
           /\ result[m] = "accepted" /\ runs[m] = 0 /\ cleanups[m] = 0 =>
                 statusBar[m] = "pending"
  <1>1. result[m] \in {"new", "submitting"} => runs[m] = 0 /\ cleanups[m] = 0
    BY NotHeld
  <1> QED BY <1>1 DEF statusBar

(* A step that settles nothing is a stutter of the contract.               *)
LEMMA StatusSame ==
    ASSUME \A m \in Msgs : /\ runs'[m] = runs[m] /\ cleanups'[m] = cleanups[m]
                           /\ \/ result'[m] = result[m]
                              \/ {result[m], result'[m]} \subseteq {"new", "submitting"}
    PROVE  UNCHANGED statusBar
  BY DEF statusBar

(* A step that changes the status of one message.                          *)
LEMMA StatusSet ==
    ASSUME NEW k \in Msgs, NEW v,
           \A m \in Msgs : m # k => /\ runs'[m] = runs[m] /\ cleanups'[m] = cleanups[m]
                                    /\ result'[m] = result[m],
           v = IF runs'[k] > 0 THEN "ran"
               ELSE IF cleanups'[k] > 0 THEN "cancelled"
               ELSE IF result'[k] = "retained" THEN "returned"
               ELSE IF result'[k] = "accepted" THEN "pending"
               ELSE "new"
    PROVE  statusBar' = [statusBar EXCEPT ![k] = v]
  BY DEF statusBar

(* A submission is refused,                                                *)
LEMMA StepRefuse ==
    ASSUME LedgerInv, NEW k \in Msgs, result[k] \in {"new", "submitting"},
           NEW retain, NEW why, Refuse(k, retain, why),
           UNCHANGED <<lifecycle, admission, attached>>
    PROVE  Delivery!Next
  <1>0. /\ result \in [Msgs -> Results] /\ runs \in [Msgs -> Nat]
        /\ cleanups \in [Msgs -> Nat]
    BY DEF LedgerInv, ShapeInv, TypeInv, TypeOK, LedgerType
  <1>1. runs[k] = 0 /\ cleanups[k] = 0 /\ statusBar[k] = "new"
    BY NotHeld, StatusOf
  <1>2. UNCHANGED phaseBar
    BY DEF phaseBar
  <1>3. /\ \A m \in Msgs : m # k => /\ runs'[m] = runs[m] /\ cleanups'[m] = cleanups[m]
                                    /\ result'[m] = result[m]
        /\ runs'[k] = 0
        /\ \/ result'[k] = "retained" /\ cleanups'[k] = 0
           \/ result'[k] = "cleaned" /\ cleanups'[k] = 1
    BY <1>0, <1>1 DEF Refuse, Clean
  <1>4. \/ statusBar' = [statusBar EXCEPT ![k] = "returned"]
        \/ statusBar' = [statusBar EXCEPT ![k] = "cancelled"]
    BY <1>3, StatusSet
  <1>5. Delivery!Refuse(k)
    BY <1>1, <1>2, <1>4 DEF Delivery!Refuse, Delivery!Set
  <1> QED BY <1>5 DEF Delivery!Next

(* accepted,                                                               *)
LEMMA StepAccept ==
    ASSUME LedgerInv, NEW k \in Msgs, result[k] = "submitting", Accept(k), admission,
           UNCHANGED <<lifecycle, admission, attached>>
    PROVE  Delivery!Next
  <1>0. result \in [Msgs -> Results]
    BY DEF LedgerInv, ShapeInv, TypeInv, TypeOK, LedgerType
  <1>1. runs[k] = 0 /\ cleanups[k] = 0 /\ statusBar[k] = "new" /\ phaseBar = "open"
    BY NotHeld, StatusOf, PhaseOf
  <1>2. UNCHANGED phaseBar
    BY DEF phaseBar
  <1>3. statusBar' = [statusBar EXCEPT ![k] = "pending"]
    <2>1. \A m \in Msgs : m # k => /\ runs'[m] = runs[m] /\ cleanups'[m] = cleanups[m]
                                   /\ result'[m] = result[m]
      BY <1>0 DEF Accept
    <2>2. runs'[k] = 0 /\ cleanups'[k] = 0 /\ result'[k] = "accepted"
      BY <1>0, <1>1 DEF Accept
    <2> QED BY <2>1, <2>2, StatusSet
  <1>4. Delivery!Accept(k)
    BY <1>1, <1>2, <1>3 DEF Delivery!Accept, Delivery!Set
  <1> QED BY <1>4 DEF Delivery!Next

(* and an accepted message is settled.                                     *)
LEMMA StepSettle ==
    ASSUME LedgerInv, NEW k \in Msgs, result[k] = "accepted", runs[k] = 0, cleanups[k] = 0,
           NEW why,
           \/ Run(k) /\ phaseBar \in {"open", "closed"}
           \/ Clean(k, why) /\ phaseBar = "closed",
           UNCHANGED <<result, lifecycle, admission, attached>>
    PROVE  Delivery!Next
  <1>0. runs \in [Msgs -> Nat] /\ cleanups \in [Msgs -> Nat]
    BY DEF LedgerInv, ShapeInv, TypeInv, TypeOK, LedgerType
  <1>1. statusBar[k] = "pending"
    BY StatusOf
  <1>2. UNCHANGED phaseBar
    BY DEF phaseBar
  <1>3. CASE Run(k) /\ phaseBar \in {"open", "closed"}
    <2>1. statusBar' = [statusBar EXCEPT ![k] = "ran"]
      <3>1. /\ \A m \in Msgs : m # k => /\ runs'[m] = runs[m] /\ cleanups'[m] = cleanups[m]
                                        /\ result'[m] = result[m]
            /\ runs'[k] = 1
        BY <1>0, <1>3 DEF Run
      <3> QED BY <3>1, StatusSet
    <2>2. Delivery!Run(k)
      BY <1>1, <1>2, <1>3, <2>1 DEF Delivery!Run, Delivery!Set
    <2> QED BY <2>2 DEF Delivery!Next
  <1>4. CASE Clean(k, why) /\ phaseBar = "closed"
    <2>1. statusBar' = [statusBar EXCEPT ![k] = "cancelled"]
      <3>1. /\ \A m \in Msgs : m # k => /\ runs'[m] = runs[m] /\ cleanups'[m] = cleanups[m]
                                        /\ result'[m] = result[m]
            /\ cleanups'[k] = 1 /\ runs'[k] = 0
        BY <1>0, <1>4 DEF Clean
      <3> QED BY <3>1, StatusSet
    <2>2. Delivery!Cancel(k)
      BY <1>1, <1>2, <1>4, <2>1 DEF Delivery!Cancel, Delivery!Set
    <2> QED BY <2>2 DEF Delivery!Next
  <1> QED BY <1>3, <1>4

(* A worker that has nothing left owes nothing.                            *)
LEMMA NothingPending ==
    ASSUME LedgerInv, opc \in {"clean", "destroy"}, taken = << >>, takenTimed = {}
    PROVE  \A m \in Msgs : statusBar[m] # "pending"
  <1> USE DEF LedgerInv, Books
  <1>1. queued = << >> /\ timed = {} /\ batch = << >>
    BY DEF ShapeInv, OwnerLists
  <1>2. ASSUME NEW m \in Msgs, result[m] = "accepted" PROVE runs[m] > 0 \/ cleanups[m] > 0
    <2>1. ~Queueing(m) /\ ~Timing(m) /\ MsgInv(m)
      BY <1>1, NoEntries DEF Queueing, Timing
    <2>2. Settled(m) # 0 /\ runs[m] \in Nat /\ cleanups[m] \in Nat
      BY <1>2, <2>1 DEF MsgInv, ShapeInv, TypeInv, TypeOK, LedgerType
    <2> QED BY <2>2 DEF Settled
  <1> QED BY <1>2 DEF statusBar

(* Every step of the worker is a step of the contract or leaves it alone.  *)
LEMMA DeliveryStep ==
    LedgerInv /\ [Next]_vars => [Delivery!Next]_(Delivery!vars)
  <1> SUFFICES ASSUME LedgerInv, [Next]_vars
               PROVE  Delivery!Next \/ UNCHANGED <<phaseBar, statusBar>>
    BY DEF Delivery!vars
  <1> USE DEF queueVars, loopVars, localVars, ledgerVars, dataVars
  <1>0. /\ runs \in [Msgs -> Nat] /\ cleanups \in [Msgs -> Nat] /\ lifecycle \in 0 .. 8
        /\ takenTimed \in SUBSET Msgs /\ result \in [Msgs -> Results]
    BY Phases DEF LedgerInv, ShapeInv, TypeInv, TypeOK, LedgerType, OwnerType, LocalType
  <1>1. /\ admission => phaseBar = "open"
        /\ ~normalOpen /\ opc \notin {"quiesced", "drained", "destroy", "gone"} =>
              phaseBar = "closed"
        /\ opc = "destroy" /\ lifecycle = Initialized => phaseBar = "closed"
        /\ opc \in {"io", "start", "callback", "tcheck", "tcallback"} =>
              phaseBar \in {"open", "closed"}
        /\ lifecycle >= Quiesced => phaseBar = "quiesced"
    BY PhaseOf
  <1>2. /\ opc \in {"cancel", "quiesce", "clean"} => ~normalOpen
        /\ opc \notin {"destroy", "gone"} => attached
        /\ ~normalOpen => ~admission /\ lifecycle >= QuiesceRequested
        /\ ~admission /\ opc \notin {"unstarted", "destroy", "gone"} => ~normalOpen
        /\ taken # << >> \/ takenTimed # {} => opc = "clean" \/ lifecycle = Initialized
        /\ opc = "destroy" => lifecycle = Initialized \/ lifecycle >= Quiesced
        /\ opc \in {"destroy", "gone"} => ~admission /\ ~attached
        /\ opc \in {"quiesced", "drained"} => ~admission
        /\ lifecycle >= Quiesced => opc \in {"quiesced", "drained", "destroy", "gone"}
    BY DEF LedgerInv, ShapeInv, WakeInv, OwnerPhase, OwnerLists, Admissions
  <1>a. ASSUME UNCHANGED <<result, runs, cleanups>> PROVE UNCHANGED statusBar
    BY <1>a DEF statusBar
  <1>b. ASSUME UNCHANGED <<lifecycle, admission, attached>> PROVE UNCHANGED phaseBar
    BY <1>b DEF phaseBar
  <1>c. ASSUME NEW p \in Submitters, sub[p] # Idle
        PROVE  sub[p].msg \in Msgs /\ result[sub[p].msg] = "submitting"
    BY <1>c, HeldSubmission DEF LedgerInv, Books, SubmissionsHeld, ShapeInv, TypeInv, TypeOK
  <1>3. CASE UNCHANGED vars \/ Terminated
    BY <1>3, <1>a, <1>b DEF vars, Terminated
  <1>4. CASE Submit
    <2>1. ASSUME NEW p \in Submitters, NEW m \in Msgs, NEW r \in BOOLEAN,
                 RejectUndeliverable(p, m, r)
          PROVE  Delivery!Next
      BY <2>1, StepRefuse DEF RejectUndeliverable
    <2>2. ASSUME NEW p \in Submitters, NEW m \in Msgs, NEW d \in BOOLEAN, NEW r \in BOOLEAN,
                 SubmitCheck(p, m, d, r)
          PROVE  Delivery!Next \/ UNCHANGED <<phaseBar, statusBar>>
      <3>1. CASE admission
        <4>1. UNCHANGED statusBar
          BY <1>0, <2>2, <3>1, StatusSame DEF SubmitCheck
        <4> QED BY <1>b, <2>2, <4>1 DEF SubmitCheck
      <3>2. CASE ~admission
        BY <2>2, <3>2, StepRefuse DEF SubmitCheck
      <3> QED BY <3>1, <3>2
    <2>3. ASSUME NEW k \in Msgs, SendInline(k) PROVE Delivery!Next
      <3>1. statusBar[k] = "new" /\ phaseBar \in {"open", "closed"} /\ runs[k] = 0
        BY <1>1, <2>3, StatusOf, NotHeld DEF SendInline, InCallback
      <3>2. /\ \A m \in Msgs : m # k => /\ runs'[m] = runs[m] /\ cleanups'[m] = cleanups[m]
                                        /\ result'[m] = result[m]
            /\ runs'[k] = 1
        BY <1>0, <2>3, <3>1 DEF SendInline, Run
      <3>3. statusBar' = [statusBar EXCEPT ![k] = "ran"]
        BY <3>2, StatusSet
      <3>4. Delivery!RunInline(k)
        BY <1>b, <2>3, <3>1, <3>3 DEF Delivery!RunInline, Delivery!Set, SendInline
      <3> QED BY <3>4 DEF Delivery!Next
    <2> QED BY <1>4, <2>1, <2>2, <2>3 DEF Submit
  <1>5. ASSUME NEW p \in Submitters, Transact(p) PROVE Delivery!Next
    <2>0. sub[p] # Idle
      BY <1>5 DEF Transact, EnqueueRefused, EnqueueCoalesced, EnqueueWoken, EnqueueWakeFailed, Queues
    <2>1. CASE EnqueueRefused(p) \/ EnqueueWakeFailed(p)
      BY <1>c, <2>0, <2>1, StepRefuse DEF EnqueueRefused, EnqueueWakeFailed, RefuseHeld
    <2>2. CASE EnqueueCoalesced(p)
      BY <1>c, <2>0, <2>2, StepAccept DEF EnqueueCoalesced, CanPush
    <2>3. CASE EnqueueWoken(p)
      BY <1>c, <2>0, <2>3, StepAccept DEF EnqueueWoken, CanPush
    <2> QED BY <1>5, <2>1, <2>2, <2>3 DEF Transact
  <1>6. CASE OwnerArm
    <2>0. Owner \in Submitters
      BY DEF Submitters
    <2>1. CASE MayArm
      BY <1>c, <1>6, <2>0, <2>1, StepAccept DEF OwnerArm, MayArm
    <2>2. CASE ~MayArm
      BY <1>c, <1>6, <2>0, <2>2, StepRefuse DEF OwnerArm, RefuseHeld
    <2> QED BY <2>1, <2>2
  <1>7. CASE PopRoot \/ IoCallback \/ IoReturn
    BY <1>7, <1>a, <1>b DEF PopRoot, IoCallback, IoReturn
  <1>8. CASE Drain
    <2>1. CASE RunRoot \/ DrainNext \/ DrainReturn \/ DrainFallback
      BY <2>1, <1>a, <1>b DEF RunRoot, DrainNext, DrainReturn, DrainFallback
    <2>2. CASE DrainTake \/ DrainStop \/ DrainSuccessor
      BY <2>2, <1>a, <1>b DEF DrainTake, DrainStop, DrainSuccessor
    <2>3. PICK e : e = Head(batch)
      OBVIOUS
    <2>4. ASSUME batch # << >>, batch' = Tail(batch), UNCHANGED <<taken, queued>>
          PROVE  e.msg \in Msgs /\ result[e.msg] = "accepted" /\ runs[e.msg] = 0
                 /\ cleanups[e.msg] = 0
      BY <2>3, <2>4, EntryLeaves DEF Leaves
    <2>5. CASE DrainCancel
      BY <1>1, <1>2, <2>3, <2>4, <2>5, StepSettle DEF DrainCancel, CleanEntry
    <2>6. opc = "start" => batch # << >>
      BY DEF LedgerInv, ShapeInv, TypeInv, OwnerShape
    <2>7. CASE DrainStart
      BY <1>1, <2>3, <2>4, <2>6, <2>7, StepSettle DEF DrainStart
    <2>8. CASE DrainSetup
      <3>1. CASE MayArm
        BY <1>a, <1>b, <2>8, <3>1 DEF DrainSetup
      <3>2. CASE ~MayArm
        <4>1. phaseBar = "closed"
          BY <1>1, <1>2, <2>8, <3>2 DEF DrainSetup, MayArm
        <4> QED BY <2>3, <2>4, <2>6, <2>8, <3>2, <4>1, StepSettle DEF DrainSetup, CleanEntry
      <3> QED BY <3>1, <3>2
    <2> QED BY <1>8, <2>1, <2>2, <2>5, <2>7, <2>8 DEF Drain
  <1>9. CASE \E m \in Msgs : TimerExpire(m) \/ TimerDispatch(m)
    BY <1>9, <1>a, <1>b DEF TimerExpire, TimerDispatch
  <1>10. CASE RunTimed
    <2>1. CASE TimerReset \/ TimerDue \/ TimerReturn
      BY <2>1, <1>a, <1>b DEF TimerReset, TimerDue, TimerReturn
    <2>2. opc \in {"timer", "tcheck"} =>
             cur \in Msgs /\ result[cur] = "accepted" /\ runs[cur] = 0 /\ cleanups[cur] = 0
      BY HandledMessage
    <2>3. CASE TimerResetRefused
      BY <1>1, <2>2, <2>3, StepSettle DEF TimerResetRefused
    <2>4. CASE TimerRun
      BY <1>1, <2>2, <2>4, StepSettle DEF TimerRun
    <2>5. CASE TimerCancelled
      BY <1>1, <2>2, <2>5, StepSettle DEF TimerCancelled
    <2> QED BY <1>10, <2>1, <2>3, <2>4, <2>5 DEF RunTimed
  <1>11. CASE StartThread
    <2>1. UNCHANGED phaseBar
      BY <1>0, <1>2, <1>11, Phases DEF StartThread, Publish, phaseBar
    <2> QED BY <1>11, <1>a, <2>1 DEF StartThread
  <1>12. CASE EnterLoop \/ ExitLoop \/ QuiesceTake \/ Spawn
    BY <1>12, <1>a, <1>b DEF EnterLoop, ExitLoop, QuiesceTake, Spawn
  <1>13. CASE LoopFails \/ RequestQuiesce
    <2>1. /\ CloseBoth /\ UNCHANGED attached /\ UNCHANGED statusBar
          /\ opc \notin {"unstarted", "destroy", "gone"}
      BY <1>2, <1>13, <1>a DEF LoopFails, RequestQuiesce
    <2>2. CASE admission
      <3>1. phaseBar' = "closed"
        BY <1>0, <1>2, <2>1, <2>2, Phases DEF CloseBoth, Publish, phaseBar
      <3>2. Delivery!Close
        BY <1>1, <2>1, <2>2, <3>1 DEF Delivery!Close
      <3> QED BY <3>2 DEF Delivery!Next
    <2>3. CASE ~admission
      <3>1. UNCHANGED phaseBar
        BY <1>0, <1>2, <2>1, <2>3, Phases DEF CloseBoth, Publish, phaseBar
      <3> QED BY <2>1, <3>1
    <2> QED BY <2>2, <2>3
  <1>14. ASSUME NEW why, CleanTaken(why), opc \in {"clean", "destroy"},
                UNCHANGED <<queued, batch, result, lifecycle, admission, attached>>
         PROVE  Delivery!Next
    <2>1. phaseBar = "closed"
      BY <1>1, <1>2, <1>14 DEF CleanTaken
    <2>2. CASE taken # << >>
      <3>1. PICK e : e = Head(taken)
        OBVIOUS
      <3>2. Leaves(e) /\ Clean(e.msg, why)
        BY <1>14, <2>2, <3>1 DEF CleanTaken, CleanEntry, Leaves
      <3>3. e.msg \in Msgs /\ result[e.msg] = "accepted" /\ runs[e.msg] = 0 /\ cleanups[e.msg] = 0
        BY <1>14, <3>2, EntryLeaves
      <3> QED BY <1>14, <2>1, <3>2, <3>3, StepSettle
    <2>3. CASE taken = << >>
      <3>1. PICK k \in takenTimed : Clean(k, why)
        BY <1>14, <2>3 DEF CleanTaken
      <3>2. k \in Msgs /\ MsgInv(k) /\ Timing(k)
        BY <1>0, <3>1 DEF LedgerInv, Books, Timing
      <3>3. result[k] = "accepted" /\ runs[k] = 0 /\ cleanups[k] = 0
        BY <1>0, <3>2 DEF MsgInv, Settled
      <3> QED BY <1>14, <2>1, <3>1, <3>2, <3>3, StepSettle
    <2> QED BY <2>2, <2>3
  <1>15. CASE QuiesceClean \/ DestroyClean
    BY <1>14, <1>15 DEF QuiesceClean, DestroyClean
  <1>16. CASE QuiesceLoop \/ DestroyDone
    <2>1. /\ UNCHANGED <<admission, attached>> /\ UNCHANGED statusBar
          /\ \A m \in Msgs : statusBar[m] # "pending"
      BY <1>16, <1>a, NothingPending DEF QuiesceLoop, DestroyDone
    <2>2. CASE lifecycle >= Quiesced
      <3>1. UNCHANGED phaseBar
        BY <1>0, <1>16, <2>2, Phases DEF QuiesceLoop, DestroyDone, Publish, phaseBar
      <3> QED BY <2>1, <3>1
    <2>3. CASE ~(lifecycle >= Quiesced)
      <3>1. phaseBar = "closed"
        BY <1>1, <1>2, <1>16, <2>3 DEF QuiesceLoop, DestroyDone
      <3>2. phaseBar' = "quiesced"
        BY <1>0, <1>2, <1>16, <2>3, Phases DEF QuiesceLoop, DestroyDone, Publish, phaseBar
      <3>3. Delivery!Quiesce
        BY <2>1, <3>1, <3>2 DEF Delivery!Quiesce
      <3> QED BY <3>3 DEF Delivery!Next
    <2> QED BY <2>2, <2>3
  <1>17. CASE PerformDrain \/ RequestDrain \/ RequestTeardown \/ Join
    <2>1. UNCHANGED phaseBar
      BY <1>0, <1>17, Phases DEF PerformDrain, RequestDrain, RequestTeardown, Join, RequestPhase,
                                 Publish, phaseBar
    <2> QED BY <1>17, <1>a, <2>1 DEF PerformDrain, RequestDrain, RequestTeardown, Join
  <1>18. CASE PerformTeardown
    <2>1. UNCHANGED phaseBar
      BY <1>0, <1>18, Phases DEF PerformTeardown, Detach, phaseBar
    <2> QED BY <1>18, <1>a, <2>1 DEF PerformTeardown, Detach
  <1>19. CASE DestroyUnstarted
    <2>1. phaseBar \in {"starting", "open"} /\ phaseBar' = "closed"
      BY <1>0, <1>2, <1>19, Phases DEF DestroyUnstarted, Detach, phaseBar
    <2>2. Delivery!Close
      BY <1>19, <1>a, <2>1 DEF Delivery!Close, DestroyUnstarted, Detach
    <2> QED BY <2>2 DEF Delivery!Next
  <1>20. CASE OpenAdmission
    <2>1. phaseBar = "starting" /\ phaseBar' = "open"
      BY <1>20, Phases DEF OpenAdmission, phaseBar
    <2>2. Delivery!Open
      BY <1>20, <1>a, <2>1 DEF Delivery!Open, OpenAdmission
    <2> QED BY <2>2 DEF Delivery!Next
  <1> QED
    BY <1>3, <1>4, <1>5, <1>6, <1>7, <1>8, <1>9, <1>10, <1>11, <1>12, <1>13, <1>15, <1>16,
       <1>17, <1>18, <1>19, <1>20 DEF Next, WindDown, Control

(* The worker starts as the contract does.                                 *)
LEMMA DeliveryInit == Init => Delivery!Init
  BY Phases DEF Init, Delivery!Init, phaseBar, statusBar

(* The worker's queue, batches, timers and shutdown implement the delivery *)
(* contract, whatever the numbers of messages and submitters: only an open *)
(* worker accepts, only a closed one cancels what it accepted, each        *)
(* message is settled once, and none is pending when the worker is         *)
(* quiesced.                                                               *)
THEOREM DeliveryImplemented == Spec => ImplementsDelivery
  <1>1. Spec => []LedgerInv
    BY LedgerInit, LedgerStep, PTL DEF Spec
  <1> QED BY <1>1, DeliveryInit, DeliveryStep, PTL DEF Spec, ImplementsDelivery, Delivery!Spec
=============================================================================
