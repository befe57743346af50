----------------------------- MODULE LoopProofs -----------------------------
(***************************************************************************)
(* Proofs about EventLoop, whose queues and wake-ups the composed loop     *)
(* shares, and then about the composed loop: it implements the wake and    *)
(* queues of EventLoop and the timers of LoopTimers, and the storage of    *)
(* its timers is safe.                                                     *)
(***************************************************************************)
EXTENDS Loop, SequenceTheorems, FiniteSetTheorems, TLAPS

-----------------------------------------------------------------------------
(* Sequences: taking a batch off a queue, moving its head to the history   *)
(* and queueing at the end all keep the concatenation of the three.        *)

(* A queue is its first n events followed by the rest.                     *)
LEMMA SplitSeq ==
    ASSUME NEW S, NEW s \in Seq(S), NEW n \in 0 .. Len(s)
    PROVE  /\ SubSeq(s, 1, n) \in Seq(S)
           /\ SubSeq(s, n + 1, Len(s)) \in Seq(S)
           /\ Len(SubSeq(s, 1, n)) = n
           /\ Len(SubSeq(s, n + 1, Len(s))) = Len(s) - n
           /\ SubSeq(s, 1, n) \o SubSeq(s, n + 1, Len(s)) = s
  <1>1. Len(s) \in Nat /\ \A i \in 1 .. Len(s) : s[i] \in S
    BY LenProperties, ElementOfSeq
  <1>2. /\ SubSeq(s, 1, n) \in Seq(S)
        /\ Len(SubSeq(s, 1, n)) = n
    BY <1>1, SubSeqProperties
  <1>3. /\ SubSeq(s, n + 1, Len(s)) \in Seq(S)
        /\ Len(SubSeq(s, n + 1, Len(s))) = Len(s) - n
    BY <1>1, SubSeqProperties
  <1>4. SubSeq(s, 1, n) \o SubSeq(s, n + 1, Len(s)) = SubSeq(s, 1, Len(s))
    <2>1. 1 \in 1 .. Len(s) + 1 /\ n \in 1 - 1 .. Len(s) /\ Len(s) \in n .. Len(s)
      BY <1>1
    <2> QED BY <2>1, ConcatAdjacentSubSeq, Zenon
  <1>5. SubSeq(s, 1, Len(s)) = s
    BY SubSeqFull
  <1> QED BY <1>2, <1>3, <1>4, <1>5

(* A non-empty batch is its head followed by its tail.                     *)
LEMMA HeadOff ==
    ASSUME NEW S, NEW b \in Seq(S), b # << >>
    PROVE  /\ Head(b) \in S
           /\ Tail(b) \in Seq(S)
           /\ <<Head(b)>> \o Tail(b) = b
           /\ Len(b) \in Nat \ {0} /\ Len(Tail(b)) = Len(b) - 1
           /\ Tail(b) = << >> <=> Len(b) = 1
  <1>1. /\ Head(b) \in S /\ Tail(b) \in Seq(S)
        /\ Len(Tail(b)) = Len(b) - 1
        /\ \A i \in 1 .. Len(Tail(b)) : Tail(b)[i] = b[i + 1]
    BY HeadTailProperties
  <1>2. Len(b) \in Nat \ {0}
    BY EmptySeq
  <1>3. <<Head(b)>> \in Seq(S) /\ Len(<<Head(b)>>) = 1 /\ <<Head(b)>>[1] = b[1]
    BY <1>1, <1>2
  <1>4. /\ <<Head(b)>> \o Tail(b) \in Seq(S)
        /\ Len(<<Head(b)>> \o Tail(b)) = Len(b)
        /\ \A i \in 1 .. Len(b) : (<<Head(b)>> \o Tail(b))[i] =
              IF i <= 1 THEN <<Head(b)>>[i] ELSE Tail(b)[i - 1]
    BY <1>1, <1>2, <1>3, ConcatProperties
  <1>5. \A i \in 1 .. Len(b) : (<<Head(b)>> \o Tail(b))[i] = b[i]
    BY <1>1, <1>2, <1>3, <1>4
  <1>6. <<Head(b)>> \o Tail(b) = b
    BY <1>4, <1>5, SeqEqual
  <1>7. Tail(b) = << >> <=> Len(b) = 1
    BY <1>1, <1>2, EmptySeq, SMTT(30)
  <1> QED BY <1>1, <1>2, <1>6, <1>7

(* Starting the head of a batch moves it to the end of the history.        *)
LEMMA MoveHead ==
    ASSUME NEW S, NEW r \in Seq(S), NEW b \in Seq(S), b # << >>
    PROVE  Append(r, Head(b)) \o Tail(b) = r \o b
  <1>1. Head(b) \in S /\ Tail(b) \in Seq(S) /\ <<Head(b)>> \o Tail(b) = b
    BY HeadOff
  <1>2. Append(r, Head(b)) = r \o <<Head(b)>>
    BY <1>1, AppendIsConcat
  <1>3. <<Head(b)>> \in Seq(S)
    BY <1>1
  <1>4. (r \o <<Head(b)>>) \o Tail(b) = r \o (<<Head(b)>> \o Tail(b))
    BY <1>1, <1>3, ConcatAssociative
  <1> QED BY <1>1, <1>2, <1>4

(* Queueing at the end is appending to the whole.                          *)
LEMMA AppendLast ==
    ASSUME NEW S, NEW p \in Seq(S), NEW q \in Seq(S), NEW e \in S
    PROVE  p \o Append(q, e) = Append(p \o q, e)
  <1>1. Append(q, e) = q \o <<e>> /\ <<e>> \in Seq(S)
    BY AppendIsConcat
  <1>2. p \o q \in Seq(S)
    BY ConcatProperties
  <1>3. Append(p \o q, e) = (p \o q) \o <<e>>
    BY <1>2, AppendIsConcat
  <1>4. (p \o q) \o <<e>> = p \o (q \o <<e>>)
    BY <1>1, ConcatAssociative
  <1> QED BY <1>1, <1>3, <1>4

(* Taking a batch off the queue leaves history, batch and queue the same   *)
(* sequence.                                                               *)
LEMMA TakeBatch ==
    ASSUME NEW S, NEW r \in Seq(S), NEW q \in Seq(S), NEW n \in 0 .. Len(q)
    PROVE  r \o SubSeq(q, 1, n) \o SubSeq(q, n + 1, Len(q)) = r \o << >> \o q
  <1> DEFINE b == SubSeq(q, 1, n)
             t == SubSeq(q, n + 1, Len(q))
  <1>1. /\ SubSeq(q, 1, n) \in Seq(S)
        /\ SubSeq(q, n + 1, Len(q)) \in Seq(S)
        /\ SubSeq(q, 1, n) \o SubSeq(q, n + 1, Len(q)) = q
    BY SplitSeq
  <1>2. (r \o b) \o t = r \o (b \o t)
    <2> HIDE DEF b, t
    <2>1. b \in Seq(S) /\ t \in Seq(S)
      BY <1>1 DEF b, t
    <2> QED BY <2>1, ConcatAssociative, SMTT(30)
  <1>3. r \o << >> = r
    BY ConcatEmptySeq
  <1> QED BY <1>1, <1>2, <1>3

IsPrefixOf(r, p) == Len(r) <= Len(p) /\ r = SubSeq(p, 1, Len(r))

(* A history is a prefix of whatever follows it.                           *)
LEMMA ConcatPrefix ==
    ASSUME NEW S, NEW r \in Seq(S), NEW t \in Seq(S)
    PROVE  IsPrefixOf(r, r \o t)
  <1>1. /\ r \o t \in Seq(S) /\ Len(r) \in Nat /\ Len(t) \in Nat
        /\ Len(r \o t) = Len(r) + Len(t)
        /\ \A i \in 1 .. Len(r) + Len(t) : (r \o t)[i] =
              IF i <= Len(r) THEN r[i] ELSE t[i - Len(r)]
    BY ConcatProperties, LenProperties
  <1>2. /\ SubSeq(r \o t, 1, Len(r)) \in Seq(S)
        /\ Len(SubSeq(r \o t, 1, Len(r))) = Len(r)
        /\ \A i \in 1 .. Len(r) : SubSeq(r \o t, 1, Len(r))[i] = (r \o t)[i]
    <2>1. \A i \in 1 .. Len(r) : (r \o t)[i] \in S
      BY <1>1, ElementOfSeq
    <2>2. /\ SubSeq(r \o t, 1, Len(r)) \in Seq(S)
          /\ Len(SubSeq(r \o t, 1, Len(r))) = IF 1 <= Len(r) THEN Len(r) - 1 + 1 ELSE 0
          /\ \A i \in 1 .. Len(r) - 1 + 1 :
                SubSeq(r \o t, 1, Len(r))[i] = (r \o t)[1 + i - 1]
      BY <1>1, <2>1, SubSeqProperties
    <2> QED BY <1>1, <2>2
  <1>3. r = SubSeq(r \o t, 1, Len(r))
    BY <1>1, <1>2, SeqEqual
  <1> QED BY <1>1, <1>3 DEF IsPrefixOf

(* Accepting an event keeps the history a prefix.                          *)
LEMMA PrefixAppend ==
    ASSUME NEW S, NEW r \in Seq(S), NEW p \in Seq(S), NEW e \in S, IsPrefixOf(r, p)
    PROVE  IsPrefixOf(r, Append(p, e))
  <1>1. Len(r) \in 0 .. Len(p)
    BY LenProperties DEF IsPrefixOf
  <1> DEFINE t == SubSeq(p, Len(r) + 1, Len(p))
  <1>2. t \in Seq(S) /\ r \o t = p
    BY <1>1, SplitSeq DEF IsPrefixOf
  <1>3. Append(t, e) \in Seq(S) /\ r \o Append(t, e) = Append(p, e)
    BY <1>2, AppendLast, AppendProperties, SMTT(30)
  <1> QED BY <1>3, ConcatPrefix

-----------------------------------------------------------------------------
(* The initial state.                                                      *)
LEMMA InitLoop == Init => LoopInv
  <1> SUFFICES ASSUME Init PROVE LoopInv
    OBVIOUS
  <1>1. AdmissionType /\ ClosingShape
    BY DEF Init, AdmissionType, ClosingShape, OwnerStates
  <1>2. WakeType /\ ArmedIsReadable
    BY DEF Init, WakeType, ArmedIsReadable
  <1>3. NormalType /\ NormalShape
    BY EmptySeq DEF Init, NormalType, NormalShape
  <1>4. ControlType /\ ControlShape
    BY EmptySeq DEF Init, ControlType, ControlShape
  <1>5. QueuedIsArmed
    BY EmptySeq DEF Init, QueuedIsArmed
  <1>6. ControlKept
    BY EmptySeq, ConcatEmptySeq DEF Init, ControlKept
  <1>7. NormalInOrder
    BY EmptySeq, ConcatEmptySeq, SubSeqEmpty DEF Init, NormalInOrder
  <1> QED
    BY <1>1, <1>2, <1>3, <1>4, <1>5, <1>6, <1>7 DEF LoopInv, TypeOK

(* The admissions, the close and the owner's position.                     *)
LEMMA AdmissionStep ==
    ASSUME LoopInv, Next
    PROVE  AdmissionType' /\ ClosingShape'
  <1> USE DEF LoopInv, TypeOK, AdmissionType, ClosingShape, OwnerStates, Waking
  <1>1. CASE Post
    BY <1>1 DEF Post, PostEvent, PostControlEvent, PostFails, admissionVars
  <1>2. CASE CloseAdmission
    BY <1>2 DEF CloseAdmission
  <1>3. CASE RequestStop
    BY <1>3 DEF RequestStop
  <1>4. CASE CloseWake
    BY <1>4 DEF CloseWake
  <1>5. CASE RunLoop \/ SkipLoop \/ CheckStop
    BY <1>5 DEF RunLoop, SkipLoop, CheckStop, Go, queueVars, admissionVars
  <1>6. CASE PollWake \/ PollOther \/ PollFails
    BY <1>6 DEF PollWake, PollOther, PollFails, Go, queueVars, admissionVars
  <1>7. CASE DispatchWake \/ ReadWake \/ ReadNothing \/ DeliverWake
    BY <1>7 DEF DispatchWake, ReadWake, ReadNothing, DeliverWake, Go,
                queueVars, admissionVars
  <1>8. CASE Snapshot \/ TakeControl \/ RunControl
    BY <1>8 DEF Snapshot, TakeControl, RunControl, Go, admissionVars
  <1>9. CASE TakeNormal \/ NextNormal \/ StartNormal
    BY <1>9 DEF TakeNormal, NextNormal, StartNormal, Go, admissionVars
  <1>10. CASE QuiesceBegin
    BY <1>10 DEF QuiesceBegin, DispatchAllowed, admissionVars
  <1>11. CASE QuiesceControl \/ QuiesceFinish
    BY <1>11 DEF QuiesceControl, QuiesceFinish, Go, admissionVars
  <1>12. CASE Destroy
    BY <1>12 DEF Destroy, admissionVars
  <1>13. CASE Terminated
    BY <1>13 DEF Terminated, vars, admissionVars
  <1> QED
    BY <1>1, <1>2, <1>3, <1>4, <1>5, <1>6, <1>7, <1>8, <1>9, <1>10, <1>11,
       <1>12, <1>13 DEF Next, Close, HandleWake, Quiesce

(* The wake flag and the descriptor.                                       *)
LEMMA WakeTypeStep ==
    ASSUME LoopInv, Next
    PROVE  WakeType'
  <1> USE DEF LoopInv, TypeOK, WakeType, wakeVars
  <1>1. CASE Post
    <2>1. ArmWakeup \/ ArmFails
      BY <1>1, Zenon DEF Post, PostEvent, PostControlEvent, PostFails
    <2> QED BY <2>1, Zenon DEF ArmWakeup, ArmFails
  <1>2. CASE CloseWake
    BY <1>2, Zenon DEF CloseWake, ArmWakeup, ArmFails
  <1>3. CASE RunLoop
    BY <1>3, Zenon DEF RunLoop
  <1>4. CASE ReadWake
    BY <1>4, Zenon DEF ReadWake
  <1>5. CASE Snapshot
    BY <1>5, Zenon DEF Snapshot
  <1>6. CASE QuiesceFinish
    BY <1>6, Zenon DEF QuiesceFinish
  <1>7. CASE Destroy
    BY <1>7, Zenon DEF Destroy
  <1>8. CASE UNCHANGED wakeVars
    BY <1>8, Zenon
  <1> QED
    BY <1>1, <1>2, <1>3, <1>4, <1>5, <1>6, <1>7, <1>8 DEF Next, Close,
       HandleWake, Quiesce, CloseAdmission, RequestStop, SkipLoop, CheckStop,
       PollWake, PollOther, PollFails, DispatchWake, ReadNothing, DeliverWake,
       TakeControl, RunControl, TakeNormal, NextNormal, StartNormal,
       QuiesceBegin, QuiesceControl, Terminated, vars

(* Every step keeps a pending wake readable: the flag is set with a write  *)
(* and cleared after the read.                                             *)
LEMMA WakeStep ==
    ASSUME LoopInv, Next
    PROVE  ArmedIsReadable'
  <1> USE DEF LoopInv, TypeOK, AdmissionType, WakeType, ArmedIsReadable, wakeVars
  <1>1. CASE Post
    <2>1. CASE ArmWakeup /\ UNCHANGED <<normal_admission_open, opc>>
      BY <2>1, Zenon DEF ArmWakeup
    <2>2. CASE ArmFails /\ UNCHANGED <<normal_admission_open, opc>>
      <3>1. ~wakeup_pending' /\ readable' = readable /\ (fds => fds')
        BY <2>2, Zenon DEF ArmFails
      <3> QED BY <2>2, <3>1
    <2> QED
      BY <1>1, <2>1, <2>2 DEF Post, PostEvent, PostControlEvent, PostFails,
         admissionVars
  <1>2. CASE CloseAdmission \/ RequestStop
    BY <1>2 DEF CloseAdmission, RequestStop
  <1>4. CASE CloseWake
    <2>1. CASE ArmWakeup
      BY <1>4, <2>1, Zenon DEF CloseWake, ArmWakeup
    <2>2. CASE ArmFails
      <3>1. ~wakeup_pending' /\ readable' = readable /\ (fds => fds')
        BY <2>2, Zenon DEF ArmFails
      <3> QED BY <1>4, <3>1 DEF CloseWake
    <2> QED BY <1>4, <2>1, <2>2 DEF CloseWake
  <1>5. CASE RunLoop \/ SkipLoop \/ CheckStop
    BY <1>5 DEF RunLoop, SkipLoop, CheckStop, Go, queueVars, admissionVars
  <1>6. CASE PollWake \/ PollOther \/ PollFails
    BY <1>6 DEF PollWake, PollOther, PollFails, Go, queueVars, admissionVars
  <1>7. CASE DispatchWake \/ ReadWake \/ ReadNothing
    BY <1>7 DEF DispatchWake, ReadWake, ReadNothing, Go, queueVars,
                admissionVars
  <1>8. CASE DeliverWake
    BY <1>8 DEF DeliverWake, DispatchAllowed, ClosingShape, Go, queueVars,
                admissionVars
  <1>9. CASE Snapshot \/ TakeControl \/ RunControl
    BY <1>9 DEF Snapshot, TakeControl, RunControl, Go, admissionVars
  <1>10. CASE TakeNormal \/ NextNormal \/ StartNormal
    BY <1>10 DEF TakeNormal, NextNormal, StartNormal, Go, admissionVars
  <1>11. CASE Quiesce
    BY <1>11 DEF Quiesce, QuiesceBegin, QuiesceControl, QuiesceFinish, Go,
                 admissionVars
  <1>12. CASE Destroy
    BY <1>12 DEF Destroy, admissionVars
  <1>13. CASE Terminated
    BY <1>13 DEF Terminated, vars, admissionVars
  <1> QED
    BY <1>1, <1>2, <1>4, <1>5, <1>6, <1>7, <1>8, <1>9, <1>10, <1>11, <1>12,
       <1>13 DEF Next, Close, HandleWake

(* The control queue.                                                      *)
LEMMA ControlStep ==
    ASSUME LoopInv, Next
    PROVE  ControlType' /\ ControlShape' /\ ControlKept'
  <1> USE DEF LoopInv, TypeOK, ControlType, ControlShape, ControlKept
  <1> DEFINE Held == control_ran \o control_batch
  <1>0. Held \in Seq(Control)
    BY ConcatProperties
  <1>1. CASE \E e \in Control : PostControlEvent(e)
    <2>1. PICK e \in Control : PostControlEvent(e)
      BY <1>1
    <2>2. /\ control_events' = Append(control_events, e)
          /\ control_posted' = Append(control_posted, e)
          /\ opc # "destroyed" /\ control_admission_open
          /\ UNCHANGED <<control_left, control_batch, control_ran, opc>>
      BY <2>1 DEF PostControlEvent, MayPostControl, Alive, Enqueue
    <2>3. ControlType' /\ Len(control_events') = Len(control_events) + 1
      BY <2>2, AppendProperties
    <2>4. ControlShape'
      BY <2>2, <2>3, LenProperties
    <2>5. control_posted' = (Held \o control_events)'
      <3>1. control_posted = Held \o control_events
        BY <2>2
      <3>2. Held \o Append(control_events, e) = Append(Held \o control_events, e)
        BY <1>0, AppendLast, SMTT(30)
      <3> QED BY <2>2, <3>1, <3>2
    <2>6. opc # "quiesced"
      BY <2>2 DEF ClosingShape
    <2> QED BY <2>2, <2>3, <2>4, <2>5, <2>6
  <1>2. CASE (\E e \in Normal : PostEvent(e)) \/ PostFails \/ Close
    BY <1>2 DEF PostEvent, PostFails, Close, CloseAdmission, RequestStop,
                CloseWake, controlVars
  <1>3. CASE RunLoop \/ SkipLoop \/ CheckStop
    BY <1>3 DEF RunLoop, SkipLoop, CheckStop, Go, queueVars, controlVars
  <1>4. CASE PollWake \/ PollOther \/ PollFails
    BY <1>4 DEF PollWake, PollOther, PollFails, Go, queueVars, controlVars
  <1>5. CASE DispatchWake \/ ReadWake \/ ReadNothing \/ DeliverWake
    BY <1>5 DEF DispatchWake, ReadWake, ReadNothing, DeliverWake, Go,
                queueVars, controlVars
  <1>6. CASE Snapshot
    BY <1>6, LenProperties DEF Snapshot, Go
  <1>7. CASE TakeControl
    <2> DEFINE n == Lesser(control_left, BatchSize)
    <2>1. /\ n \in 0 .. Len(control_events) /\ n <= control_left
          /\ n = 0 <=> control_left = 0
      BY LoopAssumption, LenProperties DEF Lesser
    <2>2. /\ control_batch' = SubSeq(control_events, 1, n)
          /\ control_events' = SubSeq(control_events, n + 1, Len(control_events))
          /\ control_left' = control_left - n
          /\ opc = "control" /\ control_batch = << >>
          /\ opc' = IF control_left = 0 THEN "normal" ELSE "crun"
          /\ UNCHANGED <<control_posted, control_ran>>
      BY <1>7 DEF TakeControl, Go
    <2> HIDE DEF n
    <2>3. /\ control_batch' \in Seq(Control) /\ Len(control_batch') = n
          /\ control_events' \in Seq(Control)
          /\ Len(control_events') = Len(control_events) - n
      BY <2>1, <2>2, SplitSeq
    <2>4. ControlType'
      BY <2>1, <2>2, <2>3
    <2>5. ControlShape'
      <3>1. control_batch' = << >> <=> n = 0
        BY <2>1, <2>3, EmptySeq
      <3>2. Len(control_events) \in Nat
        BY LenProperties
      <3>3. control_left' <= Len(control_events')
        BY <2>1, <2>2, <2>3, <3>2
      <3>4. control_left = 0 => control_left' = 0
        <4> SUFFICES ASSUME control_left = 0 PROVE control_left' = 0
          OBVIOUS
        <4>1. n = 0
          BY <2>1
        <4> QED BY <2>2, <4>1
      <3> QED BY <2>1, <2>2, <3>1, <3>3, <3>4
    <2>6. ControlKept'
      BY <2>1, <2>2, TakeBatch
    <2> QED BY <2>4, <2>5, <2>6
  <1>8. CASE RunControl
    <2>1. /\ opc = "crun" /\ control_batch # << >>
          /\ control_ran' = Append(control_ran, Head(control_batch))
          /\ control_batch' = Tail(control_batch)
          /\ opc' = IF Len(control_batch) = 1 THEN "control" ELSE "crun"
          /\ UNCHANGED <<control_events, control_left, control_posted>>
      BY <1>8 DEF RunControl, Go
    <2>2. /\ Head(control_batch) \in Control /\ Tail(control_batch) \in Seq(Control)
          /\ Tail(control_batch) = << >> <=> Len(control_batch) = 1
      BY <2>1, HeadOff
    <2>3. ControlType'
      BY <2>1, <2>2, AppendProperties
    <2>4. ControlShape'
      BY <2>1, <2>2
    <2>5. ControlKept'
      BY <2>1, MoveHead
    <2> QED BY <2>3, <2>4, <2>5
  <1>9. CASE TakeNormal \/ NextNormal \/ StartNormal
    BY <1>9 DEF TakeNormal, NextNormal, StartNormal, Go, controlVars
  <1>10. CASE QuiesceBegin
    BY <1>10 DEF QuiesceBegin, controlVars
  <1>11. CASE QuiesceControl
    <2>1. /\ opc = "quiesce" /\ opc' = opc /\ control_events # << >>
          /\ control_batch = << >> /\ control_left = 0
          /\ control_ran' = Append(control_ran, Head(control_events))
          /\ control_events' = Tail(control_events)
          /\ UNCHANGED <<control_left, control_batch, control_posted>>
      BY <1>11 DEF QuiesceControl
    <2>2. /\ Head(control_events) \in Control
          /\ Tail(control_events) \in Seq(Control)
      BY <2>1, HeadOff
    <2>3. ControlType'
      BY <2>1, <2>2, AppendProperties
    <2>4. ControlShape'
      BY <2>1, <2>3, LenProperties
    <2>5. control_ran' \o control_events' = control_ran \o control_events
      BY <2>1, MoveHead
    <2>6. control_ran \o << >> = control_ran /\ control_ran' \o << >> = control_ran'
      BY <2>3, ConcatEmptySeq
    <2> QED BY <2>1, <2>3, <2>4, <2>5, <2>6
  <1>12. CASE QuiesceFinish
    <2>1. /\ opc = "quiesce" /\ opc' = "quiesced" /\ UNCHANGED controlVars
          /\ control_events = << >> /\ control_batch = << >>
      BY <1>12 DEF QuiesceFinish, Go
    <2>2. control_ran \o << >> \o << >> = control_ran
      BY ConcatEmptySeq
    <2> QED BY <2>1, <2>2 DEF controlVars
  <1>13. CASE Destroy
    BY <1>13, EmptySeq DEF Destroy
  <1>14. CASE Terminated
    BY <1>14 DEF Terminated, vars, controlVars
  <1> QED
    BY <1>1, <1>2, <1>3, <1>4, <1>5, <1>6, <1>7, <1>8, <1>9, <1>10, <1>11,
       <1>12, <1>13, <1>14 DEF Next, Post, HandleWake, Quiesce

(* The admission only ever closes.                                         *)
LEMMA ClosesOnly ==
    ASSUME LoopInv, Next
    PROVE  /\ DispatchAllowed' => DispatchAllowed
           /\ normal_admission_open' => normal_admission_open
           /\ control_admission_open' => control_admission_open
  <1> USE DEF LoopInv, TypeOK, AdmissionType, DispatchAllowed, admissionVars
  <1>1. CASE Post
    BY <1>1 DEF Post, PostEvent, PostControlEvent, PostFails
  <1>2. CASE Close
    BY <1>2 DEF Close, CloseAdmission, RequestStop, CloseWake
  <1>3. CASE RunLoop \/ SkipLoop \/ CheckStop \/ PollWake \/ PollOther \/ PollFails
    BY <1>3 DEF RunLoop, SkipLoop, CheckStop, PollWake, PollOther, PollFails,
                queueVars
  <1>4. CASE HandleWake
    BY <1>4 DEF HandleWake, DispatchWake, ReadWake, ReadNothing, DeliverWake,
                Snapshot, TakeControl, RunControl, TakeNormal, NextNormal,
                StartNormal, queueVars
  <1>5. CASE Quiesce
    BY <1>5 DEF Quiesce, QuiesceBegin, QuiesceControl, QuiesceFinish
  <1>6. CASE Destroy \/ Terminated
    BY <1>6 DEF Destroy, Terminated, vars
  <1> QED BY <1>1, <1>2, <1>3, <1>4, <1>5, <1>6 DEF Next

(* A step that leaves the normal queue alone and does not enter a batch.   *)
LEMMA NormalStable ==
    ASSUME LoopInv, Next, UNCHANGED normalVars,
           opc' = opc \/ {opc, opc'} \cap {"next", "start"} = {},
           opc' \notin {"control", "crun", "normal", "next", "start"} =>
              custom_left = 0,
           opc = "destroyed" => opc' = "destroyed"
    PROVE  NormalType' /\ NormalShape' /\ NormalInOrder'
  <1> USE DEF LoopInv, TypeOK, NormalType, NormalShape, NormalInOrder, normalVars
  <1>1. NormalType'
    OBVIOUS
  <1>2. opc' \in {"next", "start"} => opc' = opc
    OBVIOUS
  <1>3. opc \in {"next", "start"} => opc' = opc
    OBVIOUS
  <1>4. NormalShape'
    BY <1>2, <1>3
  <1>5. NormalInOrder'
    BY <1>2, ClosesOnly
  <1> QED BY <1>1, <1>4, <1>5

(* The normal queue.                                                       *)
LEMMA NormalStep ==
    ASSUME LoopInv, Next
    PROVE  NormalType' /\ NormalShape' /\ NormalInOrder'
  <1> USE DEF LoopInv, TypeOK, NormalType
  <1> DEFINE Held == ran \o batch
  <1>0. /\ Held \in Seq(Normal) /\ Len(custom_events) \in Nat
        /\ IsPrefixOf(ran, posted)
    BY ConcatProperties, LenProperties DEF IsPrefixOf, NormalInOrder
  <1>1. CASE \E e \in Normal : PostEvent(e)
    <2>1. PICK e \in Normal : PostEvent(e)
      BY <1>1
    <2>2. /\ custom_events' = Append(custom_events, e)
          /\ posted' = Append(posted, e)
          /\ opc # "destroyed" /\ DispatchAllowed
          /\ UNCHANGED <<custom_left, batch, ran, opc>>
      BY <2>1 DEF PostEvent, MayPost, Alive, Enqueue
    <2>3. NormalType' /\ Len(custom_events') = Len(custom_events) + 1
      BY <2>2, AppendProperties
    <2>4. NormalShape'
      BY <1>0, <2>2, <2>3 DEF NormalShape
    <2>5. posted' = (Held \o custom_events)'
      <3>1. posted = Held \o custom_events
        BY <2>2 DEF NormalInOrder
      <3>2. Held \o Append(custom_events, e) = Append(Held \o custom_events, e)
        BY <1>0, AppendLast, SMTT(30)
      <3> QED BY <2>2, <3>1, <3>2
    <2>6. IsPrefixOf(ran', posted')
      BY <1>0, <2>2, PrefixAppend
    <2> QED BY <2>3, <2>4, <2>5, <2>6 DEF NormalInOrder, IsPrefixOf
  <1>2. CASE (\E e \in Control : PostControlEvent(e)) \/ PostFails \/ Close
    BY <1>2, NormalStable DEF PostControlEvent, PostFails, Close,
       CloseAdmission, RequestStop, CloseWake, NormalShape
  <1>3. CASE RunLoop \/ SkipLoop \/ CheckStop
    BY <1>3, NormalStable DEF RunLoop, SkipLoop, CheckStop, Go, queueVars,
       NormalShape
  <1>4. CASE PollWake \/ PollOther \/ PollFails
    BY <1>4, NormalStable DEF PollWake, PollOther, PollFails, Go, queueVars,
       NormalShape
  <1>5. CASE DispatchWake \/ ReadWake \/ ReadNothing \/ DeliverWake
    BY <1>5, NormalStable DEF DispatchWake, ReadWake, ReadNothing, DeliverWake,
       Go, queueVars, NormalShape
  <1>6. CASE Snapshot
    <2>1. /\ opc = "snapshot" /\ opc' = "control"
          /\ custom_left' = Len(custom_events)
          /\ UNCHANGED <<custom_events, batch, posted, ran>>
      BY <1>6 DEF Snapshot, Go
    <2>2. NormalShape'
      BY <1>0, <2>1 DEF NormalShape
    <2>3. NormalInOrder'
      BY <2>1, ClosesOnly DEF NormalInOrder
    <2> QED BY <1>0, <2>1, <2>2, <2>3
  <1>7. CASE TakeControl \/ RunControl
    BY <1>7, NormalStable DEF TakeControl, RunControl, Go, NormalShape
  <1>8. CASE TakeNormal
    <2> DEFINE n == IF DispatchAllowed THEN Lesser(custom_left, BatchSize) ELSE 0
    <2>1. /\ n \in 0 .. Len(custom_events) /\ n <= custom_left
          /\ n # 0 => DispatchAllowed
      BY <1>0, LoopAssumption DEF Lesser, NormalShape
    <2>2. /\ batch' = SubSeq(custom_events, 1, n)
          /\ custom_events' = SubSeq(custom_events, n + 1, Len(custom_events))
          /\ custom_left' = IF n = 0 THEN 0 ELSE custom_left - n
          /\ opc = "normal" /\ batch = << >>
          /\ opc' = IF n = 0 THEN "check" ELSE "next"
          /\ UNCHANGED <<posted, ran>>
      BY <1>8 DEF TakeNormal, Go, NormalShape
    <2> HIDE DEF n
    <2>3. /\ batch' \in Seq(Normal) /\ Len(batch') = n
          /\ custom_events' \in Seq(Normal)
          /\ Len(custom_events') = Len(custom_events) - n
      BY <2>1, <2>2, SplitSeq
    <2>4. NormalType'
      BY <1>0, <2>1, <2>2, <2>3
    <2>5. NormalShape'
      <3>1. batch' = << >> <=> n = 0
        BY <2>1, <2>3, EmptySeq
      <3>2. custom_left' <= Len(custom_events')
        BY <1>0, <2>1, <2>2, <2>3 DEF NormalShape
      <3> QED BY <2>2, <3>1, <3>2 DEF NormalShape
    <2>6. ran' \o batch' \o custom_events' = ran \o batch \o custom_events
      BY <2>1, <2>2, TakeBatch
    <2>7. NormalInOrder'
      BY <2>1, <2>2, <2>6, ClosesOnly DEF NormalInOrder
    <2> QED BY <2>4, <2>5, <2>7
  <1>9. CASE NextNormal
    <2>1. /\ opc = "next"
          /\ opc' = IF batch # << >> /\ DispatchAllowed THEN "start" ELSE "normal"
          /\ batch' = IF DispatchAllowed THEN batch ELSE << >>
          /\ UNCHANGED <<custom_events, custom_left, posted, ran>>
      BY <1>9 DEF NextNormal, Go
    <2>2. NormalType' /\ NormalShape'
      BY <2>1 DEF NormalShape
    <2>3. CASE DispatchAllowed
      BY <2>1, <2>2, <2>3 DEF NormalInOrder
    <2>4. CASE ~DispatchAllowed
      BY <2>1, <2>2, <2>4, ClosesOnly DEF NormalInOrder
    <2> QED BY <2>2, <2>3, <2>4
  <1>10. CASE StartNormal
    <2>1. /\ opc = "start" /\ opc' = "next" /\ batch # << >>
          /\ ran' = Append(ran, Head(batch))
          /\ batch' = Tail(batch)
          /\ UNCHANGED <<custom_events, custom_left, posted>>
      BY <1>10 DEF StartNormal, Go, NormalShape
    <2>2. NormalType'
      BY <2>1, HeadOff, AppendProperties
    <2>3. NormalShape'
      BY <2>1 DEF NormalShape
    <2>4. posted' = (ran \o batch \o custom_events)'
      BY <2>1, MoveHead DEF NormalInOrder
    <2>5. posted' = ran' \o (batch' \o custom_events')
      <3>1. ran' \in Seq(Normal) /\ batch' \in Seq(Normal) /\ custom_events' \in Seq(Normal)
        BY <2>2
      <3>2. (ran' \o batch') \o custom_events' = ran' \o (batch' \o custom_events')
        BY ONLY <3>1, ConcatAssociative
      <3> QED BY <2>4, <3>2
    <2>6. IsPrefixOf(ran', posted')
      BY <2>2, <2>5, ConcatPrefix, ConcatProperties
    <2> QED BY <2>2, <2>3, <2>4, <2>6 DEF NormalInOrder, IsPrefixOf
  <1>11. CASE QuiesceBegin \/ QuiesceControl
    BY <1>11, NormalStable DEF QuiesceBegin, QuiesceControl, NormalShape
  <1>12. CASE QuiesceFinish
    <2>1. /\ opc = "quiesce" /\ opc' = "quiesced" /\ custom_events' = << >>
          /\ UNCHANGED <<custom_left, batch, posted, ran>>
          /\ ~normal_admission_open
      BY <1>12 DEF QuiesceFinish, Go, ClosingShape
    <2>2. NormalType' /\ NormalShape'
      BY <2>1, EmptySeq DEF NormalShape
    <2>3. ~DispatchAllowed'
      BY <2>1, ClosesOnly DEF DispatchAllowed
    <2> QED BY <2>1, <2>2, <2>3 DEF NormalInOrder
  <1>13. CASE Destroy
    BY <1>13, EmptySeq DEF Destroy, NormalShape, NormalInOrder
  <1>14. CASE Terminated
    BY <1>14, NormalStable DEF Terminated, vars, NormalShape
  <1> QED
    BY <1>1, <1>2, <1>3, <1>4, <1>5, <1>6, <1>7, <1>8, <1>9, <1>10, <1>11,
       <1>12, <1>13, <1>14 DEF Next, Post, HandleWake, Quiesce

(* Nothing is queued without a wake, part by part.                         *)
LEMMA QueuedStep ==
    ASSUME LoopInv, Next
    PROVE  QueuedIsArmed'
  <1> USE DEF LoopInv, TypeOK, NormalType, ControlType, QueuedIsArmed
  <1>0. Len(custom_events) \in Nat /\ Len(control_events) \in Nat
    BY LenProperties
  <1>c. /\ normal_admission_open' => normal_admission_open
        /\ control_admission_open' => control_admission_open
    BY ClosesOnly
  <1>1. CASE (\E e \in Normal : PostEvent(e)) \/ (\E e \in Control : PostControlEvent(e))
    <2>1. wakeup_pending'
      BY <1>1, Zenon DEF PostEvent, PostControlEvent, ArmWakeup, wakeVars
    <2> QED BY <2>1
  <1>2. CASE PostFails \/ CloseWake
    <2>1. UNCHANGED <<normalVars, controlVars>>
      BY <1>2 DEF PostFails, CloseWake
    <2>2. wakeup_pending => wakeup_pending'
      BY <1>2, Zenon DEF PostFails, CloseWake, ArmWakeup, ArmFails, wakeVars
    <2> QED BY <1>c, <2>1, <2>2 DEF normalVars, controlVars
  <1>3. CASE UNCHANGED <<wakeup_pending, normalVars, controlVars>>
    BY <1>c, <1>3 DEF normalVars, controlVars
  <1>4. CASE Snapshot
    BY <1>0, <1>4 DEF Snapshot
  <1>5. CASE TakeControl
    <2> DEFINE n == Lesser(control_left, BatchSize)
    <2>1. n \in 0 .. Len(control_events) /\ n <= control_left
      BY <1>0, LoopAssumption DEF Lesser, ControlShape
    <2>2. /\ control_events' = SubSeq(control_events, n + 1, Len(control_events))
          /\ control_left' = control_left - n
          /\ UNCHANGED <<wakeup_pending, normalVars>>
      BY <1>5 DEF TakeControl, wakeVars
    <2> HIDE DEF n
    <2>3. Len(control_events') = Len(control_events) - n
      BY <2>1, <2>2, SplitSeq
    <2>4. Len(control_events') > control_left' => Len(control_events) > control_left
      BY <1>0, <2>1, <2>2, <2>3
    <2> QED BY <1>c, <2>2, <2>4 DEF normalVars
  <1>6. CASE TakeNormal
    <2> DEFINE n == IF DispatchAllowed THEN Lesser(custom_left, BatchSize) ELSE 0
    <2>1. /\ n \in 0 .. Len(custom_events) /\ n <= custom_left
          /\ DispatchAllowed /\ n = 0 => custom_left = 0
      BY <1>0, LoopAssumption DEF Lesser, NormalShape
    <2>2. /\ custom_events' = SubSeq(custom_events, n + 1, Len(custom_events))
          /\ custom_left' = IF n = 0 THEN 0 ELSE custom_left - n
          /\ UNCHANGED <<wakeup_pending, controlVars>>
      BY <1>6 DEF TakeNormal, wakeVars
    <2> HIDE DEF n
    <2>3. Len(custom_events') = Len(custom_events) - n
      BY <2>1, <2>2, SplitSeq
    <2>4. normal_admission_open => DispatchAllowed
      BY DEF DispatchAllowed, ClosingShape, AdmissionType
    <2>5. DispatchAllowed /\ Len(custom_events') > custom_left' =>
             Len(custom_events) > custom_left
      BY <1>0, <2>1, <2>2, <2>3
    <2> QED BY <1>c, <2>2, <2>4, <2>5 DEF controlVars
  <1>7. CASE RunControl \/ NextNormal \/ StartNormal
    BY <1>c, <1>7 DEF RunControl, NextNormal, StartNormal, wakeVars,
       normalVars, controlVars
  <1>8. CASE QuiesceBegin \/ QuiesceControl \/ QuiesceFinish
    <2>1. ~normal_admission_open /\ ~control_admission_open'
      BY <1>8 DEF QuiesceBegin, QuiesceControl, QuiesceFinish, Go,
         DispatchAllowed, ClosingShape, AdmissionType
    <2> QED BY <1>c, <2>1
  <1>9. CASE Destroy
    BY <1>9, EmptySeq DEF Destroy
  <1> QED
    BY <1>1, <1>2, <1>3, <1>4, <1>5, <1>6, <1>7, <1>8, <1>9 DEF Next, Post,
       Close, HandleWake, Quiesce, CloseAdmission, RequestStop, RunLoop,
       SkipLoop, CheckStop, PollWake, PollOther, PollFails, DispatchWake,
       ReadWake, ReadNothing, DeliverWake, Terminated, vars, wakeVars,
       queueVars

-----------------------------------------------------------------------------

(* LoopInv is inductive.                                                   *)
LEMMA LoopStep == LoopInv /\ [Next]_vars => LoopInv'
  <1> SUFFICES ASSUME LoopInv, [Next]_vars PROVE LoopInv'
    OBVIOUS
  <1>1. CASE Next
    BY <1>1, AdmissionStep, WakeTypeStep, WakeStep, ControlStep, NormalStep,
       QueuedStep DEF LoopInv, TypeOK
  <1>2. CASE UNCHANGED vars
    BY <1>2, ZenonT(30) DEF vars, admissionVars, wakeVars, normalVars, controlVars, LoopInv,
       TypeOK, AdmissionType, WakeType, NormalType, ControlType, NormalShape,
       ControlShape, ClosingShape, ArmedIsReadable, QueuedIsArmed, ControlKept,
       NormalInOrder, DispatchAllowed
  <1> QED BY <1>1, <1>2

(* The inductive invariant of the loop, for any events and any batch size: *)
(* types, the wake, the queues and the order of service.                   *)
THEOREM LoopSafe == Spec => []LoopInv
  BY InitLoop, LoopStep, PTL DEF Spec

(* wloopArmWakeupLocked and eventFDReadCB never lose a wake: a pending     *)
(* flag stands for unread data or a read on its way, and a queued event    *)
(* that no snapshot holds has the flag set.                                *)
THEOREM WakeArmed == Spec => []WakeNotLost
  <1>1. LoopInv => WakeNotLost
    BY DEF LoopInv, WakeNotLost
  <1> QED BY <1>1, LoopSafe, PTL

(* Control events are served in order and all of them before the loop is   *)
(* quiesced.                                                               *)
THEOREM ControlServed == Spec => []ControlKept
  <1>1. LoopInv => ControlKept
    BY DEF LoopInv
  <1> QED BY <1>1, LoopSafe, PTL

(* Normal events are served in order, once, without a gap.                 *)
THEOREM NormalServed == Spec => []NormalInOrder
  <1>1. LoopInv => NormalInOrder
    BY DEF LoopInv
  <1> QED BY <1>1, LoopSafe, PTL

(* Nothing is accepted behind a closed admission.                          *)
THEOREM LoopRefuses == Spec => ClosedTakesNothing
  <1>1. LoopInv /\ [Next]_vars =>
          [/\ ~normal_admission_open => posted' = posted
           /\ ~control_admission_open => control_posted' = control_posted]_vars
    <2> SUFFICES ASSUME LoopInv, Next
                 PROVE  /\ ~normal_admission_open => posted' = posted
                        /\ ~control_admission_open => control_posted' = control_posted
      OBVIOUS
    <2>1. CASE \E e \in Normal : PostEvent(e)
      BY <2>1 DEF PostEvent, MayPost, DispatchAllowed, controlVars
    <2>2. CASE \E e \in Control : PostControlEvent(e)
      BY <2>2 DEF PostControlEvent, MayPostControl, normalVars
    <2>3. CASE UNCHANGED <<posted, control_posted>>
      BY <2>3
    <2> QED
      BY <2>1, <2>2, <2>3 DEF Next, Post, PostFails, Close, CloseAdmission,
         RequestStop, CloseWake, RunLoop, SkipLoop, CheckStop, PollWake,
         PollOther, PollFails, HandleWake, DispatchWake, ReadWake, ReadNothing,
         DeliverWake, Snapshot, TakeControl, RunControl, TakeNormal,
         NextNormal, StartNormal, Quiesce, QuiesceBegin, QuiesceControl,
         QuiesceFinish, Destroy, Terminated, vars, queueVars, normalVars,
         controlVars
  <1> QED BY <1>1, LoopSafe, PTL DEF Spec, ClosedTakesNothing

(* Nothing is admitted to run behind a closed admission.                   *)
THEOREM LoopStops == Spec => ClosedStartsNothing
  <1>1. LoopInv /\ [Next]_vars =>
          [~normal_admission_open /\ opc' \in {"read", "start"} => opc' = opc]_vars
    <2> SUFFICES ASSUME LoopInv, Next, ~normal_admission_open,
                        opc' \in {"read", "start"}
                 PROVE  opc' = opc
      OBVIOUS
    <2>1. ~DispatchAllowed
      BY DEF DispatchAllowed
    <2>2. CASE Post \/ Close
      BY <2>2 DEF Post, PostEvent, PostControlEvent, PostFails, Close,
         CloseAdmission, RequestStop, CloseWake
    <2>3. CASE HandleWake
      BY <2>1, <2>3 DEF HandleWake, DispatchWake, ReadWake, ReadNothing,
         DeliverWake, Snapshot, TakeControl, RunControl, TakeNormal,
         NextNormal, StartNormal, Go
    <2>4. CASE Quiesce \/ Destroy \/ Terminated
      BY <2>4 DEF Quiesce, QuiesceBegin, QuiesceControl, QuiesceFinish, Go,
         Destroy, Terminated, vars
    <2>5. CASE RunLoop \/ SkipLoop \/ CheckStop \/ PollWake \/ PollOther \/ PollFails
      BY <2>5 DEF RunLoop, SkipLoop, CheckStop, PollWake, PollOther,
         PollFails, Go
    <2> QED BY <2>2, <2>3, <2>4, <2>5 DEF Next
  <1> QED BY <1>1, LoopSafe, PTL DEF Spec, ClosedStartsNothing

-----------------------------------------------------------------------------
(* The composed loop.                                                      *)

(* Only the closing store touches the admission that the timers look at.   *)
LEMMA SharedAdmission ==
    ASSUME \/ PostNext \/ RequestStop \/ CloseWake \/ RunLoop \/ SkipLoop
           \/ PollWake \/ PollOther \/ RunControl \/ StartNormal
           \/ CheckStop \/ PollFails \/ DispatchWake \/ ReadWake \/ ReadNothing
           \/ DeliverWake \/ Snapshot \/ TakeControl \/ TakeNormal \/ NextNormal
           \/ QuiesceControl \/ QuiesceBegin \/ QuiesceFinish \/ Destroy \/ Terminated
    PROVE  UNCHANGED normal_admission_open
  BY DEF PostNext, PostEvent, PostControlEvent, PostFails, RequestStop, CloseWake, RunLoop,
         SkipLoop, PollWake, PollOther, RunControl, StartNormal, CheckStop, PollFails,
         DispatchWake, ReadWake, ReadNothing, DeliverWake, Snapshot, TakeControl, TakeNormal,
         NextNormal, QuiesceControl, QuiesceBegin, QuiesceFinish, Destroy, Terminated,
         admissionVars, queueVars, vars

(* Timers are left alone by a step that is apart from them.                *)
LEMMA TimersApart ==
    ASSUME Apart, UNCHANGED normal_admission_open
    PROVE  UNCHANGED T!vars
  BY DEF Apart, timerVars, T!vars, T!timerVars, T!flagVars, T!ownerVars

(* Every step of the loop is one of EventLoop's, or leaves it alone,       *)
LEMMA LoopStepIsNext == [LoopNext]_loopVars => [Next]_vars
  <1> SUFFICES ASSUME [LoopNext]_loopVars PROVE [Next]_vars
    OBVIOUS
  <1>1. CASE UNCHANGED loopVars
    BY <1>1 DEF loopVars
  <1>2. CASE Others
    <2>1. PostNext => Post
      BY DEF PostNext, Fresh, Post
    <2> QED BY <1>2, <2>1 DEF Others, Next, Close
  <1>3. CASE Owners \/ TimerPass
    BY <1>3 DEF Owners, TimerPass
  <1>4. CASE Begin \/ Poll \/ Callback
    BY <1>4 DEF Begin, Poll, Callback, Next, HandleWake
  <1>5. CASE Serve
    BY <1>5 DEF Serve, Next, HandleWake, Quiesce
  <1>6. CASE BeginQuiesce \/ FinishQuiesce \/ DestroyLoop \/ (Terminated /\ Apart)
    BY <1>6 DEF BeginQuiesce, FinishQuiesce, DestroyLoop, Next, Quiesce
  <1> QED BY <1>1, <1>2, <1>3, <1>4, <1>5, <1>6 DEF LoopNext

(* and one of LoopTimers's, or leaves the timers alone.                    *)
LEMMA LoopStepIsTimers == [LoopNext]_loopVars => [T!Next]_(T!vars)
  <1> SUFFICES ASSUME [LoopNext]_loopVars PROVE T!Next \/ UNCHANGED T!vars
    OBVIOUS
  <1>1. CASE UNCHANGED loopVars
    <2>1. Apart /\ UNCHANGED normal_admission_open
      BY <1>1 DEF loopVars, Apart, vars, admissionVars
    <2> QED BY <2>1, TimersApart
  <1>2. CASE Others
    BY <1>2, SharedAdmission, TimersApart DEF Others, T!Next
  <1>3. CASE Owners
    BY <1>3 DEF Owners, T!Next
  <1>4. CASE TimerPass
    BY <1>4 DEF TimerPass, T!Next, T!Pass
  <1>5. CASE Begin \/ Callback
    BY <1>5 DEF Begin, Callback, T!Next, T!Pass
  <1>6. CASE Poll
    BY <1>6, SharedAdmission, TimersApart DEF Poll, ThenTimers, T!Next, T!Pass
  <1>7. CASE Serve
    BY <1>7, SharedAdmission, TimersApart DEF Serve
  <1>8. CASE BeginQuiesce \/ FinishQuiesce \/ DestroyLoop
    BY <1>8 DEF BeginQuiesce, FinishQuiesce, DestroyLoop, T!Next
  <1>9. CASE Terminated /\ Apart
    BY <1>9, SharedAdmission, TimersApart
  <1> QED BY <1>1, <1>2, <1>3, <1>4, <1>5, <1>6, <1>7, <1>8, <1>9 DEF LoopNext

(* The loop with its timers implements the loop of wakes and queues, so    *)
(* that what holds of the one holds of the other.                          *)
THEOREM LoopImplementsEvents == LoopSpec => Spec
  <1>1. LoopInit => Init
    BY DEF LoopInit
  <1> QED BY <1>1, LoopStepIsNext, PTL DEF LoopSpec, Spec

(* And it implements the timers.                                           *)
THEOREM LoopImplementsTimers == LoopSpec => T!Spec
  <1>1. LoopInit => T!Init
    BY DEF LoopInit
  <1> QED BY <1>1, LoopStepIsTimers, PTL DEF LoopSpec, T!Spec

(* No wake is lost or missing, with timers and their owners at work.       *)
THEOREM LoopWakes == LoopSpec => []WakeNotLost
  BY LoopImplementsEvents, WakeArmed, PTL

(* No control event is lost.                                               *)
THEOREM LoopControl == LoopSpec => []ControlKept
  BY LoopImplementsEvents, ControlServed, PTL

(* Normal events run in order.                                             *)
THEOREM LoopNormal == LoopSpec => []NormalInOrder
  BY LoopImplementsEvents, NormalServed, PTL

-----------------------------------------------------------------------------
(* The pending list.  No timer is in it twice,                             *)
Once(q) == \A i, j \in 1 .. Len(q) : q[i] = q[j] => i = j

(* neither when one joins at any place,                                    *)
LEMMA JoinList ==
    ASSUME NEW q \in Seq(Timers), NEW n \in 0 .. Len(q), NEW t \in Timers
    PROVE  LET v == SubSeq(q, 1, n) \o <<t>> \o SubSeq(q, n + 1, Len(q))
           IN  /\ v \in Seq(Timers) /\ v # << >> /\ Len(v) = Len(q) + 1
               /\ Elements(v) = Elements(q) \cup {t}
               /\ Once(q) /\ t \notin Elements(q) => Once(v)
  <1> DEFINE a == SubSeq(q, 1, n)
             b == SubSeq(q, n + 1, Len(q))
             c == a \o <<t>>
             v == c \o b
  <1>0. Len(q) \in Nat /\ n \in Nat /\ n <= Len(q)
    OBVIOUS
  <1>1. /\ a \in Seq(Timers) /\ Len(a) = n /\ \A i \in 1 .. n : a[i] = q[i]
    BY <1>0
  <1>2. /\ b \in Seq(Timers) /\ Len(b) = Len(q) - n /\ \A i \in 1 .. Len(q) - n : b[i] = q[n + i]
    BY <1>0
  <1>3. <<t>> \in Seq(Timers) /\ Len(<<t>>) = 1 /\ <<t>>[1] = t
    OBVIOUS
  <1>4. /\ c \in Seq(Timers) /\ Len(c) = n + 1
        /\ \A i \in 1 .. Len(a) + 1 : c[i] = IF i <= Len(a) THEN a[i] ELSE <<t>>[i - Len(a)]
    <2> HIDE DEF a
    <2> QED BY <1>1, <1>3, ConcatProperties
  <1>5. /\ v \in Seq(Timers) /\ Len(v) = Len(c) + Len(b)
        /\ \A i \in 1 .. Len(c) + Len(b) : v[i] = IF i <= Len(c) THEN c[i] ELSE b[i - Len(c)]
    <2> HIDE DEF b, c
    <2> QED BY <1>2, <1>4, ConcatProperties
  <1> HIDE DEF a, b, c, v
  <1>6. /\ v \in Seq(Timers) /\ Len(v) = Len(q) + 1
        /\ \A i \in 1 .. n : v[i] = q[i]
        /\ v[n + 1] = t
        /\ \A i \in n + 2 .. Len(q) + 1 : v[i] = q[i - 1]
    <2>1. Len(v) = Len(q) + 1 /\ Len(a) = n /\ Len(c) = n + 1 /\ Len(b) = Len(q) - n
      BY <1>0, <1>1, <1>2, <1>4, <1>5
    <2>2. ASSUME NEW i \in 1 .. n PROVE v[i] = q[i]
      <3>1. v[i] = c[i]
        BY <1>0, <1>5, <2>1
      <3>2. c[i] = a[i]
        BY <1>0, <1>4, <2>1
      <3> QED BY <1>1, <3>1, <3>2
    <2>3. v[n + 1] = t
      <3>1. v[n + 1] = c[n + 1]
        BY <1>0, <1>5, <2>1
      <3>2. c[n + 1] = <<t>>[n + 1 - n]
        BY <1>0, <1>4, <2>1
      <3>3. n + 1 - n = 1
        BY <1>0
      <3> QED BY <1>3, <3>1, <3>2, <3>3
    <2>4. ASSUME NEW i \in n + 2 .. Len(q) + 1 PROVE v[i] = q[i - 1]
      <3>1. v[i] = b[i - (n + 1)]
        BY <1>0, <1>5, <2>1, SMTT(30)
      <3>2. i - (n + 1) \in 1 .. Len(q) - n /\ n + (i - (n + 1)) = i - 1
        BY <1>0
      <3> QED BY <1>2, <3>1, <3>2
    <2> QED BY <1>5, <2>1, <2>2, <2>3, <2>4
  <1>7. Elements(v) = Elements(q) \cup {t}
    <2>1. ASSUME NEW i \in 1 .. Len(v) PROVE v[i] \in Elements(q) \cup {t}
      <3>1. i \in 1 .. n \/ i = n + 1 \/ (i \in n + 2 .. Len(q) + 1 /\ i - 1 \in 1 .. Len(q))
        BY <1>0, <1>6
      <3>2. CASE i \in 1 .. n
        <4>1. i \in 1 .. Len(q) /\ v[i] = q[i]
          BY <1>0, <1>6, <3>2
        <4> QED BY <4>1 DEF Elements
      <3>3. CASE i = n + 1
        BY <1>6, <3>3
      <3>4. CASE i \in n + 2 .. Len(q) + 1 /\ i - 1 \in 1 .. Len(q)
        <4>1. v[i] = q[i - 1]
          BY <1>6, <3>4
        <4> QED BY <3>4, <4>1 DEF Elements
      <3> QED BY <3>1, <3>2, <3>3, <3>4
    <2>2. ASSUME NEW i \in 1 .. Len(q) PROVE q[i] \in Elements(v)
      <3>1. CASE i <= n
        <4>1. i \in 1 .. Len(v) /\ v[i] = q[i]
          BY <1>0, <1>6, <3>1
        <4> QED BY <4>1 DEF Elements
      <3>2. CASE i > n
        <4>1. i + 1 \in 1 .. Len(v) /\ v[i + 1] = q[i + 1 - 1] /\ i + 1 - 1 = i
          BY <1>0, <1>6, <3>2
        <4> QED BY <4>1 DEF Elements
      <3> QED BY <1>0, <3>1, <3>2
    <2>3. t \in Elements(v)
      <3>1. n + 1 \in 1 .. Len(v)
        BY <1>0, <1>6
      <3> QED BY <1>6, <3>1 DEF Elements
    <2> QED BY <2>1, <2>2, <2>3 DEF Elements
  <1>8. ASSUME Once(q), t \notin Elements(q) PROVE Once(v)
    <2> SUFFICES ASSUME NEW i \in 1 .. Len(v), NEW j \in 1 .. Len(v), v[i] = v[j], i < j
                 PROVE  FALSE
      <3>1. \A i, j \in 1 .. Len(v) : i = j \/ i < j \/ j < i
        BY <1>0, <1>6
      <3> QED BY <3>1 DEF Once
    <2>0. \A x \in 1 .. Len(q) : q[x] # t
      BY <1>8 DEF Elements
    <2>1. CASE j <= n
      BY <1>0, <1>6, <1>8, <2>1 DEF Once
    <2>2. CASE j = n + 1
      BY <1>0, <1>6, <2>0, <2>2
    <2>3. CASE j > n + 1
      <3>1. j - 1 \in 1 .. Len(q) /\ v[j] = q[j - 1]
        BY <1>0, <1>6, <2>3
      <3>2. CASE i <= n
        <4>1. i \in 1 .. Len(q) /\ v[i] = q[i] /\ i # j - 1
          BY <1>0, <1>6, <2>3, <3>2
        <4> QED BY <1>8, <3>1, <4>1 DEF Once
      <3>3. CASE i = n + 1
        BY <1>6, <2>0, <3>1, <3>3
      <3>4. CASE i > n + 1
        <4>1. i - 1 \in 1 .. Len(q) /\ v[i] = q[i - 1] /\ i - 1 # j - 1
          BY <1>0, <1>6, <3>4
        <4> QED BY <1>8, <3>1, <4>1 DEF Once
      <3> QED BY <1>0, <1>6, <3>2, <3>3, <3>4
    <2> QED BY <1>0, <1>6, <2>1, <2>2, <2>3
  <1>9. v # << >>
    BY <1>0, <1>6
  <1> QED BY <1>6, <1>7, <1>8, <1>9 DEF a, b, c, v

(* nor when the first leaves.                                              *)
LEMMA LeaveList ==
    ASSUME NEW q \in Seq(Timers), q # << >>
    PROVE  /\ Head(q) \in Timers /\ Head(q) \in Elements(q)
           /\ Tail(q) \in Seq(Timers) /\ Len(Tail(q)) = Len(q) - 1 /\ Len(q) \in Nat
           /\ Elements(q) = Elements(Tail(q)) \cup {Head(q)}
           /\ Once(q) => Once(Tail(q)) /\ Head(q) \notin Elements(Tail(q))
  <1> DEFINE r == Tail(q)
             h == Head(q)
  <1>1. /\ r \in Seq(Timers) /\ h \in Timers /\ Len(q) = Len(r) + 1 /\ Len(r) \in Nat
        /\ \A i \in 1 .. Len(r) : r[i] = q[i + 1]
        /\ q[1] = h
    OBVIOUS
  <1>2. \A i \in 1 .. Len(q) : i = 1 \/ (i - 1 \in 1 .. Len(r) /\ r[i - 1] = q[i])
    BY <1>1
  <1>3. \A i \in 1 .. Len(r) : i + 1 \in 1 .. Len(q) /\ i + 1 # 1
    BY <1>1
  <1>4. 1 \in 1 .. Len(q)
    BY <1>1
  <1> HIDE DEF r, h
  <1>5. Elements(q) = Elements(r) \cup {h}
    BY <1>1, <1>2, <1>3, <1>4 DEF Elements
  <1>6. ASSUME Once(q) PROVE Once(r) /\ h \notin Elements(r)
    <2>1. ASSUME NEW i \in 1 .. Len(r), NEW j \in 1 .. Len(r), r[i] = r[j] PROVE i = j
      <3>1. i + 1 = j + 1
        BY <1>1, <1>3, <1>6, <2>1 DEF Once
      <3> QED BY <3>1
    <2>2. h \notin Elements(r)
      BY <1>1, <1>3, <1>4, <1>6 DEF Once, Elements
    <2> QED BY <2>1, <2>2 DEF Once
  <1> QED BY <1>1, <1>5, <1>6 DEF r, h

(* The timers count with the same cardinality.                             *)
LEMMA SameCardinality == ASSUME NEW S PROVE T!Cardinality(S) = Cardinality(S)
  BY Zenon DEF T!Cardinality, Cardinality

(* Counting timers: one joins a set or leaves it.                          *)
LEMMA Counting ==
    ASSUME NEW S \in SUBSET Timers, NEW t \in Timers
    PROVE  /\ IsFiniteSet(S) /\ Cardinality(S) \in Nat
           /\ t \notin S => Cardinality(S \cup {t}) = Cardinality(S) + 1
           /\ t \in S => Cardinality(S \ {t}) = Cardinality(S) - 1
  <1>1. IsFiniteSet(S)
    BY TimersAssumption, FS_Subset
  <1> QED BY <1>1, FS_CardinalityType, FS_AddElement, FS_RemoveElement

(* A place among the entries of higher priority is a place of the list.    *)
LEMMA HigherInList ==
    ASSUME pendings \in Seq(Timers)
    PROVE  T!Higher \in 0 .. Len(pendings)
  <1> DEFINE S == {i \in 1 .. Len(pendings) : pendings[i] \notin period}
  <1>1. Len(pendings) \in Nat
    OBVIOUS
  <1>2. IsFiniteSet(1 .. Len(pendings)) /\ Cardinality(1 .. Len(pendings)) = Len(pendings)
    BY <1>1, FS_Interval, SMTT(30)
  <1>3. S \in SUBSET (1 .. Len(pendings))
    OBVIOUS
  <1> HIDE DEF S
  <1>4. IsFiniteSet(S) /\ Cardinality(S) <= Len(pendings)
    BY <1>2, <1>3, FS_Subset
  <1>5. Cardinality(S) \in Nat
    BY <1>4, FS_CardinalityType
  <1>6. T!Higher = Cardinality(S)
    BY SameCardinality, Zenon DEF S, T!Higher
  <1> QED BY <1>1, <1>4, <1>5, <1>6

-----------------------------------------------------------------------------
(* The type invariant of the timers, one variable at a time.               *)
TimerTypes ==
    /\ normal_admission_open \in BOOLEAN
    /\ mem \in [Timers -> {"none", "live", "freed"}]
    /\ heap \in SUBSET Timers
    /\ pendings \in Seq(Timers)
    /\ active \in SUBSET Timers /\ destroy \in SUBSET Timers
    /\ pending \in SUBSET Timers /\ pending_reset \in SUBSET Timers
    /\ quiesced \in SUBSET Timers /\ period \in SUBSET Timers
    /\ held \in SUBSET Timers /\ expired \in SUBSET Timers
    /\ repeat \in [Timers -> {INFINITE} \cup Nat]
    /\ tpc \in {"unstarted", "loop", "timers", "dispatch", "callback", "io",
                "stopped", "quiesced", "destroyed"}
    /\ cur \in Timers \cup {NoTimer}

(* What is known of one timer: its flags agree, and until the loop is      *)
(* destroyed it is in the heap when it lives, unmarked and not quiesced.   *)
TimerBooks(t) ==
    /\ T!FlagsOf(t)
    /\ tpc # "destroyed" =>
          (t \in heap <=> mem[t] = "live" /\ t \notin destroy /\ t \notin quiesced)
    /\ tpc = "destroyed" => mem[t] # "live"

(* The pending flag marks what the dispatch refers to, each once.          *)
PendingBooks ==
    /\ pending = Elements(pendings) \cup ({cur} \ {NoTimer})
    /\ Cardinality(pending) = Len(pendings) + (IF cur = NoTimer THEN 0 ELSE 1)

(* The number of timers is the size of the heaps.                          *)
TimerCount == ntimers \in Nat /\ (tpc # "destroyed" => ntimers = Cardinality(heap))

(* The dispatch: its list names no timer twice, and not the one whose      *)
(* callback is running.                                                    *)
DispatchBooks ==
    /\ tpc = "callback" <=> cur # NoTimer
    /\ pendings # << >> => tpc \in {"timers", "dispatch", "callback"}
    /\ Once(pendings)
    /\ cur \notin Elements(pendings)

(* The inductive invariant of the timers.                                  *)
TimerInv ==
    /\ TimerTypes
    /\ doubleFree = FALSE
    /\ DispatchBooks
    /\ PendingBooks
    /\ TimerCount
    /\ \A t \in Timers : TimerBooks(t)

(* It implies the property that is checked.                                *)
LEMMA TimerInvMeans == ASSUME TimerInv PROVE TimersInv
  <1> USE DEF TimerInv
  <1>1. T!TypeOK
    BY DEF TimerTypes, TimerCount, T!TypeOK
  <1>2. T!NoDangling
    <2>1. ~doubleFree /\ heap \cup quiesced \cup held \subseteq T!Live
      BY DEF TimerTypes, TimerBooks, T!FlagsOf, T!Live
    <2>2. \A t \in pending : t \in T!Live
      BY DEF TimerTypes, TimerBooks, T!FlagsOf, T!Live
    <2>3. \A i \in 1 .. Len(pendings) : pendings[i] \in pending
      BY DEF PendingBooks, Elements
    <2>4. tpc = "callback" => cur \in pending
      BY DEF PendingBooks, DispatchBooks
    <2> QED BY <2>1, <2>2, <2>3, <2>4 DEF T!NoDangling
  <1>3. T!ListsExact
    <2>1. tpc # "destroyed" => heap = T!Live \ (destroy \cup quiesced)
      BY DEF TimerTypes, TimerBooks, T!Live
    <2>2. pending = {pendings[i] : i \in 1 .. Len(pendings)} \cup ({cur} \ {NoTimer})
      BY Zenon DEF PendingBooks, Elements
    <2>3. /\ tpc # "destroyed" => ntimers = Cardinality(heap)
          /\ Cardinality(pending) = Len(pendings) + (IF cur = NoTimer THEN 0 ELSE 1)
      BY DEF TimerCount, PendingBooks
    <2> QED BY <2>1, <2>2, <2>3, SameCardinality, Zenon DEF T!ListsExact
  <1>4. T!NoLeak
    BY DEF TimerTypes, TimerBooks, T!FlagsOf, T!Live, T!NoLeak
  <1>5. T!FlagsAgree
    <2>1. T!DispatchShape
      BY DEF DispatchBooks, Once, Elements, T!DispatchShape
    <2>2. \A t \in Timers : T!FlagsOf(t)
      BY DEF TimerBooks
    <2> QED BY <2>1, <2>2 DEF T!FlagsAgree
  <1> QED BY <1>1, <1>2, <1>3, <1>4, <1>5 DEF TimersInv, T!TimersInv

(* It holds before the first timer is added.                               *)
LEMMA TimerInvInit == ASSUME T!Init PROVE TimerInv
  <1> USE DEF T!Init
  <1>1. Elements(<< >>) = {} /\ Len(<< >>) = 0 /\ Once(<< >>)
    BY DEF Elements, Once
  <1>2. Cardinality({}) = 0
    BY FS_EmptySet
  <1>3. TimerTypes
    BY DEF TimerTypes
  <1>4. DispatchBooks /\ PendingBooks /\ TimerCount
    BY <1>1, <1>2 DEF DispatchBooks, PendingBooks, TimerCount
  <1>5. \A t \in Timers : TimerBooks(t)
    BY DEF TimerBooks, T!FlagsOf
  <1> QED BY <1>3, <1>4, <1>5 DEF TimerInv

-----------------------------------------------------------------------------
(* Steps that move the owner on, or close the admission, and touch no      *)
(* timer.                                                                  *)
LEMMA MoveKeeps ==
    ASSUME TimerInv,
           \/ T!RunLoop \/ T!ProcessTimers \/ T!ProcessPendings \/ T!DispatchDone
           \/ T!IoBegin \/ T!IoEnd \/ T!Close \/ T!LeaveLoop \/ T!Terminated
           \/ UNCHANGED T!vars
    PROVE  TimerInv'
  <1> USE DEF TimerInv
  <1>1. /\ UNCHANGED <<mem, heap, ntimers, active, destroy, pending, pending_reset, quiesced,
                       period, repeat, doubleFree, pendings, cur, held, expired>>
        /\ \/ tpc' = tpc
           \/ tpc = "unstarted" /\ tpc' = "loop"
           \/ tpc = "loop" /\ tpc' \in {"timers", "io", "stopped"}
           \/ tpc = "timers" /\ tpc' = "dispatch"
           \/ tpc = "dispatch" /\ tpc' = "loop" /\ pendings = << >>
           \/ tpc = "io" /\ tpc' = "loop"
        /\ normal_admission_open' \in BOOLEAN
    BY DEF TimerTypes, T!RunLoop, T!ProcessTimers, T!ProcessPendings, T!DispatchDone, T!IoBegin,
           T!IoEnd, T!Close, T!LeaveLoop, T!Terminated, T!Go, T!vars, T!timerVars, T!flagVars,
           T!ownerVars
  <1>2. TimerTypes'
    BY <1>1 DEF TimerTypes
  <1>3. DispatchBooks'
    BY <1>1 DEF DispatchBooks
  <1>4. PendingBooks' /\ TimerCount'
    BY <1>1 DEF PendingBooks, TimerCount
  <1>5. ASSUME NEW t \in Timers PROVE TimerBooks(t)'
    BY <1>1 DEF TimerBooks, T!FlagsOf
  <1> QED BY <1>1, <1>2, <1>3, <1>4, <1>5

(* A timer is added.                                                       *)
LEMMA AddKeeps ==
    ASSUME TimerInv, NEW t \in Timers, NEW r \in Repeats \cup PeriodRepeats,
           T!Add(t, r) \/ T!AddPeriod(t, r)
    PROVE  TimerInv'
  <1> USE DEF TimerInv
  <1>0. r \in {INFINITE} \cup Nat /\ r # 0
    BY TimersAssumption
  <1>1. T!NewTimer(t, r) /\ period' \in {period, period \cup {t}}
    BY DEF T!Add, T!AddPeriod
  <1> USE DEF T!NewTimer
  <1>2. TimerTypes'
    BY <1>0, <1>1 DEF TimerTypes
  <1>3. DispatchBooks' /\ PendingBooks'
    BY <1>1 DEF DispatchBooks, PendingBooks
  <1>4. TimerCount'
    <2>1. t \notin heap /\ heap \in SUBSET Timers
      BY <1>1 DEF TimerTypes, TimerBooks, T!FlagsOf
    <2>2. tpc # "destroyed"
      BY <1>1 DEF T!OwnerActs
    <2> QED BY <1>1, <2>1, <2>2, Counting DEF TimerCount
  <1>5. ASSUME NEW u \in Timers PROVE TimerBooks(u)'
    <2>1. tpc # "destroyed" /\ tpc' = tpc
      BY <1>1 DEF T!OwnerActs
    <2>2. TimerBooks(u)
      OBVIOUS
    <2>3. CASE u = t
      <3>1. TimerBooks(t)
        OBVIOUS
      <3> QED BY <1>0, <1>1, <2>1, <2>3, <3>1 DEF TimerTypes, TimerBooks, T!FlagsOf
    <2>4. CASE u # t
      BY <1>1, <2>1, <2>2, <2>4 DEF TimerTypes, TimerBooks, T!FlagsOf
    <2> QED BY <2>3, <2>4
  <1> QED BY <1>1, <1>2, <1>3, <1>4, <1>5

(* A timer is armed again.                                                 *)
LEMMA ResetKeeps ==
    ASSUME TimerInv, NEW t \in Timers, T!Reset(t)
    PROVE  TimerInv'
  <1> USE DEF TimerInv
  <1> USE DEF T!Reset
  <1>0. tpc # "destroyed" /\ tpc' = tpc
    BY DEF T!OwnerActs
  <1>1. TimerBooks(t) /\ TimerTypes
    OBVIOUS
  <1>2. TimerTypes'
    BY <1>1 DEF TimerTypes
  <1>3. DispatchBooks' /\ PendingBooks'
    BY DEF DispatchBooks, PendingBooks
  <1>4. TimerCount'
    <2>1. t \in heap <=> t \notin destroy
      BY <1>0, <1>1 DEF TimerBooks, T!FlagsOf
    <2>2. heap \in SUBSET Timers
      BY <1>1 DEF TimerTypes
    <2>3. CASE t \in destroy
      BY <1>0, <2>1, <2>2, <2>3, Counting DEF TimerCount
    <2>4. CASE t \notin destroy
      <3>1. heap' = heap /\ ntimers' = ntimers
        BY <2>1, <2>4
      <3> QED BY <1>0, <3>1 DEF TimerCount
    <2> QED BY <2>3, <2>4
  <1>5. ASSUME NEW u \in Timers PROVE TimerBooks(u)'
    <2>1. TimerBooks(u)
      OBVIOUS
    <2>2. CASE u = t
      BY <1>0, <1>1, <2>2 DEF TimerTypes, TimerBooks, T!FlagsOf
    <2>3. CASE u # t
      BY <1>0, <1>1, <2>1, <2>3 DEF TimerTypes, TimerBooks, T!FlagsOf
    <2> QED BY <2>2, <2>3
  <1> QED BY <1>2, <1>3, <1>4, <1>5

(* A timer is deleted by its owner.                                        *)
LEMMA DeleteKeeps ==
    ASSUME TimerInv, NEW t \in Timers, T!Delete(t)
    PROVE  TimerInv'
  <1> USE DEF TimerInv
  <1>0. tpc # "destroyed" /\ tpc' = tpc /\ t \in held
    BY DEF T!Delete, T!OwnerActs
  <1>1. TimerBooks(t) /\ TimerTypes
    OBVIOUS
  <1>2. mem[t] = "live" /\ (t \in quiesced \/ t \in active)
    BY <1>0, <1>1 DEF TimerBooks, T!FlagsOf
  <1>3. /\ UNCHANGED <<normal_admission_open, pendings, pending, pending_reset, period, repeat,
                       tpc, cur, expired>>
        /\ held' = held \ {t}
    BY DEF T!Delete
  <1>4. \/ /\ t \in quiesced /\ quiesced' = quiesced \ {t}
           /\ mem' = [mem EXCEPT ![t] = "freed"] /\ doubleFree' = FALSE
           /\ UNCHANGED <<heap, ntimers, active, destroy>>
        \/ /\ t \notin quiesced /\ t \in active
           /\ T!Unlink(t) /\ active' = active \ {t} /\ UNCHANGED quiesced
           /\ doubleFree' = FALSE
           /\ \/ t \in pending /\ mem' = mem
              \/ t \notin pending /\ mem' = [mem EXCEPT ![t] = "freed"]
    BY <1>2 DEF T!Delete, T!Free, T!KeepStorage
  <1>5. TimerTypes'
    BY <1>1, <1>3, <1>4 DEF TimerTypes, T!Unlink
  <1>6. DispatchBooks' /\ PendingBooks'
    BY <1>3 DEF DispatchBooks, PendingBooks
  <1>7. TimerCount'
    <2>1. t \notin quiesced => (t \in heap <=> t \notin destroy)
      BY <1>0, <1>1, <1>2 DEF TimerBooks
    <2>2. heap \in SUBSET Timers
      BY <1>1 DEF TimerTypes
    <2>3. CASE t \notin quiesced /\ t \notin destroy
      <3>1. heap' = heap \ {t} /\ ntimers' = ntimers - 1
        BY <1>4, <2>3 DEF T!Unlink
      <3>2. Cardinality(heap') \in Nat /\ Cardinality(heap') = Cardinality(heap) - 1
        BY <2>1, <2>2, <2>3, <3>1, Counting
      <3> QED BY <1>0, <3>1, <3>2 DEF TimerCount
    <2>4. CASE t \in quiesced \/ t \in destroy
      <3>1. heap' = heap /\ ntimers' = ntimers
        BY <1>4, <2>1, <2>4 DEF T!Unlink
      <3> QED BY <1>0, <3>1 DEF TimerCount
    <2> QED BY <2>3, <2>4
  <1>8. ASSUME NEW u \in Timers PROVE TimerBooks(u)'
    <2>1. TimerBooks(u)
      OBVIOUS
    <2>2. CASE u = t
      BY <1>0, <1>1, <1>2, <1>3, <1>4, <2>2 DEF TimerTypes, TimerBooks, T!FlagsOf, T!Unlink
    <2>3. CASE u # t
      BY <1>0, <1>1, <1>3, <1>4, <2>1, <2>3 DEF TimerTypes, TimerBooks, T!FlagsOf, T!Unlink
    <2> QED BY <2>2, <2>3
  <1>9. doubleFree' = FALSE
    BY <1>4
  <1> QED BY <1>5, <1>6, <1>7, <1>8, <1>9

(* A due timer joins the pending list.                                     *)
LEMMA ExpireKeeps ==
    ASSUME TimerInv, NEW t \in Timers, T!Expire(t)
    PROVE  TimerInv'
  <1> USE DEF TimerInv
  <1>0. /\ tpc = "timers" /\ tpc' = tpc /\ t \in heap /\ t \notin pending
        /\ UNCHANGED <<normal_admission_open, mem, active, pending_reset, quiesced, period, cur,
                       held, doubleFree>>
        /\ repeat' = [repeat EXCEPT ![t] = IF @ = INFINITE THEN @ ELSE @ - 1]
        /\ pending' = pending \cup {t} /\ expired' = expired \cup {t}
        /\ IF repeat[t] = 1 THEN T!Unlink(t) ELSE UNCHANGED <<heap, ntimers, destroy>>
        /\ pendings' = T!Pend(t)
    BY DEF T!Expire
  <1>1. TimerBooks(t) /\ TimerTypes
    OBVIOUS
  <1>2. t \notin destroy /\ repeat[t] # 0
    BY <1>0, <1>1 DEF TimerBooks, T!FlagsOf
  <1>3. /\ pendings' \in Seq(Timers) /\ pendings' # << >> /\ Len(pendings') = Len(pendings) + 1
        /\ Elements(pendings') = Elements(pendings) \cup {t}
        /\ Once(pendings) /\ t \notin Elements(pendings) => Once(pendings')
    <2> DEFINE n == IF t \in period THEN T!Higher ELSE 0
    <2>1. pendings \in Seq(Timers)
      BY <1>1 DEF TimerTypes
    <2>2. n \in 0 .. Len(pendings)
      <3>1. T!Higher \in 0 .. Len(pendings) /\ 0 \in 0 .. Len(pendings)
        BY <2>1, HigherInList
      <3> QED BY <3>1
    <2>3. pendings' = SubSeq(pendings, 1, n) \o <<t>> \o SubSeq(pendings, n + 1, Len(pendings))
      BY <1>0 DEF T!Pend
    <2> HIDE DEF n
    <2> QED BY <2>1, <2>2, <2>3, JoinList
  <1>4. cur = NoTimer /\ t # NoTimer
    BY <1>0, TimersAssumption DEF DispatchBooks
  <1>5. t \notin Elements(pendings)
    BY <1>0 DEF PendingBooks
  <1>6. TimerTypes'
    <2>1. repeat' \in [Timers -> {INFINITE} \cup Nat]
      BY <1>0, <1>1, <1>2 DEF TimerTypes
    <2>2. heap' \in SUBSET Timers /\ destroy' \in SUBSET Timers
      BY <1>0, <1>1 DEF TimerTypes, T!Unlink
    <2> QED BY <1>0, <1>1, <1>3, <2>1, <2>2 DEF TimerTypes
  <1>7. DispatchBooks'
    BY <1>0, <1>3, <1>4, <1>5, TimersAssumption DEF DispatchBooks
  <1>8. PendingBooks'
    <2>1. pending' = Elements(pendings') \cup ({cur'} \ {NoTimer})
      BY <1>0, <1>3 DEF PendingBooks
    <2>2. Cardinality(pending') = Cardinality(pending) + 1
      BY <1>0, <1>1, Counting DEF TimerTypes
    <2>3. pendings \in Seq(Timers) /\ Len(pendings) \in Nat
      BY <1>1 DEF TimerTypes
    <2> QED BY <1>0, <1>3, <1>4, <2>1, <2>2, <2>3 DEF PendingBooks
  <1>9. TimerCount'
    <2>1. CASE repeat[t] = 1
      <3>1. heap' = heap \ {t} /\ ntimers' = ntimers - 1
        BY <1>0, <1>2, <2>1 DEF T!Unlink
      <3>2. Cardinality(heap') \in Nat /\ Cardinality(heap') = Cardinality(heap) - 1
        BY <1>0, <1>1, <3>1, Counting DEF TimerTypes
      <3> QED BY <1>0, <3>1, <3>2 DEF TimerCount
    <2>2. CASE repeat[t] # 1
      BY <1>0, <2>2 DEF TimerCount
    <2> QED BY <2>1, <2>2
  <1>10. ASSUME NEW u \in Timers PROVE TimerBooks(u)'
    <2>1. TimerBooks(u)
      OBVIOUS
    <2>2. CASE u = t /\ repeat[t] = 1
      <3>1. heap' = heap \ {t} /\ destroy' = destroy \cup {t} /\ t \notin pending_reset
        BY <1>0, <1>1, <2>2 DEF T!Unlink, TimerBooks, T!FlagsOf
      <3> QED BY <1>0, <1>1, <2>2, <3>1 DEF TimerTypes, TimerBooks, T!FlagsOf
    <2>3. CASE u = t /\ repeat[t] # 1
      <3>1. repeat'[t] # 0
        BY <1>0, <1>1, <1>2, <2>3, TimersAssumption DEF TimerTypes
      <3>2. heap' = heap /\ destroy' = destroy
        BY <1>0, <2>3
      <3> QED BY <1>0, <1>1, <1>2, <2>3, <3>1, <3>2 DEF TimerBooks, T!FlagsOf
    <2>4. CASE u # t
      <3>1. /\ u \in heap' <=> u \in heap
            /\ u \in destroy' <=> u \in destroy
            /\ repeat'[u] = repeat[u]
        BY <1>0, <1>1, <2>4 DEF TimerTypes, T!Unlink
      <3> QED BY <1>0, <2>1, <2>4, <3>1 DEF TimerBooks, T!FlagsOf
    <2> QED BY <2>2, <2>3, <2>4
  <1> QED BY <1>0, <1>6, <1>7, <1>8, <1>9, <1>10

(* The dispatch lets go of a timer.  Whoever still owned a finished one    *)
(* forgets it when its callback has run.                                   *)
LEMMA ReleaseKeeps ==
    ASSUME TimerInv, NEW t \in pending, NEW s \in BOOLEAN, T!ReleasePending(t, s),
           UNCHANGED <<normal_admission_open, heap, ntimers, destroy, period, repeat, expired>>,
           tpc # "destroyed", tpc' # "destroyed",
           held' = held \/ (~s /\ t \in destroy /\ held' = held \ {t}),
           ~s /\ t \in destroy => t \notin held'
    PROVE  /\ doubleFree' = FALSE
           /\ TimerCount'
           /\ mem' \in [Timers -> {"none", "live", "freed"}]
           /\ \A x \in {active', pending', pending_reset', quiesced', held'} : x \in SUBSET Timers
           /\ \A u \in Timers : TimerBooks(u)'
  <1> USE DEF TimerInv
  <1>0. t \in Timers /\ TimerTypes
    BY DEF TimerTypes
  <1>1. TimerBooks(t)
    BY <1>0
  <1>2. mem[t] = "live" /\ t \notin quiesced
    BY <1>1 DEF TimerBooks, T!FlagsOf
  <1>3. /\ pending' = pending \ {t} /\ pending_reset' = pending_reset \ {t}
        /\ \/ /\ t \in destroy /\ s /\ active' = active \ {t}
              /\ quiesced' = quiesced \cup {t} /\ mem' = mem /\ doubleFree' = FALSE
           \/ /\ t \in destroy /\ ~s /\ active' = active \ {t} /\ quiesced' = quiesced
              /\ mem' = [mem EXCEPT ![t] = "freed"] /\ doubleFree' = FALSE
           \/ /\ t \notin destroy /\ active' = active /\ quiesced' = quiesced
              /\ mem' = mem /\ doubleFree' = FALSE
    BY <1>2 DEF T!ReleasePending, T!KeepStorage, T!Free
  <1>4. /\ mem' \in [Timers -> {"none", "live", "freed"}]
        /\ \A x \in {active', pending', pending_reset', quiesced', held'} : x \in SUBSET Timers
    BY <1>0, <1>3 DEF TimerTypes
  <1>5. TimerCount'
    BY DEF TimerCount
  <1>6. ASSUME NEW u \in Timers PROVE TimerBooks(u)'
    <2>1. TimerBooks(u)
      OBVIOUS
    <2>2. CASE u = t
      BY <1>0, <1>1, <1>2, <1>3, <2>2 DEF TimerTypes, TimerBooks, T!FlagsOf
    <2>3. CASE u # t
      BY <1>0, <1>3, <2>1, <2>3 DEF TimerTypes, TimerBooks, T!FlagsOf
    <2> QED BY <2>2, <2>3
  <1> QED BY <1>3, <1>4, <1>5, <1>6

(* The first of the pending list is not called.                            *)
LEMMA SkipKeeps ==
    ASSUME TimerInv, T!Suppress \/ T!Skip
    PROVE  TimerInv'
  <1> USE DEF TimerInv
  <1> DEFINE t == Head(pendings)
  <1>0. TimerTypes /\ tpc = "dispatch" /\ pendings # << >> /\ cur = NoTimer
    BY DEF T!Suppress, T!Skip, DispatchBooks
  <1>1. /\ t \in Timers /\ t \in Elements(pendings)
        /\ Tail(pendings) \in Seq(Timers) /\ Len(Tail(pendings)) = Len(pendings) - 1
        /\ Len(pendings) \in Nat
        /\ Elements(pendings) = Elements(Tail(pendings)) \cup {t}
        /\ Once(Tail(pendings)) /\ t \notin Elements(Tail(pendings))
    BY <1>0, LeaveList DEF TimerTypes, DispatchBooks
  <1>2. t \in pending /\ TimerBooks(t)
    BY <1>1 DEF PendingBooks
  <1>3. /\ UNCHANGED <<normal_admission_open, heap, ntimers, destroy, period, repeat, tpc, cur,
                       held, expired>>
        /\ pendings' = Tail(pendings)
    BY DEF T!Suppress, T!Skip, T!Pop, T!ownerVars
  <1>4. PICK s \in BOOLEAN : T!ReleasePending(t, s) /\ (~s => T!Cancelled(t))
    BY DEF T!Suppress, T!Skip
  <1>5. ~s /\ t \in destroy => t \notin held
    BY <1>2, <1>4 DEF T!Cancelled, TimerBooks, T!FlagsOf
  <1> HIDE DEF t
  <1>6. /\ doubleFree' = FALSE /\ TimerCount'
        /\ mem' \in [Timers -> {"none", "live", "freed"}]
        /\ \A x \in {active', pending', pending_reset', quiesced', held'} : x \in SUBSET Timers
        /\ \A u \in Timers : TimerBooks(u)'
    BY <1>0, <1>2, <1>3, <1>4, <1>5, ReleaseKeeps
  <1>7. TimerTypes'
    BY <1>0, <1>1, <1>3, <1>6 DEF TimerTypes
  <1>8. DispatchBooks'
    BY <1>0, <1>1, <1>3 DEF DispatchBooks
  <1>9. PendingBooks'
    <2>1. pending' = pending \ {t}
      BY <1>4 DEF T!ReleasePending
    <2>2. pending' = Elements(pendings') \cup ({cur'} \ {NoTimer})
      BY <1>0, <1>1, <1>3, <2>1 DEF PendingBooks
    <2>3. Cardinality(pending') = Cardinality(pending) - 1
      BY <1>0, <1>1, <1>2, <2>1, Counting DEF TimerTypes
    <2> QED BY <1>0, <1>1, <1>3, <2>2, <2>3 DEF PendingBooks
  <1> QED BY <1>6, <1>7, <1>8, <1>9

(* The first of the pending list is called.                                *)
LEMMA FireKeeps == ASSUME TimerInv, T!Fire PROVE TimerInv'
  <1> USE DEF TimerInv
  <1> DEFINE t == Head(pendings)
  <1>0. /\ TimerTypes /\ tpc = "dispatch" /\ tpc' = "callback" /\ pendings # << >>
        /\ cur = NoTimer /\ cur' = t /\ pendings' = Tail(pendings)
        /\ UNCHANGED <<normal_admission_open, mem, heap, ntimers, active, destroy, pending,
                       pending_reset, quiesced, period, repeat, doubleFree, held, expired>>
    BY DEF T!Fire, T!Go, T!Pop, T!timerVars, T!flagVars, T!ownerVars, DispatchBooks
  <1>1. /\ t \in Timers /\ t \in Elements(pendings)
        /\ Tail(pendings) \in Seq(Timers) /\ Len(Tail(pendings)) = Len(pendings) - 1
        /\ Len(pendings) \in Nat
        /\ Elements(pendings) = Elements(Tail(pendings)) \cup {t}
        /\ Once(Tail(pendings)) /\ t \notin Elements(Tail(pendings))
    BY <1>0, LeaveList DEF TimerTypes, DispatchBooks
  <1> HIDE DEF t
  <1>2. t # NoTimer
    BY <1>1, TimersAssumption
  <1>3. TimerTypes'
    BY <1>0, <1>1 DEF TimerTypes
  <1>4. DispatchBooks'
    BY <1>0, <1>1, <1>2 DEF DispatchBooks
  <1>5. PendingBooks'
    BY <1>0, <1>1, <1>2 DEF PendingBooks
  <1>6. TimerCount'
    BY <1>0 DEF TimerCount
  <1>7. ASSUME NEW u \in Timers PROVE TimerBooks(u)'
    BY <1>0 DEF TimerBooks, T!FlagsOf
  <1> QED BY <1>0, <1>3, <1>4, <1>5, <1>6, <1>7

(* The callback returns.                                                   *)
LEMMA ReturnKeeps == ASSUME TimerInv, T!Return PROVE TimerInv'
  <1> USE DEF TimerInv
  <1>0. /\ TimerTypes /\ tpc = "callback" /\ tpc' = "dispatch" /\ cur # NoTimer
        /\ cur \notin Elements(pendings) /\ cur' = NoTimer
        /\ UNCHANGED <<normal_admission_open, heap, ntimers, destroy, period, repeat, pendings,
                       expired>>
        /\ T!ReleasePending(cur, FALSE)
        /\ held' = IF cur \in destroy THEN held \ {cur} ELSE held
    BY DEF T!Return, T!Go, DispatchBooks
  <1>1. cur \in Timers /\ cur \in pending
    BY <1>0 DEF TimerTypes, PendingBooks
  <1>2. /\ doubleFree' = FALSE /\ TimerCount'
        /\ mem' \in [Timers -> {"none", "live", "freed"}]
        /\ \A x \in {active', pending', pending_reset', quiesced', held'} : x \in SUBSET Timers
        /\ \A u \in Timers : TimerBooks(u)'
    BY <1>0, <1>1, ReleaseKeeps
  <1>3. TimerTypes'
    BY <1>0, <1>2 DEF TimerTypes
  <1>4. DispatchBooks'
    <2>1. NoTimer \notin Elements(pendings)
      BY <1>0, TimersAssumption DEF TimerTypes, Elements
    <2> QED BY <1>0, <2>1 DEF DispatchBooks
  <1>5. PendingBooks'
    <2>1. pending' = pending \ {cur}
      BY <1>0 DEF T!ReleasePending
    <2>2. pending' = Elements(pendings') \cup ({cur'} \ {NoTimer})
      BY <1>0, <2>1 DEF PendingBooks
    <2>3. Cardinality(pending') = Cardinality(pending) - 1
      BY <1>0, <1>1, <2>1, Counting DEF TimerTypes
    <2>4. Len(pendings) \in Nat
      BY <1>0 DEF TimerTypes
    <2> QED BY <1>0, <2>2, <2>3, <2>4 DEF PendingBooks
  <1> QED BY <1>2, <1>3, <1>4, <1>5

(* The end: nothing is pending any more.                                   *)
LEMMA NonePending ==
    ASSUME TimerInv, tpc \in {"unstarted", "stopped", "quiesced"}
    PROVE  pending = {} /\ pendings = << >> /\ cur = NoTimer
  <1>1. pendings = << >> /\ cur = NoTimer
    BY DEF TimerInv, DispatchBooks
  <1>2. Elements(pendings) = {}
    BY <1>1 DEF Elements
  <1> QED BY <1>1, <1>2 DEF TimerInv, PendingBooks

(* Every timer of the heaps is quiesced.                                   *)
LEMMA QuiesceKeeps == ASSUME TimerInv, T!QuiesceTimers PROVE TimerInv'
  <1> USE DEF TimerInv
  <1>0. /\ tpc = "stopped" /\ tpc' = "quiesced" /\ heap' = {}
        /\ ntimers' = ntimers - Cardinality(heap)
        /\ active' = active \ heap /\ quiesced' = quiesced \cup heap
        /\ UNCHANGED <<normal_admission_open, mem, destroy, pending, pending_reset, period,
                       repeat, doubleFree, pendings, cur, held, expired>>
    BY SameCardinality DEF T!QuiesceTimers, T!Go, T!ownerVars
  <1>1. pending = {} /\ pendings = << >> /\ cur = NoTimer
    BY <1>0, NonePending
  <1>2. TimerTypes'
    BY <1>0 DEF TimerTypes
  <1>3. DispatchBooks' /\ PendingBooks'
    BY <1>0, <1>1 DEF DispatchBooks, PendingBooks
  <1>4. TimerCount'
    <2>1. ntimers = Cardinality(heap) /\ ntimers \in Nat
      BY <1>0 DEF TimerCount
    <2>2. ntimers' = 0
      BY <1>0, <2>1
    <2> QED BY <1>0, <2>2, FS_EmptySet DEF TimerCount
  <1>5. ASSUME NEW u \in Timers PROVE TimerBooks(u)'
    <2>1. TimerBooks(u) /\ TimerTypes
      OBVIOUS
    <2> QED BY <1>0, <1>1, <2>1 DEF TimerTypes, TimerBooks, T!FlagsOf
  <1> QED BY <1>0, <1>2, <1>3, <1>4, <1>5

(* The loop is destroyed, with the timers that are left.                   *)
LEMMA DestroyKeeps == ASSUME TimerInv, T!Destroy PROVE TimerInv'
  <1> USE DEF TimerInv
  <1>0. /\ tpc \in {"unstarted", "quiesced"} /\ tpc' = "destroyed"
        /\ mem' = [t \in Timers |-> IF t \in heap \cup quiesced THEN "freed" ELSE mem[t]]
        /\ doubleFree' = (doubleFree \/ \E t \in heap \cup quiesced : mem[t] # "live")
        /\ heap' = {} /\ quiesced' = {} /\ held' = {}
        /\ UNCHANGED <<normal_admission_open, ntimers, active, destroy, pending, pending_reset,
                       period, repeat, pendings, cur, expired>>
    BY DEF T!Destroy
  <1>1. pending = {} /\ pendings = << >> /\ cur = NoTimer
    BY <1>0, NonePending
  <1>2. \A t \in heap \cup quiesced : mem[t] = "live"
    BY DEF TimerTypes, TimerBooks, T!FlagsOf
  <1>3. TimerTypes'
    BY <1>0 DEF TimerTypes
  <1>4. DispatchBooks' /\ PendingBooks' /\ TimerCount'
    BY <1>0, <1>1 DEF DispatchBooks, PendingBooks, TimerCount
  <1>5. ASSUME NEW u \in Timers PROVE TimerBooks(u)'
    <2>1. TimerBooks(u)
      OBVIOUS
    <2>2. mem'[u] = IF u \in heap \cup quiesced THEN "freed" ELSE mem[u]
      BY <1>0
    <2>3. mem'[u] # "live"
      BY <1>0, <1>1, <2>1, <2>2 DEF TimerBooks, T!FlagsOf
    <2> QED BY <1>0, <1>1, <2>1, <2>2, <2>3 DEF TimerTypes, TimerBooks, T!FlagsOf
  <1>6. doubleFree' = FALSE
    BY <1>0, <1>2
  <1> QED BY <1>3, <1>4, <1>5, <1>6

(* Every step of the timers keeps the invariant.                           *)
LEMMA TimerInvStep == TimerInv /\ [T!Next]_(T!vars) => TimerInv'
  <1> SUFFICES ASSUME TimerInv, T!Next \/ UNCHANGED T!vars PROVE TimerInv'
    OBVIOUS
  <1>1. CASE T!Owners
    <2>1. ASSUME NEW t \in T!Unused, NEW r \in Repeats, T!Add(t, r) PROVE TimerInv'
      <3>1. t \in Timers
        BY DEF T!Unused
      <3> QED BY <2>1, <3>1, AddKeeps
    <2>2. ASSUME NEW t \in T!Unused, NEW r \in PeriodRepeats, T!AddPeriod(t, r) PROVE TimerInv'
      <3>1. t \in Timers
        BY DEF T!Unused
      <3> QED BY <2>2, <3>1, AddKeeps
    <2> QED BY <1>1, <2>1, <2>2, ResetKeeps, DeleteKeeps DEF T!Owners
  <1>2. CASE T!Pass
    BY <1>2, MoveKeeps, ExpireKeeps, SkipKeeps, FireKeeps, ReturnKeeps DEF T!Pass
  <1>3. CASE T!Close \/ T!LeaveLoop \/ T!Terminated \/ UNCHANGED T!vars
    BY <1>3, MoveKeeps
  <1>4. CASE T!QuiesceTimers \/ T!Destroy
    BY <1>4, QuiesceKeeps, DestroyKeeps
  <1> QED BY <1>1, <1>2, <1>3, <1>4 DEF T!Next

(* The storage of the loop's timers: whichever of delete, reset, expiry,   *)
(* dispatch, close and quiesce comes first, every list, handle and running *)
(* callback leads to live storage, nothing is freed twice or lost, and     *)
(* ntimers is the size of the heaps.                                       *)
THEOREM TimersKept == LoopSpec => []TimersInv
  <1>1. T!Spec => []TimerInv
    BY TimerInvInit, TimerInvStep, PTL DEF T!Spec
  <1>2. TimerInv => TimersInv
    BY TimerInvMeans
  <1> QED BY <1>1, <1>2, LoopImplementsTimers, PTL

(* The only step that begins a callback is Fire, and its timer is due.     *)
LEMMA FireIsDue ==
    TimerInv /\ [T!Next]_(T!vars) =>
        [tpc' = "callback" /\ tpc # "callback" =>
            normal_admission_open /\ cur' \in held /\ cur' \in expired]_(T!vars)
  <1> SUFFICES ASSUME TimerInv, T!Next, tpc' = "callback", tpc # "callback"
               PROVE  normal_admission_open /\ cur' \in held /\ cur' \in expired
    BY DEF T!vars
  <1>1. T!Fire
    BY DEF T!Next, T!Owners, T!Pass, T!Add, T!AddPeriod, T!NewTimer, T!Reset, T!Delete, T!RunLoop,
           T!ProcessTimers, T!Expire, T!ProcessPendings, T!Suppress, T!Skip, T!Return,
           T!DispatchDone, T!IoBegin, T!IoEnd, T!Close, T!LeaveLoop, T!QuiesceTimers, T!Destroy,
           T!Terminated, T!Go, T!vars
  <1>2. /\ pendings # << >> /\ normal_admission_open /\ cur' = Head(pendings)
        /\ cur' \in active /\ cur' \notin pending_reset
    BY <1>1 DEF T!Fire, T!Cancelled
  <1>3. cur' \in pending /\ cur' \in Timers
    <2>1. Head(pendings) \in Elements(pendings) /\ Head(pendings) \in Timers
      BY <1>2, LeaveList DEF TimerInv, TimerTypes
    <2> QED BY <1>2, <2>1 DEF TimerInv, PendingBooks
  <1>4. TimerBooks(cur')
    BY <1>3 DEF TimerInv
  <1> QED BY <1>2, <1>3, <1>4 DEF TimerBooks, T!FlagsOf

(* A callback runs only on an open loop, for a timer whose owner still     *)
(* has it and that has expired since it was last armed.                    *)
THEOREM FiringIsDue == LoopSpec => FiresOnlyDue
  <1>1. T!Spec => []TimerInv
    BY TimerInvInit, TimerInvStep, PTL DEF T!Spec
  <1> QED BY <1>1, FireIsDue, LoopImplementsTimers, PTL DEF T!Spec, FiresOnlyDue, T!FiresOnlyDue
=============================================================================
