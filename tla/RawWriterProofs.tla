--------------------------- MODULE RawWriterProofs --------------------------
(***************************************************************************)
(* Proofs about RawWriter, for any workers, bring-ups, batches and         *)
(* packets: a worker's packets leave in the order in which it sent them    *)
(* (FifoOrder), and WriterInv.                                             *)
(*                                                                         *)
(* The order of one lane is easy; what it rests on is that no two          *)
(* generations ever hold packets of a worker.  That is the work of the     *)
(* gate, whose count has to be exact for it: Books is inductive.  On it    *)
(* rest the lanes and their drivers, the native calls, the references, the *)
(* producers and the packets, which are inductive together (WriterCore),   *)
(* and with them no step can fail an assertion or touch freed storage.     *)
(***************************************************************************)
EXTENDS RawWriter, FiniteSetTheorems, TLAPS

USE DEF At, Goto, Lane, Touch

(* The types, in parts.                                                    *)
OwnerType ==
    /\ published \in 0 .. MaxGens /\ current \in 0 .. MaxGens
    /\ opened \in 0 .. MaxGens /\ retired \subseteq Gens
    /\ owner \in {"idle", "unpublished", "wait", "discard", "destroy", "gone"}
GenType ==
    /\ mem \in [Gens -> {"none", "live", "freed"}]
    /\ open \in [Gens -> BOOLEAN] /\ failed \in [Gens -> BOOLEAN]
    /\ inside \in [Gens -> Int] /\ references \in [Gens -> Int]
    /\ packets \in [Gens -> Int]
FlagType ==
    /\ scheduled \in [Lanes -> BOOLEAN] /\ cancelled \in [Lanes -> BOOLEAN]
    /\ borrowed \subseteq Lanes
    /\ notifier \in [Lanes -> {"none", "armed", "inside"}]
    /\ leaving \in [Lanes -> Nat]
LaneType ==
    /\ buffers \in [Lanes -> Seq(Packets)] /\ batch \in [Lanes -> Seq(Packets)]
    /\ fate \in [Packets -> {"user", "owned", "written", "dropped"}]
    /\ out \in [Workers -> Seq(Packets)]
MailType ==
    /\ mailbox \in [Workers -> Seq(Gens)] /\ timed \in [Workers -> Seq(Gens)]
    /\ phase \in [Workers -> {"running", "closing"}]
PlaceType ==
    /\ pc \in [Workers -> [at : Places, g : 0 .. MaxGens]]
    /\ sent \in [Workers -> Nat]

(* The type invariant, in six parts that different actions disturb.        *)
LEMMA TypeParts ==
    TypeOK <=> /\ OwnerType /\ GenType /\ FlagType /\ LaneType /\ MailType
               /\ PlaceType
  BY DEF TypeOK, OwnerType, GenType, FlagType, LaneType, MailType, PlaceType

(* The same of the next state.                                             *)
LEMMA TypePartsNext ==
    ASSUME OwnerType', GenType', FlagType', LaneType', MailType', PlaceType'
    PROVE  TypeOK'
  BY DEF TypeOK, OwnerType, GenType, FlagType, LaneType, MailType, PlaceType

(* What the books say of a worker and of a generation.                     *)
LEMMA Facts1 ==
    ASSUME Books
    PROVE  /\ TypeOK /\ OwnerBooks
           /\ OwnerType /\ GenType /\ FlagType /\ LaneType /\ MailType
           /\ PlaceType
           /\ \A w \in Workers : PlaceBooks(w) /\ TokenBooks(w)
           /\ \A g \in Gens, w \in Workers : DriverBooks(g, w)
           /\ \A g \in Gens : GateBooks(g)
  BY TypeParts DEF Books

(* A token joins a queue, or leaves it.                                    *)
LEMMA QueueGrows ==
    ASSUME NEW f \in [Workers -> Seq(Gens)], NEW w \in Workers, NEW g \in Gens
    PROVE  [f EXCEPT ![w] = Append(@, g)] \in [Workers -> Seq(Gens)]
  <1>1. Append(f[w], g) \in Seq(Gens)
    OBVIOUS
  <1> QED
    BY <1>1

(* Taking the first token off a queue.                                     *)
LEMMA QueueShrinks ==
    ASSUME NEW f \in [Workers -> Seq(Gens)], NEW w \in Workers, f[w] # << >>
    PROVE  /\ Head(f[w]) \in Gens
           /\ [f EXCEPT ![w] = Tail(@)] \in [Workers -> Seq(Gens)]
  <1>1. Tail(f[w]) \in Seq(Gens) /\ Head(f[w]) \in Gens
    OBVIOUS
  <1> QED
    BY <1>1

(* Numbered items of the workers, as packets are, are finitely many.       *)
Items(f) == UNION {{w} \X (1 .. f[w]) : w \in Workers}

(* The items that a count per worker stands for are finitely many,         *)
LEMMA ItemsFinite ==
    ASSUME NEW f \in [Workers -> Nat]
    PROVE  IsFiniteSet(Items(f))
  <1> DEFINE of(w) == {w} \X (1 .. f[w])
  <1>1. ASSUME NEW w \in Workers PROVE IsFiniteSet(of(w))
    <2>1. IsFiniteSet({w})
      BY FS_Singleton
    <2>2. IsFiniteSet(1 .. f[w])
      BY FS_Interval
    <2> QED
      BY <2>1, <2>2, FS_Product
  <1>2. IsFiniteSet({of(w) : w \in Workers})
    <2> DEFINE g == [w \in Workers |-> of(w)]
    <2>1. {of(w) : w \in Workers} = Range(g)
      BY DEF Range
    <2>2. g \in Surjection(Workers, Range(g))
      BY DEF Surjection, Range
    <2> HIDE DEF g, of
    <2> QED
      BY <2>1, <2>2, FS_Surjection, RawWriterAssumption
  <1> HIDE DEF of
  <1>3. IsFiniteSet(UNION {of(w) : w \in Workers})
    BY <1>1, <1>2, FS_UNION
  <1> QED
    BY <1>3 DEF of, Items

(* and one count more is one item more.                                    *)
LEMMA OneItemMore ==
    ASSUME NEW f \in [Workers -> Nat], NEW e \in [Workers -> Nat],
           NEW w \in Workers, e[w] = f[w] + 1,
           \A v \in Workers : v # w => e[v] = f[v]
    PROVE  /\ <<w, e[w]>> \notin Items(f)
           /\ Items(e) = Items(f) \cup {<<w, e[w]>>}
  <1>1. <<w, e[w]>> \notin Items(f)
    <2>1. e[w] \notin 1 .. f[w]
      OBVIOUS
    <2> QED
      BY <2>1 DEF Items
  <1>2. ASSUME NEW v \in Workers, NEW n \in 1 .. f[v] PROVE <<v, n>> \in Items(e)
    <2>1. n \in 1 .. e[v]
      BY <1>2
    <2> QED
      BY <2>1 DEF Items
  <1>3. <<w, e[w]>> \in Items(e)
    <2>1. e[w] \in 1 .. e[w]
      OBVIOUS
    <2> QED
      BY <2>1 DEF Items
  <1>4. ASSUME NEW v \in Workers, NEW n \in 1 .. e[v], <<v, n>> # <<w, e[w]>>
        PROVE  <<v, n>> \in Items(f)
    <2>1. n \in 1 .. f[v]
      BY <1>4
    <2> QED
      BY <2>1 DEF Items
  <1>5. ASSUME NEW x \in Items(f) PROVE x \in Items(e)
    <2>1. PICK v \in Workers : x \in {v} \X (1 .. f[v])
      BY <1>5 DEF Items
    <2>2. PICK n \in 1 .. f[v] : x = <<v, n>>
      BY <2>1
    <2> QED
      BY <1>2, <2>2
  <1>6. ASSUME NEW x \in Items(e), x # <<w, e[w]>> PROVE x \in Items(f)
    <2>1. PICK v \in Workers : x \in {v} \X (1 .. e[v])
      BY <1>6 DEF Items
    <2>2. PICK n \in 1 .. e[v] : x = <<v, n>>
      BY <2>1
    <2> QED
      BY <1>4, <1>6, <2>2
  <1> QED
    BY <1>1, <1>3, <1>5, <1>6

(* There are finitely many packets.                                        *)
LEMMA PacketsFinite == IsFiniteSet(Packets)
  <1> DEFINE f == [w \in Workers |-> Sends[w]]
  <1>1. f \in [Workers -> Nat]
    BY RawWriterAssumption
  <1>2. Packets = Items(f)
    BY DEF Packets, Items
  <1> HIDE DEF f
  <1> QED
    BY <1>1, <1>2, ItemsFinite

(* A worker that is not idle is at a lane of a generation.                 *)
LEMMA InGens ==
    ASSUME Books, NEW w \in Workers, ~At(w, "idle")
    PROVE  pc[w].g \in Gens /\ Lane(w) \in Lanes
  BY RawWriterAssumption, Facts1 DEF PlaceBooks, PlaceType, Gens, Lanes

(* Where a write leads.                                                    *)
LEMMA WriteGoesOn ==
    ASSUME Books, NEW w \in Workers, NEW n \in 0 .. BatchMax,
           NEW status \in {"continue", "blocked", "failed"},
           Write(w, n, status)
    PROVE  /\ pc'[w].at \in {"leaveFailed", "leaveDrain", "retry", "again"}
           /\ pc'[w].at \in {"again", "retry"} =>
                 ~(status = "blocked" /\ delay = 0)
  <1> DEFINE b == batch[Lane(w)]
             more == n < Len(b) \/ buffers[Lane(w)] # << >>
             a == CASE status = "failed" /\ ~failed[pc[w].g] -> "leaveFailed"
                    [] status = "failed" /\ failed[pc[w].g] -> "leaveDrain"
                    [] /\ status # "failed" /\ more
                       /\ ~(status = "blocked" /\ delay = 0) ->
                          IF status = "blocked" THEN "retry" ELSE "again"
                    [] OTHER -> "leaveDrain"
  <1>1. pc' = [pc EXCEPT ![w].at = a]
    BY DEF Write
  <1> HIDE DEF more
  <1>2. /\ a \in {"leaveFailed", "leaveDrain", "retry", "again"}
        /\ a \in {"again", "retry"} => ~(status = "blocked" /\ delay = 0)
    <2>1. CASE status = "failed" /\ ~failed[pc[w].g]
      BY <2>1
    <2>2. CASE status = "failed" /\ failed[pc[w].g]
      BY <2>2
    <2>3. CASE /\ status # "failed" /\ more
               /\ ~(status = "blocked" /\ delay = 0)
      BY <2>3
    <2>4. CASE ~(/\ status # "failed" /\ more
                 /\ ~(status = "blocked" /\ delay = 0)) /\ status # "failed"
      BY <2>4
    <2> QED
      BY <2>1, <2>2, <2>3, <2>4
  <1> HIDE DEF a
  <1> QED
    BY <1>1, <1>2, Facts1 DEF PlaceType

(* Types are kept.                                                         *)
LEMMA OwnerTypeKept ==
    ASSUME Books, Next, ~Over
    PROVE  OwnerType'
  <1>0. OwnerType /\ OwnerBooks
    BY Facts1
  <1>1. ASSUME NEW w \in Workers, SelectGeneration(w) PROVE OwnerType'
    BY <1>0, RawWriterAssumption, <1>1
       DEF SelectGeneration, OwnerType, writerVars
  <1>2. ASSUME NEW w \in Workers, EnterToSend(w) PROVE OwnerType'
    BY <1>0, RawWriterAssumption, <1>2 DEF EnterToSend, OwnerType, writerVars
  <1>3. ASSUME NEW w \in Workers, CheckLane(w) PROVE OwnerType'
    BY <1>0, RawWriterAssumption, <1>3 DEF CheckLane, OwnerType, writerVars
  <1>4. ASSUME NEW w \in Workers, Reserve(w) PROVE OwnerType'
    BY <1>0, RawWriterAssumption, <1>4 DEF Reserve, OwnerType, writerVars
  <1>5. ASSUME NEW w \in Workers, ScheduleSend(w) PROVE OwnerType'
    BY <1>0, RawWriterAssumption, <1>5
       DEF ScheduleSend, Accept, Refuse, OwnerType, writerVars
  <1>6. ASSUME NEW w \in Workers, UndoSend(w) PROVE OwnerType'
    BY <1>0, RawWriterAssumption, <1>6 DEF UndoSend, OwnerType, writerVars
  <1>7. ASSUME NEW w \in Workers, Leave(w) PROVE OwnerType'
    BY <1>0, RawWriterAssumption, <1>7 DEF Leave, OwnerType, writerVars
  <1>8. ASSUME NEW w \in Workers, Expire(w) PROVE OwnerType'
    BY <1>0, RawWriterAssumption, <1>8 DEF Expire, OwnerType, writerVars
  <1>9. ASSUME NEW w \in Workers, BeginDrain(w) PROVE OwnerType'
    BY <1>0, RawWriterAssumption, <1>9 DEF BeginDrain, OwnerType, writerVars
  <1>10. ASSUME NEW w \in Workers, PrepareDrain(w) PROVE OwnerType'
    BY <1>0, RawWriterAssumption, <1>10
       DEF PrepareDrain, FillBatch, OwnerType, writerVars
  <1>11. ASSUME NEW w \in Workers, NEW n \in 0 .. BatchMax,
                NEW status \in {"continue", "blocked", "failed"},
                Write(w, n, status)
         PROVE  OwnerType'
    BY <1>0, RawWriterAssumption, <1>11 DEF Write, OwnerType, writerVars
  <1>12. ASSUME NEW w \in Workers, ScheduleDrain(w) PROVE OwnerType'
    BY <1>0, RawWriterAssumption, <1>12
       DEF ScheduleDrain, Accept, Refuse, OwnerType, writerVars
  <1>13. ASSUME NEW w \in Workers, FailDrain(w) PROVE OwnerType'
    BY <1>0, RawWriterAssumption, <1>13 DEF FailDrain, OwnerType, writerVars
  <1>14. ASSUME NEW w \in Workers, EndDrain(w) PROVE OwnerType'
    BY <1>0, RawWriterAssumption, <1>14
       DEF EndDrain, Unref, OwnerType, writerVars
  <1>15. ASSUME NEW w \in Workers, CloseMailbox(w) PROVE OwnerType'
    BY <1>0, RawWriterAssumption, <1>15
       DEF CloseMailbox, OwnerType, writerVars
  <1>16. ASSUME NEW w \in Workers, CancelToken(w) PROVE OwnerType'
    BY <1>0, RawWriterAssumption, <1>16
       DEF CancelToken, Unref, OwnerType, writerVars
  <1>17. ASSUME NEW l \in Lanes, EnterToNotify(l) PROVE OwnerType'
    BY <1>0, RawWriterAssumption, <1>17
       DEF EnterToNotify, OwnerType, writerVars
  <1>18. ASSUME NEW l \in Lanes, PostNotification(l) PROVE OwnerType'
    BY <1>0, RawWriterAssumption, <1>18
       DEF PostNotification, Accept, Refuse, OwnerType, writerVars
  <1>19. ASSUME NEW l \in Lanes, LeaveNotify(l) PROVE OwnerType'
    BY <1>0, RawWriterAssumption, <1>19 DEF LeaveNotify, OwnerType, writerVars
  <1>20. ASSUME Open PROVE OwnerType'
    BY <1>0, RawWriterAssumption, <1>20 DEF Open, OwnerType, writerVars, Gens
  <1>21. ASSUME Unpublish PROVE OwnerType'
    BY <1>0, RawWriterAssumption, <1>21 DEF Unpublish, OwnerType, writerVars
  <1>22. ASSUME CloseGate PROVE OwnerType'
    BY <1>0, RawWriterAssumption, <1>22 DEF CloseGate, OwnerType, writerVars
  <1>23. ASSUME StopNative PROVE OwnerType'
    BY <1>0, RawWriterAssumption, <1>23 DEF StopNative, OwnerType, writerVars
  <1>24. ASSUME Discard PROVE OwnerType'
    BY <1>0, RawWriterAssumption, <1>24
       DEF Discard, OwnerType, writerVars, Gens, OwnerBooks
  <1>25. ASSUME BeginDestroy PROVE OwnerType'
    BY <1>0, RawWriterAssumption, <1>25
       DEF BeginDestroy, OwnerType, writerVars
  <1>26. ASSUME NEW g \in Gens, DestroyOne(g) PROVE OwnerType'
    BY <1>0, RawWriterAssumption, <1>26
       DEF DestroyOne, Unref, OwnerType, writerVars
  <1> QED
    BY <1>1, <1>2, <1>3, <1>4, <1>5, <1>6, <1>7, <1>8, <1>9, <1>10, <1>11,
       <1>12, <1>13, <1>14, <1>15, <1>16, <1>17, <1>18, <1>19, <1>20, <1>21,
       <1>22, <1>23, <1>24, <1>25, <1>26
       DEF Next, SendStep, DrainStep, NotifyStep, CloseStep, DestroyStep

(* The counters and the storage of the generations keep their type.        *)
LEMMA GenTypeKept ==
    ASSUME Books, Next, ~Over
    PROVE  GenType'
  <1>0. GenType /\ OwnerType /\ OwnerBooks /\ MailType /\ LaneType
    BY Facts1
  <1>1. ASSUME NEW w \in Workers, SelectGeneration(w) PROVE GenType'
    BY <1>0, <1>1 DEF SelectGeneration, GenType, genVars
  <1>2. ASSUME NEW w \in Workers, EnterToSend(w) PROVE GenType'
    BY <1>0, <1>2 DEF EnterToSend, GenType, genVars
  <1>3. ASSUME NEW w \in Workers, CheckLane(w) PROVE GenType'
    BY <1>0, <1>3 DEF CheckLane, GenType, genVars
  <1>4. ASSUME NEW w \in Workers, Reserve(w) PROVE GenType'
    BY <1>0, <1>4 DEF Reserve, GenType, genVars
  <1>5. ASSUME NEW w \in Workers, ScheduleSend(w) PROVE GenType'
    BY <1>0, <1>5 DEF ScheduleSend, Accept, Refuse, GenType, genVars
  <1>6. ASSUME NEW w \in Workers, UndoSend(w) PROVE GenType'
    <2>1. pc[w].g \in Gens
      BY <1>6, InGens DEF UndoSend
    <2>2. packets' = [packets EXCEPT ![pc[w].g] = packets[pc[w].g] - 1]
      BY <1>6 DEF UndoSend
    <2>3. packets[pc[w].g] - 1 \in Int
      BY <1>0, <2>1 DEF GenType
    <2>4. packets' \in [Gens -> Int]
      BY <1>0, <2>2, <2>3 DEF GenType
    <2>5. mem' \in [Gens -> {"none", "live", "freed"}]
      BY <1>0, <1>6 DEF UndoSend, GenType, genVars
    <2>6. open' \in [Gens -> BOOLEAN]
      BY <1>0, <1>6 DEF UndoSend, GenType, genVars
    <2>7. failed' \in [Gens -> BOOLEAN]
      BY <1>0, <1>6 DEF UndoSend, GenType, genVars
    <2>8. inside' \in [Gens -> Int]
      BY <1>0, <1>6 DEF UndoSend, GenType, genVars
    <2>9. references' \in [Gens -> Int]
      BY <1>0, <1>6 DEF UndoSend, GenType, genVars
    <2> QED
      BY <2>4, <2>5, <2>6, <2>7, <2>8, <2>9 DEF GenType
  <1>7. ASSUME NEW w \in Workers, Leave(w) PROVE GenType'
    <2>1. pc[w].g \in Gens
      BY <1>7, InGens DEF Leave
    <2>2. inside' = [inside EXCEPT ![pc[w].g] = inside[pc[w].g] - 1]
      BY <1>7 DEF Leave
    <2>3. inside[pc[w].g] - 1 \in Int
      BY <1>0, <2>1 DEF GenType
    <2>4. inside' \in [Gens -> Int]
      BY <1>0, <2>2, <2>3 DEF GenType
    <2>5. mem' \in [Gens -> {"none", "live", "freed"}]
      BY <1>0, <1>7 DEF Leave, GenType, genVars
    <2>6. open' \in [Gens -> BOOLEAN]
      BY <1>0, <1>7 DEF Leave, GenType, genVars
    <2>7. failed' \in [Gens -> BOOLEAN]
      BY <1>0, <1>7 DEF Leave, GenType, genVars
    <2>8. references' \in [Gens -> Int]
      BY <1>0, <1>7 DEF Leave, GenType, genVars
    <2>9. packets' \in [Gens -> Int]
      BY <1>0, <1>7 DEF Leave, GenType, genVars
    <2> QED
      BY <2>4, <2>5, <2>6, <2>7, <2>8, <2>9 DEF GenType
  <1>8. ASSUME NEW w \in Workers, Expire(w) PROVE GenType'
    BY <1>0, <1>8 DEF Expire, GenType, genVars
  <1>9. ASSUME NEW w \in Workers, BeginDrain(w) PROVE GenType'
    <2>1. Head(mailbox[w]) \in Gens
      BY <1>0, <1>9 DEF BeginDrain, MailType
    <2>2. \/ inside' = inside
          \/ inside' = [inside EXCEPT ![Head(mailbox[w])] = inside[Head(mailbox[w])] + 1]
      BY <1>0, <1>9 DEF BeginDrain, GenType
    <2>3. inside[Head(mailbox[w])] + 1 \in Int
      BY <1>0, <2>1 DEF GenType
    <2>4. inside' \in [Gens -> Int]
      BY <1>0, <2>2, <2>3 DEF GenType
    <2>5. mem' \in [Gens -> {"none", "live", "freed"}]
      BY <1>0, <1>9 DEF BeginDrain, GenType, genVars
    <2>6. open' \in [Gens -> BOOLEAN]
      BY <1>0, <1>9 DEF BeginDrain, GenType, genVars
    <2>7. failed' \in [Gens -> BOOLEAN]
      BY <1>0, <1>9 DEF BeginDrain, GenType, genVars
    <2>8. references' \in [Gens -> Int]
      BY <1>0, <1>9 DEF BeginDrain, GenType, genVars
    <2>9. packets' \in [Gens -> Int]
      BY <1>0, <1>9 DEF BeginDrain, GenType, genVars
    <2> QED
      BY <2>4, <2>5, <2>6, <2>7, <2>8, <2>9 DEF GenType
  <1>10. ASSUME NEW w \in Workers, PrepareDrain(w) PROVE GenType'
    BY <1>0, <1>10 DEF PrepareDrain, FillBatch, GenType, genVars
  <1>11. ASSUME NEW w \in Workers, NEW n \in 0 .. BatchMax,
                NEW status \in {"continue", "blocked", "failed"},
                Write(w, n, status)
         PROVE  GenType'
    <2>1. pc[w].g \in Gens
      BY <1>11, InGens DEF Write
    <2>2. packets' = [packets EXCEPT ![pc[w].g] = packets[pc[w].g] - n]
      BY <1>11 DEF Write
    <2>3. packets[pc[w].g] - n \in Int
      BY <1>0, <2>1 DEF GenType
    <2>4. packets' \in [Gens -> Int]
      BY <1>0, <2>2, <2>3 DEF GenType
    <2>5. mem' \in [Gens -> {"none", "live", "freed"}]
      BY <1>0, <1>11 DEF Write, GenType, genVars
    <2>6. open' \in [Gens -> BOOLEAN]
      BY <1>0, <1>11 DEF Write, GenType, genVars
    <2>7. failed' \in [Gens -> BOOLEAN]
      BY <1>0, <1>11 DEF Write, GenType, genVars
    <2>8. inside' \in [Gens -> Int]
      BY <1>0, <1>11 DEF Write, GenType, genVars
    <2>9. references' \in [Gens -> Int]
      BY <1>0, <1>11 DEF Write, GenType, genVars
    <2> QED
      BY <2>4, <2>5, <2>6, <2>7, <2>8, <2>9 DEF GenType
  <1>12. ASSUME NEW w \in Workers, ScheduleDrain(w) PROVE GenType'
    BY <1>0, <1>12 DEF ScheduleDrain, Accept, Refuse, GenType, genVars
  <1>13. ASSUME NEW w \in Workers, FailDrain(w) PROVE GenType'
    <2>1. pc[w].g \in Gens
      BY <1>13, InGens DEF FailDrain
    <2>2. inside' = [inside EXCEPT ![pc[w].g] = inside[pc[w].g] - 1]
      BY <1>13 DEF FailDrain
    <2>3. inside[pc[w].g] - 1 \in Int
      BY <1>0, <2>1 DEF GenType
    <2>4. inside' \in [Gens -> Int]
      BY <1>0, <2>2, <2>3 DEF GenType
    <2>5. mem' \in [Gens -> {"none", "live", "freed"}]
      BY <1>0, <1>13 DEF FailDrain, GenType, genVars
    <2>6. open' \in [Gens -> BOOLEAN]
      BY <1>0, <1>13 DEF FailDrain, GenType, genVars
    <2>7. failed' \in [Gens -> BOOLEAN]
      BY <1>0, <1>13 DEF FailDrain, GenType, genVars
    <2>8. references' \in [Gens -> Int]
      BY <1>0, <1>13 DEF FailDrain, GenType, genVars
    <2>9. packets' \in [Gens -> Int]
      BY <1>0, <1>13 DEF FailDrain, GenType, genVars
    <2> QED
      BY <2>4, <2>5, <2>6, <2>7, <2>8, <2>9 DEF GenType
  <1>14. ASSUME NEW w \in Workers, EndDrain(w) PROVE GenType'
    <2>1. pc[w].g \in Gens
      BY <1>14, InGens DEF EndDrain
    <2>2. references' =
             [references EXCEPT ![pc[w].g] =
                references[pc[w].g] - 1]
      BY <1>14 DEF EndDrain, Unref
    <2>3. references[pc[w].g] - 1 \in Int
      BY <1>0, <2>1 DEF GenType
    <2>4. references' \in [Gens -> Int]
      BY <1>0, <2>2, <2>3 DEF GenType
    <2>5. mem' \in [Gens -> {"none", "live", "freed"}]
      BY <1>0, <1>14 DEF EndDrain, Unref, GenType, genVars
    <2>6. open' \in [Gens -> BOOLEAN]
      BY <1>0, <1>14 DEF EndDrain, Unref, GenType, genVars
    <2>7. failed' \in [Gens -> BOOLEAN]
      BY <1>0, <1>14 DEF EndDrain, Unref, GenType, genVars
    <2>8. inside' \in [Gens -> Int]
      BY <1>0, <1>14 DEF EndDrain, Unref, GenType, genVars
    <2>9. packets' \in [Gens -> Int]
      BY <1>0, <1>14 DEF EndDrain, Unref, GenType, genVars
    <2> QED
      BY <2>4, <2>5, <2>6, <2>7, <2>8, <2>9 DEF GenType
  <1>15. ASSUME NEW w \in Workers, CloseMailbox(w) PROVE GenType'
    BY <1>0, <1>15 DEF CloseMailbox, GenType, genVars
  <1>16. ASSUME NEW w \in Workers, CancelToken(w) PROVE GenType'
    BY <1>0, <1>16 DEF CancelToken, Unref, GenType, genVars
  <1>17. ASSUME NEW l \in Lanes, EnterToNotify(l) PROVE GenType'
    <2>1. l[1] \in Gens
      BY DEF Lanes
    <2>2. \/ inside' = inside
          \/ inside' = [inside EXCEPT ![l[1]] = inside[l[1]] + 1]
      BY <1>0, <1>17 DEF EnterToNotify, GenType
    <2>3. inside[l[1]] + 1 \in Int
      BY <1>0, <2>1 DEF GenType
    <2>4. inside' \in [Gens -> Int]
      BY <1>0, <2>2, <2>3 DEF GenType
    <2>5. mem' \in [Gens -> {"none", "live", "freed"}]
      BY <1>0, <1>17 DEF EnterToNotify, GenType, genVars
    <2>6. open' \in [Gens -> BOOLEAN]
      BY <1>0, <1>17 DEF EnterToNotify, GenType, genVars
    <2>7. failed' \in [Gens -> BOOLEAN]
      BY <1>0, <1>17 DEF EnterToNotify, GenType, genVars
    <2>8. references' \in [Gens -> Int]
      BY <1>0, <1>17 DEF EnterToNotify, GenType, genVars
    <2>9. packets' \in [Gens -> Int]
      BY <1>0, <1>17 DEF EnterToNotify, GenType, genVars
    <2> QED
      BY <2>4, <2>5, <2>6, <2>7, <2>8, <2>9 DEF GenType
  <1>18. ASSUME NEW l \in Lanes, PostNotification(l) PROVE GenType'
    BY <1>0, <1>18 DEF PostNotification, Accept, Refuse, GenType, genVars
  <1>19. ASSUME NEW l \in Lanes, LeaveNotify(l) PROVE GenType'
    <2>1. l[1] \in Gens
      BY DEF Lanes
    <2>2. inside' = [inside EXCEPT ![l[1]] = inside[l[1]] - 1]
      BY <1>19 DEF LeaveNotify
    <2>3. inside[l[1]] - 1 \in Int
      BY <1>0, <2>1 DEF GenType
    <2>4. inside' \in [Gens -> Int]
      BY <1>0, <2>2, <2>3 DEF GenType
    <2>5. mem' \in [Gens -> {"none", "live", "freed"}]
      BY <1>0, <1>19 DEF LeaveNotify, GenType, genVars
    <2>6. open' \in [Gens -> BOOLEAN]
      BY <1>0, <1>19 DEF LeaveNotify, GenType, genVars
    <2>7. failed' \in [Gens -> BOOLEAN]
      BY <1>0, <1>19 DEF LeaveNotify, GenType, genVars
    <2>8. references' \in [Gens -> Int]
      BY <1>0, <1>19 DEF LeaveNotify, GenType, genVars
    <2>9. packets' \in [Gens -> Int]
      BY <1>0, <1>19 DEF LeaveNotify, GenType, genVars
    <2> QED
      BY <2>4, <2>5, <2>6, <2>7, <2>8, <2>9 DEF GenType
  <1>20. ASSUME Open PROVE GenType'
    <2>1. opened + 1 \in Gens
      BY <1>0, <1>20, RawWriterAssumption DEF Open, OwnerType, Gens
    <2>2. references' = [references EXCEPT ![opened + 1] = 1]
      BY <1>20 DEF Open
    <2>3. 1 \in Int
      BY <1>0, <2>1 DEF GenType
    <2>4. references' \in [Gens -> Int]
      BY <1>0, <2>2, <2>3 DEF GenType
    <2>5. mem' \in [Gens -> {"none", "live", "freed"}]
      BY <1>0, <1>20 DEF Open, GenType, genVars
    <2>6. open' \in [Gens -> BOOLEAN]
      BY <1>0, <1>20 DEF Open, GenType, genVars
    <2>7. failed' \in [Gens -> BOOLEAN]
      BY <1>0, <1>20 DEF Open, GenType, genVars
    <2>8. inside' \in [Gens -> Int]
      BY <1>0, <1>20 DEF Open, GenType, genVars
    <2>9. packets' \in [Gens -> Int]
      BY <1>0, <1>20 DEF Open, GenType, genVars
    <2> QED
      BY <2>4, <2>5, <2>6, <2>7, <2>8, <2>9 DEF GenType
  <1>21. ASSUME Unpublish PROVE GenType'
    BY <1>0, <1>21 DEF Unpublish, GenType, genVars
  <1>22. ASSUME CloseGate PROVE GenType'
    BY <1>0, <1>22 DEF CloseGate, GenType, genVars
  <1>23. ASSUME StopNative PROVE GenType'
    BY <1>0, <1>23 DEF StopNative, GenType, genVars
  <1>24. ASSUME Discard PROVE GenType'
    <2> DEFINE held == UNION {Range(batch[l]) \cup Range(buffers[l]) :
                                 l \in CurrentLanes}
    <2>1. current \in Gens
      BY <1>0, <1>24, RawWriterAssumption
         DEF Discard, OwnerBooks, OwnerType, Gens
    <2>2. packets' = [packets EXCEPT ![current] = @ - Cardinality(held)]
      BY <1>24 DEF Discard
    <2>3. \A l \in CurrentLanes :
             Range(batch[l]) \subseteq Packets /\ Range(buffers[l]) \subseteq Packets
      BY <1>0, <2>1 DEF LaneType, CurrentLanes, Lanes, Range
    <2>4. held \subseteq Packets
      BY <2>3
    <2>5. Cardinality(held) \in Int
      BY <2>4, PacketsFinite, FS_Subset, FS_CardinalityType
    <2> HIDE DEF held
    <2>6. packets' \in [Gens -> Int]
      BY <1>0, <2>1, <2>2, <2>5 DEF GenType
    <2>7. UNCHANGED <<mem, open, inside, references, failed>>
      BY <1>24 DEF Discard
    <2> QED
      BY <1>0, <2>6, <2>7 DEF GenType
  <1>25. ASSUME BeginDestroy PROVE GenType'
    BY <1>0, <1>25 DEF BeginDestroy, GenType, genVars
  <1>26. ASSUME NEW g \in Gens, DestroyOne(g) PROVE GenType'
    BY <1>0, <1>26 DEF DestroyOne, Unref, GenType, genVars
  <1> QED
    BY <1>1, <1>2, <1>3, <1>4, <1>5, <1>6, <1>7, <1>8, <1>9, <1>10, <1>11,
       <1>12, <1>13, <1>14, <1>15, <1>16, <1>17, <1>18, <1>19, <1>20, <1>21,
       <1>22, <1>23, <1>24, <1>25, <1>26
       DEF Next, SendStep, DrainStep, NotifyStep, CloseStep, DestroyStep

(* So do the flags of the lanes,                                           *)
LEMMA FlagTypeKept ==
    ASSUME Books, Next, ~Over
    PROVE  FlagType'
  <1>0. FlagType
    BY Facts1
  <1>1. ASSUME NEW w \in Workers, SelectGeneration(w) PROVE FlagType'
    BY <1>0, <1>1 DEF SelectGeneration, FlagType, laneVars, native
  <1>2. ASSUME NEW w \in Workers, EnterToSend(w) PROVE FlagType'
    BY <1>0, <1>2 DEF EnterToSend, FlagType, laneVars, native
  <1>3. ASSUME NEW w \in Workers, CheckLane(w) PROVE FlagType'
    BY <1>0, <1>3 DEF CheckLane, FlagType, laneVars, native
  <1>4. ASSUME NEW w \in Workers, Reserve(w) PROVE FlagType'
    BY <1>0, <1>4 DEF Reserve, FlagType, laneVars, native
  <1>5. ASSUME NEW w \in Workers, ScheduleSend(w) PROVE FlagType'
    BY <1>0, <1>5 DEF ScheduleSend, Accept, Refuse, FlagType, laneVars, native
  <1>6. ASSUME NEW w \in Workers, UndoSend(w) PROVE FlagType'
    BY <1>0, <1>6 DEF UndoSend, FlagType, laneVars, native
  <1>7. ASSUME NEW w \in Workers, Leave(w) PROVE FlagType'
    BY <1>0, <1>7 DEF Leave, FlagType, laneVars, native
  <1>8. ASSUME NEW w \in Workers, Expire(w) PROVE FlagType'
    BY <1>0, <1>8 DEF Expire, FlagType, laneVars, native
  <1>9. ASSUME NEW w \in Workers, BeginDrain(w) PROVE FlagType'
    BY <1>0, <1>9 DEF BeginDrain, FlagType, laneVars, native
  <1>10. ASSUME NEW w \in Workers, PrepareDrain(w) PROVE FlagType'
    BY <1>0, <1>10 DEF PrepareDrain, FillBatch, FlagType, laneVars, native
  <1>11. ASSUME NEW w \in Workers, NEW n \in 0 .. BatchMax,
                NEW status \in {"continue", "blocked", "failed"},
                Write(w, n, status)
         PROVE  FlagType'
    BY <1>0, <1>11, InGens DEF Write, FlagType, laneVars, native
  <1>12. ASSUME NEW w \in Workers, ScheduleDrain(w) PROVE FlagType'
    BY <1>0, <1>12
       DEF ScheduleDrain, Accept, Refuse, FlagType, laneVars, native
  <1>13. ASSUME NEW w \in Workers, FailDrain(w) PROVE FlagType'
    BY <1>0, <1>13 DEF FailDrain, FlagType, laneVars, native
  <1>14. ASSUME NEW w \in Workers, EndDrain(w) PROVE FlagType'
    BY <1>0, <1>14 DEF EndDrain, Unref, FlagType, laneVars, native
  <1>15. ASSUME NEW w \in Workers, CloseMailbox(w) PROVE FlagType'
    BY <1>0, <1>15 DEF CloseMailbox, FlagType, laneVars, native
  <1>16. ASSUME NEW w \in Workers, CancelToken(w) PROVE FlagType'
    BY <1>0, <1>16 DEF CancelToken, Unref, FlagType, laneVars, native
  <1>17. ASSUME NEW l \in Lanes, EnterToNotify(l) PROVE FlagType'
    BY <1>0, <1>17 DEF EnterToNotify, FlagType, laneVars, native
  <1>18. ASSUME NEW l \in Lanes, PostNotification(l) PROVE FlagType'
    <2>1. scheduled' = scheduled /\ borrowed' = borrowed
      BY <1>0, <1>18 DEF PostNotification, Accept, Refuse, laneVars, native
    <2>2. cancelled' \in [Lanes -> BOOLEAN]
      BY <1>0, <1>18 DEF PostNotification, Accept, Refuse, FlagType, Lanes
    <2>3. notifier' = [notifier EXCEPT ![l] = "none"]
      BY <1>0, <1>18 DEF PostNotification, Accept, Refuse
    <2>4. leaving' = [leaving EXCEPT ![l] = @ + 1]
      BY <1>0, <1>18 DEF PostNotification, Accept, Refuse
    <2> QED
      BY <2>1, <2>2, <2>3, <2>4, <1>0 DEF FlagType
  <1>19. ASSUME NEW l \in Lanes, LeaveNotify(l) PROVE FlagType'
    BY <1>0, <1>19 DEF LeaveNotify, FlagType, laneVars, native
  <1>20. ASSUME Open PROVE FlagType'
    BY <1>0, <1>20 DEF Open, FlagType, laneVars, native
  <1>21. ASSUME Unpublish PROVE FlagType'
    BY <1>0, <1>21 DEF Unpublish, FlagType, laneVars, native
  <1>22. ASSUME CloseGate PROVE FlagType'
    BY <1>0, <1>22 DEF CloseGate, FlagType, laneVars, native
  <1>23. ASSUME StopNative PROVE FlagType'
    BY <1>0, <1>23 DEF StopNative, FlagType, laneVars, native
  <1>24. ASSUME Discard PROVE FlagType'
    BY <1>0, <1>24 DEF Discard, FlagType, laneVars, native
  <1>25. ASSUME BeginDestroy PROVE FlagType'
    BY <1>0, <1>25 DEF BeginDestroy, FlagType, laneVars, native
  <1>26. ASSUME NEW g \in Gens, DestroyOne(g) PROVE FlagType'
    BY <1>0, <1>26 DEF DestroyOne, Unref, FlagType, laneVars, native
  <1> QED
    BY <1>1, <1>2, <1>3, <1>4, <1>5, <1>6, <1>7, <1>8, <1>9, <1>10, <1>11,
       <1>12, <1>13, <1>14, <1>15, <1>16, <1>17, <1>18, <1>19, <1>20, <1>21,
       <1>22, <1>23, <1>24, <1>25, <1>26
       DEF Next, SendStep, DrainStep, NotifyStep, CloseStep, DestroyStep

(* the queues of tokens,                                                   *)
LEMMA MailTypeKept ==
    ASSUME Books, Next, ~Over
    PROVE  MailType'
  <1>0. MailType
    BY Facts1
  <1>1. ASSUME NEW w \in Workers, SelectGeneration(w) PROVE MailType'
    BY <1>0, <1>1 DEF SelectGeneration, MailType, queueVars
  <1>2. ASSUME NEW w \in Workers, EnterToSend(w) PROVE MailType'
    BY <1>0, <1>2 DEF EnterToSend, MailType, queueVars
  <1>3. ASSUME NEW w \in Workers, CheckLane(w) PROVE MailType'
    BY <1>0, <1>3 DEF CheckLane, MailType, queueVars
  <1>4. ASSUME NEW w \in Workers, Reserve(w) PROVE MailType'
    BY <1>0, <1>4 DEF Reserve, MailType, queueVars
  <1>5. ASSUME NEW w \in Workers, ScheduleSend(w) PROVE MailType'
    <2>1. pc[w].g \in Gens
      BY <1>5, InGens DEF ScheduleSend
    <2>2. \/ mailbox' = mailbox
          \/ mailbox' = [mailbox EXCEPT ![w] = Append(@, pc[w].g)]
      BY <1>5 DEF ScheduleSend, Accept, Refuse, queueVars
    <2>3. \/ timed' = timed
          \/ timed' = [timed EXCEPT ![w] = Append(@, pc[w].g)]
      BY <1>5 DEF ScheduleSend, Accept, Refuse, queueVars
    <2>4. phase' = phase
      BY <1>5 DEF ScheduleSend, Accept, Refuse, queueVars
    <2>5. /\ mailbox \in [Workers -> Seq(Gens)] /\ timed \in [Workers -> Seq(Gens)]
          /\ w \in Workers
      BY <1>0 DEF MailType, Lanes
    <2>6. [mailbox EXCEPT ![w] = Append(@, pc[w].g)] \in [Workers -> Seq(Gens)]
      BY <2>1, <2>5, QueueGrows, Zenon
    <2>7. [timed EXCEPT ![w] = Append(@, pc[w].g)] \in [Workers -> Seq(Gens)]
      BY <2>1, <2>5, QueueGrows, Zenon
    <2>8. mailbox' \in [Workers -> Seq(Gens)]
      BY <2>2, <2>5, <2>6, Zenon
    <2>9. timed' \in [Workers -> Seq(Gens)]
      BY <2>3, <2>5, <2>7, Zenon
    <2> QED
      BY <1>0, <2>4, <2>8, <2>9 DEF MailType
  <1>6. ASSUME NEW w \in Workers, UndoSend(w) PROVE MailType'
    BY <1>0, <1>6 DEF UndoSend, MailType, queueVars
  <1>7. ASSUME NEW w \in Workers, Leave(w) PROVE MailType'
    BY <1>0, <1>7 DEF Leave, MailType, queueVars
  <1>8. ASSUME NEW w \in Workers, Expire(w) PROVE MailType'
    BY <1>0, <1>8 DEF Expire, MailType, queueVars
  <1>9. ASSUME NEW w \in Workers, BeginDrain(w) PROVE MailType'
    BY <1>0, <1>9 DEF BeginDrain, MailType, queueVars
  <1>10. ASSUME NEW w \in Workers, PrepareDrain(w) PROVE MailType'
    BY <1>0, <1>10 DEF PrepareDrain, FillBatch, MailType, queueVars
  <1>11. ASSUME NEW w \in Workers, NEW n \in 0 .. BatchMax,
                NEW status \in {"continue", "blocked", "failed"},
                Write(w, n, status)
         PROVE  MailType'
    BY <1>0, <1>11 DEF Write, MailType, queueVars
  <1>12. ASSUME NEW w \in Workers, ScheduleDrain(w) PROVE MailType'
    <2>1. pc[w].g \in Gens
      BY <1>12, InGens DEF ScheduleDrain
    <2>2. \/ mailbox' = mailbox
          \/ mailbox' = [mailbox EXCEPT ![w] = Append(@, pc[w].g)]
      BY <1>12 DEF ScheduleDrain, Accept, Refuse, queueVars
    <2>3. \/ timed' = timed
          \/ timed' = [timed EXCEPT ![w] = Append(@, pc[w].g)]
      BY <1>12 DEF ScheduleDrain, Accept, Refuse, queueVars
    <2>4. phase' = phase
      BY <1>12 DEF ScheduleDrain, Accept, Refuse, queueVars
    <2>5. /\ mailbox \in [Workers -> Seq(Gens)] /\ timed \in [Workers -> Seq(Gens)]
          /\ w \in Workers
      BY <1>0 DEF MailType, Lanes
    <2>6. [mailbox EXCEPT ![w] = Append(@, pc[w].g)] \in [Workers -> Seq(Gens)]
      BY <2>1, <2>5, QueueGrows, Zenon
    <2>7. [timed EXCEPT ![w] = Append(@, pc[w].g)] \in [Workers -> Seq(Gens)]
      BY <2>1, <2>5, QueueGrows, Zenon
    <2>8. mailbox' \in [Workers -> Seq(Gens)]
      BY <2>2, <2>5, <2>6, Zenon
    <2>9. timed' \in [Workers -> Seq(Gens)]
      BY <2>3, <2>5, <2>7, Zenon
    <2> QED
      BY <1>0, <2>4, <2>8, <2>9 DEF MailType
  <1>13. ASSUME NEW w \in Workers, FailDrain(w) PROVE MailType'
    BY <1>0, <1>13 DEF FailDrain, MailType, queueVars
  <1>14. ASSUME NEW w \in Workers, EndDrain(w) PROVE MailType'
    BY <1>0, <1>14 DEF EndDrain, Unref, MailType, queueVars
  <1>15. ASSUME NEW w \in Workers, CloseMailbox(w) PROVE MailType'
    BY <1>0, <1>15 DEF CloseMailbox, MailType, queueVars
  <1>16. ASSUME NEW w \in Workers, CancelToken(w) PROVE MailType'
    <2>1. \/ mailbox[w] # << >> /\ mailbox' = [mailbox EXCEPT ![w] = Tail(@)]
          \/ mailbox' = mailbox
      BY <1>16 DEF CancelToken
    <2>2. \/ timed[w] # << >> /\ timed' = [timed EXCEPT ![w] = Tail(@)]
          \/ timed' = timed
      BY <1>16 DEF CancelToken
    <2>3. phase' = phase
      BY <1>16 DEF CancelToken
    <2>4. mailbox \in [Workers -> Seq(Gens)] /\ timed \in [Workers -> Seq(Gens)]
      BY <1>0 DEF MailType
    <2>5. mailbox[w] # << >> =>
             [mailbox EXCEPT ![w] = Tail(@)] \in [Workers -> Seq(Gens)]
      BY <2>4, QueueShrinks, Zenon
    <2>6. timed[w] # << >> =>
             [timed EXCEPT ![w] = Tail(@)] \in [Workers -> Seq(Gens)]
      BY <2>4, QueueShrinks, Zenon
    <2>7. mailbox' \in [Workers -> Seq(Gens)]
      BY <2>1, <2>4, <2>5, Zenon
    <2>8. timed' \in [Workers -> Seq(Gens)]
      BY <2>2, <2>4, <2>6, Zenon
    <2> QED
      BY <1>0, <2>3, <2>7, <2>8 DEF MailType
  <1>17. ASSUME NEW l \in Lanes, EnterToNotify(l) PROVE MailType'
    BY <1>0, <1>17 DEF EnterToNotify, MailType, queueVars
  <1>18. ASSUME NEW l \in Lanes, PostNotification(l) PROVE MailType'
    <2>1. l[1] \in Gens
      BY DEF Lanes
    <2>2. \/ mailbox' = mailbox
          \/ mailbox' = [mailbox EXCEPT ![l[2]] = Append(@, l[1])]
      BY <1>18 DEF PostNotification, Accept, Refuse, queueVars
    <2>3. \/ timed' = timed
          \/ timed' = [timed EXCEPT ![l[2]] = Append(@, l[1])]
      BY <1>18 DEF PostNotification, Accept, Refuse, queueVars
    <2>4. phase' = phase
      BY <1>18 DEF PostNotification, Accept, Refuse, queueVars
    <2>5. /\ mailbox \in [Workers -> Seq(Gens)] /\ timed \in [Workers -> Seq(Gens)]
          /\ l[2] \in Workers
      BY <1>0 DEF MailType, Lanes
    <2>6. [mailbox EXCEPT ![l[2]] = Append(@, l[1])] \in [Workers -> Seq(Gens)]
      BY <2>1, <2>5, QueueGrows, Zenon
    <2>7. [timed EXCEPT ![l[2]] = Append(@, l[1])] \in [Workers -> Seq(Gens)]
      BY <2>1, <2>5, QueueGrows, Zenon
    <2>8. mailbox' \in [Workers -> Seq(Gens)]
      BY <2>2, <2>5, <2>6, Zenon
    <2>9. timed' \in [Workers -> Seq(Gens)]
      BY <2>3, <2>5, <2>7, Zenon
    <2> QED
      BY <1>0, <2>4, <2>8, <2>9 DEF MailType
  <1>19. ASSUME NEW l \in Lanes, LeaveNotify(l) PROVE MailType'
    BY <1>0, <1>19 DEF LeaveNotify, MailType, queueVars
  <1>20. ASSUME Open PROVE MailType'
    BY <1>0, <1>20 DEF Open, MailType, queueVars
  <1>21. ASSUME Unpublish PROVE MailType'
    BY <1>0, <1>21 DEF Unpublish, MailType, queueVars
  <1>22. ASSUME CloseGate PROVE MailType'
    BY <1>0, <1>22 DEF CloseGate, MailType, queueVars
  <1>23. ASSUME StopNative PROVE MailType'
    BY <1>0, <1>23 DEF StopNative, MailType, queueVars
  <1>24. ASSUME Discard PROVE MailType'
    BY <1>0, <1>24 DEF Discard, MailType, queueVars
  <1>25. ASSUME BeginDestroy PROVE MailType'
    BY <1>0, <1>25 DEF BeginDestroy, MailType, queueVars
  <1>26. ASSUME NEW g \in Gens, DestroyOne(g) PROVE MailType'
    BY <1>0, <1>26 DEF DestroyOne, Unref, MailType, queueVars
  <1> QED
    BY <1>1, <1>2, <1>3, <1>4, <1>5, <1>6, <1>7, <1>8, <1>9, <1>10, <1>11,
       <1>12, <1>13, <1>14, <1>15, <1>16, <1>17, <1>18, <1>19, <1>20, <1>21,
       <1>22, <1>23, <1>24, <1>25, <1>26
       DEF Next, SendStep, DrainStep, NotifyStep, CloseStep, DestroyStep

(* and the places of the workers.                                          *)
LEMMA PlaceTypeKept ==
    ASSUME Books, Next, ~Over
    PROVE  PlaceType'
  <1>0. PlaceType /\ OwnerType /\ MailType
    BY Facts1
  <1>1. ASSUME NEW w \in Workers, SelectGeneration(w) PROVE PlaceType'
    BY <1>0, <1>1
       DEF SelectGeneration, PlaceType, Places, DrainStates, Idle, OwnerType
  <1>2. ASSUME NEW w \in Workers, EnterToSend(w) PROVE PlaceType'
    <2>1. sent' = sent
      BY <1>2 DEF EnterToSend
    <2>2. \/ pc' = [pc EXCEPT ![w].at = "check"]
          \/ pc' = [pc EXCEPT ![w] = Idle]
      BY <1>2 DEF EnterToSend
    <2> QED
      BY <1>0, <2>1, <2>2, RawWriterAssumption
         DEF PlaceType, Places, DrainStates, Idle
  <1>3. ASSUME NEW w \in Workers, CheckLane(w) PROVE PlaceType'
    BY <1>0, <1>3 DEF CheckLane, PlaceType, Places, DrainStates, Idle
  <1>4. ASSUME NEW w \in Workers, Reserve(w) PROVE PlaceType'
    BY <1>0, <1>4, ZenonT(30) DEF Reserve, PlaceType, Places, DrainStates, Idle
  <1>5. ASSUME NEW w \in Workers, ScheduleSend(w) PROVE PlaceType'
    <2>1. sent' = sent
      BY <1>5 DEF ScheduleSend, Accept, Refuse
    <2>2. \/ pc' = [pc EXCEPT ![w].at = "leaveSend"]
          \/ pc' = [pc EXCEPT ![w].at = "undo"]
      BY <1>5 DEF ScheduleSend, Accept, Refuse
    <2> QED
      BY <1>0, <2>1, <2>2, RawWriterAssumption
         DEF PlaceType, Places, DrainStates, Idle
  <1>6. ASSUME NEW w \in Workers, UndoSend(w) PROVE PlaceType'
    BY <1>0, <1>6 DEF UndoSend, PlaceType, Places, DrainStates, Idle
  <1>7. ASSUME NEW w \in Workers, Leave(w) PROVE PlaceType'
    <2>1. sent' = sent
      BY <1>7 DEF Leave
    <2>2. \/ pc' = [pc EXCEPT ![w].at = "unref"]
          \/ pc' = [pc EXCEPT ![w] = Idle]
      BY <1>7 DEF Leave
    <2> QED
      BY <1>0, <2>1, <2>2, RawWriterAssumption
         DEF PlaceType, Places, DrainStates, Idle
  <1>8. ASSUME NEW w \in Workers, Expire(w) PROVE PlaceType'
    BY <1>0, <1>8 DEF Expire, PlaceType, Places, DrainStates, Idle
  <1>9. ASSUME NEW w \in Workers, BeginDrain(w) PROVE PlaceType'
    <2>1. sent' = sent
      BY <1>9 DEF BeginDrain
    <2>2. PICK a \in {"drain", "unref"} :
             pc' = [pc EXCEPT ![w] = [at |-> a, g |-> Head(mailbox[w])]]
      BY <1>9 DEF BeginDrain
    <2>3. Head(mailbox[w]) \in 0 .. MaxGens
      BY <1>0, <1>9, RawWriterAssumption DEF BeginDrain, MailType, Gens
    <2> QED
      BY <1>0, <2>1, <2>2, <2>3 DEF PlaceType, Places, DrainStates
  <1>10. ASSUME NEW w \in Workers, PrepareDrain(w) PROVE PlaceType'
    BY <1>0, <1>10, SMTT(30)
       DEF PrepareDrain, FillBatch, PlaceType, Places, DrainStates, Idle
  <1>11. ASSUME NEW w \in Workers, NEW n \in 0 .. BatchMax,
                NEW status \in {"continue", "blocked", "failed"},
                Write(w, n, status)
         PROVE  PlaceType'
    BY <1>0, <1>11 DEF Write, PlaceType, Places, DrainStates, Idle
  <1>12. ASSUME NEW w \in Workers, ScheduleDrain(w) PROVE PlaceType'
    BY <1>0, <1>12
       DEF ScheduleDrain, Accept, Refuse, PlaceType, Places, DrainStates, Idle
  <1>13. ASSUME NEW w \in Workers, FailDrain(w) PROVE PlaceType'
    BY <1>0, <1>13 DEF FailDrain, PlaceType, Places, DrainStates, Idle
  <1>14. ASSUME NEW w \in Workers, EndDrain(w) PROVE PlaceType'
    <2>1. sent' = sent
      BY <1>14 DEF EndDrain, Unref
    <2>2. pc' = [pc EXCEPT ![w] = Idle]
      BY <1>14 DEF EndDrain, Unref
    <2> QED
      BY <1>0, <2>1, <2>2, RawWriterAssumption
         DEF PlaceType, Places, DrainStates, Idle
  <1>15. ASSUME NEW w \in Workers, CloseMailbox(w) PROVE PlaceType'
    BY <1>0, <1>15 DEF CloseMailbox, PlaceType, Places, DrainStates, Idle
  <1>16. ASSUME NEW w \in Workers, CancelToken(w) PROVE PlaceType'
    BY <1>0, <1>16
       DEF CancelToken, Unref, PlaceType, Places, DrainStates, Idle
  <1>17. ASSUME NEW l \in Lanes, EnterToNotify(l) PROVE PlaceType'
    BY <1>0, <1>17 DEF EnterToNotify, PlaceType, Places, DrainStates, Idle
  <1>18. ASSUME NEW l \in Lanes, PostNotification(l) PROVE PlaceType'
    BY <1>0, <1>18
       DEF PostNotification, Accept, Refuse, PlaceType, Places, DrainStates,
           Idle
  <1>19. ASSUME NEW l \in Lanes, LeaveNotify(l) PROVE PlaceType'
    BY <1>0, <1>19 DEF LeaveNotify, PlaceType, Places, DrainStates, Idle
  <1>20. ASSUME Open PROVE PlaceType'
    BY <1>0, <1>20 DEF Open, PlaceType, Places, DrainStates, Idle
  <1>21. ASSUME Unpublish PROVE PlaceType'
    BY <1>0, <1>21 DEF Unpublish, PlaceType, Places, DrainStates, Idle
  <1>22. ASSUME CloseGate PROVE PlaceType'
    BY <1>0, <1>22 DEF CloseGate, PlaceType, Places, DrainStates, Idle
  <1>23. ASSUME StopNative PROVE PlaceType'
    BY <1>0, <1>23 DEF StopNative, PlaceType, Places, DrainStates, Idle
  <1>24. ASSUME Discard PROVE PlaceType'
    BY <1>0, <1>24 DEF Discard, PlaceType, Places, DrainStates, Idle
  <1>25. ASSUME BeginDestroy PROVE PlaceType'
    BY <1>0, <1>25 DEF BeginDestroy, PlaceType, Places, DrainStates, Idle
  <1>26. ASSUME NEW g \in Gens, DestroyOne(g) PROVE PlaceType'
    BY <1>0, <1>26 DEF DestroyOne, Unref, PlaceType, Places, DrainStates, Idle
  <1> QED
    BY <1>1, <1>2, <1>3, <1>4, <1>5, <1>6, <1>7, <1>8, <1>9, <1>10, <1>11,
       <1>12, <1>13, <1>14, <1>15, <1>16, <1>17, <1>18, <1>19, <1>20, <1>21,
       <1>22, <1>23, <1>24, <1>25, <1>26
       DEF Next, SendStep, DrainStep, NotifyStep, CloseStep, DestroyStep

(* A sequence cut in two, and two put together.                            *)
LEMMA Cut ==
    ASSUME NEW s \in Seq(Packets), NEW n \in 0 .. Len(s)
    PROVE  /\ SubSeq(s, 1, n) \in Seq(Packets)
           /\ Len(SubSeq(s, 1, n)) = n
           /\ \A i \in 1 .. n : SubSeq(s, 1, n)[i] = s[i]
           /\ SubSeq(s, n + 1, Len(s)) \in Seq(Packets)
           /\ Len(SubSeq(s, n + 1, Len(s))) = Len(s) - n
           /\ \A i \in 1 .. Len(s) - n : SubSeq(s, n + 1, Len(s))[i] = s[n + i]
  <1>1. /\ Len(SubSeq(s, 1, n)) = n
        /\ \A i \in 1 .. n : SubSeq(s, 1, n)[i] = s[i]
    OBVIOUS
  <1>2. /\ Len(SubSeq(s, n + 1, Len(s))) = Len(s) - n
        /\ \A i \in 1 .. Len(s) - n : SubSeq(s, n + 1, Len(s))[i] = s[n + i]
    OBVIOUS
  <1>3. SubSeq(s, 1, n) \in Seq(Packets)
    OBVIOUS
  <1>4. SubSeq(s, n + 1, Len(s)) \in Seq(Packets)
    OBVIOUS
  <1> QED
    BY <1>1, <1>2, <1>3, <1>4

(* The elements of two sequences, one after the other.                     *)
LEMMA Join ==
    ASSUME NEW a \in Seq(Packets), NEW b \in Seq(Packets)
    PROVE  /\ a \o b \in Seq(Packets)
           /\ Len(a \o b) = Len(a) + Len(b)
           /\ \A i \in 1 .. Len(a) : (a \o b)[i] = a[i]
           /\ \A i \in 1 .. Len(b) : (a \o b)[Len(a) + i] = b[i]
  OBVIOUS

(* A sequence without its last element.                                    *)
LEMMA FrontIs ==
    ASSUME NEW s \in Seq(Packets)
    PROVE  /\ Front(s) \in Seq(Packets)
           /\ Len(Front(s)) <= Len(s)
           /\ \A i \in 1 .. Len(Front(s)) : Front(s)[i] = s[i]
  <1>1. CASE s = << >>
    <2>1. Front(s) = << >>
      BY <1>1 DEF Front
    <2>2. Len(Front(s)) = 0 /\ Len(s) = 0 /\ Front(s) \in Seq(Packets)
      BY <1>1, <2>1
    <2> QED
      BY <2>2
  <1>2. CASE s # << >>
    <2>1. Len(s) - 1 \in 0 .. Len(s)
      BY <1>2
    <2> QED
      BY <1>2, <2>1, Cut DEF Front
  <1> QED
    BY <1>1, <1>2

(* What a producer sends is a packet.                                      *)
LEMMA PacketIs ==
    ASSUME Books, NEW w \in Workers, Sending(w)
    PROVE  Packet(w) \in Packets
  <1>1. sent[w] \in 1 .. Sends[w]
    BY Facts1, RawWriterAssumption DEF PlaceBooks, PlaceType
  <1> QED
    BY <1>1 DEF Packet, Packets

(* The queues and batches hold packets only.                               *)
LEMMA LaneTypeKept ==
    ASSUME Books, Next, ~Over
    PROVE  LaneType'
  <1>0. LaneType
    BY Facts1
  <1>1. ASSUME NEW w \in Workers, SelectGeneration(w) PROVE LaneType'
    BY <1>0, <1>1 DEF SelectGeneration, LaneType, laneVars
  <1>2. ASSUME NEW w \in Workers, EnterToSend(w) PROVE LaneType'
    BY <1>0, <1>2 DEF EnterToSend, LaneType, laneVars
  <1>3. ASSUME NEW w \in Workers, CheckLane(w) PROVE LaneType'
    BY <1>0, <1>3 DEF CheckLane, LaneType, laneVars
  <1>4. ASSUME NEW w \in Workers, Reserve(w) PROVE LaneType'
    <2>1. Packet(w) \in Packets
      BY <1>4, PacketIs DEF Reserve, Sending
    <2>2. Lane(w) \in Lanes
      BY <1>4, InGens DEF Reserve
    <2>3. Append(buffers[Lane(w)], Packet(w)) \in Seq(Packets)
      BY <1>0, <2>1, <2>2 DEF LaneType
    <2>4. /\ batch' = batch /\ out' = out
          /\ \/ buffers' = buffers
             \/ buffers' = [buffers EXCEPT ![Lane(w)] = Append(@, Packet(w))]
          /\ fate' = fate \/ fate' = [fate EXCEPT ![Packet(w)] = "owned"]
      BY <1>4 DEF Reserve, laneVars
    <2>5. buffers' \in [Lanes -> Seq(Packets)]
      BY <1>0, <2>2, <2>3, <2>4 DEF LaneType
    <2>6. fate' \in [Packets -> {"user", "owned", "written", "dropped"}]
      BY <1>0, <2>4 DEF LaneType
    <2> QED
      BY <1>0, <2>4, <2>5, <2>6 DEF LaneType
  <1>5. ASSUME NEW w \in Workers, ScheduleSend(w) PROVE LaneType'
    BY <1>0, <1>5 DEF ScheduleSend, Accept, Refuse, LaneType, laneVars
  <1>6. ASSUME NEW w \in Workers, UndoSend(w) PROVE LaneType'
    <2>1. Lane(w) \in Lanes
      BY <1>6, InGens DEF UndoSend
    <2>2. Front(buffers[Lane(w)]) \in Seq(Packets)
      BY <1>0, <2>1, FrontIs DEF LaneType
    <2>3. /\ batch' = batch /\ out' = out
          /\ buffers' = [buffers EXCEPT ![Lane(w)] = Front(@)]
          /\ fate' = [fate EXCEPT ![Packet(w)] = "user"]
      BY <1>6 DEF UndoSend
    <2>4. buffers' \in [Lanes -> Seq(Packets)]
      BY <1>0, <2>1, <2>2, <2>3 DEF LaneType
    <2>5. fate' \in [Packets -> {"user", "owned", "written", "dropped"}]
      BY <1>0, <2>3 DEF LaneType
    <2> QED
      BY <1>0, <2>3, <2>4, <2>5 DEF LaneType
  <1>7. ASSUME NEW w \in Workers, Leave(w) PROVE LaneType'
    BY <1>0, <1>7 DEF Leave, LaneType, laneVars
  <1>8. ASSUME NEW w \in Workers, Expire(w) PROVE LaneType'
    BY <1>0, <1>8 DEF Expire, LaneType, laneVars
  <1>9. ASSUME NEW w \in Workers, BeginDrain(w) PROVE LaneType'
    BY <1>0, <1>9 DEF BeginDrain, LaneType, laneVars
  <1>10. ASSUME NEW w \in Workers, PrepareDrain(w) PROVE LaneType'
    <2> DEFINE b == buffers[Lane(w)]
               n == IF Len(b) < BatchMax THEN Len(b) ELSE BatchMax
    <2>1. Lane(w) \in Lanes
      BY <1>10, InGens DEF PrepareDrain
    <2>2. b \in Seq(Packets) /\ n \in 0 .. Len(b)
      BY <1>0, <2>1, RawWriterAssumption DEF LaneType
    <2>3. /\ out' = out /\ fate' = fate
          /\ \/ batch' = batch /\ buffers' = buffers
             \/ /\ batch' = [batch EXCEPT ![Lane(w)] = SubSeq(b, 1, n)]
                /\ buffers' =
                      [buffers EXCEPT ![Lane(w)] = SubSeq(b, n + 1, Len(b))]
      BY <1>10 DEF PrepareDrain, FillBatch
    <2> HIDE DEF b, n
    <2>4. SubSeq(b, 1, n) \in Seq(Packets) /\ SubSeq(b, n + 1, Len(b)) \in Seq(Packets)
      BY <2>2, Cut
    <2>5. batch' \in [Lanes -> Seq(Packets)]
      BY <1>0, <2>1, <2>3, <2>4 DEF LaneType
    <2>6. buffers' \in [Lanes -> Seq(Packets)]
      BY <1>0, <2>1, <2>3, <2>4 DEF LaneType
    <2> QED
      BY <1>0, <2>3, <2>5, <2>6 DEF LaneType
  <1>11. ASSUME NEW w \in Workers, NEW n \in 0 .. BatchMax,
                NEW status \in {"continue", "blocked", "failed"},
                Write(w, n, status)
         PROVE  LaneType'
    <2> DEFINE b == batch[Lane(w)]
    <2>1. Lane(w) \in Lanes
      BY <1>11, InGens DEF Write
    <2>2. b \in Seq(Packets) /\ n \in 0 .. Len(b)
      BY <1>0, <1>11, <2>1 DEF LaneType, Write
    <2>3. /\ out' = [out EXCEPT ![w] = @ \o SubSeq(b, 1, n)]
          /\ batch' = [batch EXCEPT ![Lane(w)] = SubSeq(b, n + 1, Len(b))]
          /\ buffers' = buffers
          /\ fate' = [p \in Packets |->
                        IF p \in Range(SubSeq(b, 1, n)) THEN "written"
                                                        ELSE fate[p]]
      BY <1>11 DEF Write
    <2> HIDE DEF b
    <2>4. SubSeq(b, 1, n) \in Seq(Packets) /\ SubSeq(b, n + 1, Len(b)) \in Seq(Packets)
      BY <2>2, Cut
    <2>5. out[w] \o SubSeq(b, 1, n) \in Seq(Packets)
      BY <1>0, <2>4, Join DEF LaneType
    <2>6. out' \in [Workers -> Seq(Packets)]
      BY <1>0, <2>3, <2>5 DEF LaneType
    <2>7. batch' \in [Lanes -> Seq(Packets)]
      BY <1>0, <2>1, <2>3, <2>4 DEF LaneType
    <2>8. fate' \in [Packets -> {"user", "owned", "written", "dropped"}]
      BY <1>0, <2>3 DEF LaneType
    <2> QED
      BY <1>0, <2>3, <2>6, <2>7, <2>8 DEF LaneType
  <1>12. ASSUME NEW w \in Workers, ScheduleDrain(w) PROVE LaneType'
    BY <1>0, <1>12 DEF ScheduleDrain, Accept, Refuse, LaneType, laneVars
  <1>13. ASSUME NEW w \in Workers, FailDrain(w) PROVE LaneType'
    BY <1>0, <1>13 DEF FailDrain, LaneType, laneVars
  <1>14. ASSUME NEW w \in Workers, EndDrain(w) PROVE LaneType'
    BY <1>0, <1>14 DEF EndDrain, Unref, LaneType, laneVars
  <1>15. ASSUME NEW w \in Workers, CloseMailbox(w) PROVE LaneType'
    BY <1>0, <1>15 DEF CloseMailbox, LaneType, laneVars
  <1>16. ASSUME NEW w \in Workers, CancelToken(w) PROVE LaneType'
    BY <1>0, <1>16 DEF CancelToken, Unref, LaneType, laneVars
  <1>17. ASSUME NEW l \in Lanes, EnterToNotify(l) PROVE LaneType'
    BY <1>0, <1>17 DEF EnterToNotify, LaneType, laneVars
  <1>18. ASSUME NEW l \in Lanes, PostNotification(l) PROVE LaneType'
    BY <1>0, <1>18 DEF PostNotification, Accept, Refuse, LaneType, laneVars
  <1>19. ASSUME NEW l \in Lanes, LeaveNotify(l) PROVE LaneType'
    BY <1>0, <1>19 DEF LeaveNotify, LaneType, laneVars
  <1>20. ASSUME Open PROVE LaneType'
    BY <1>0, <1>20 DEF Open, LaneType, laneVars
  <1>21. ASSUME Unpublish PROVE LaneType'
    BY <1>0, <1>21 DEF Unpublish, LaneType, laneVars
  <1>22. ASSUME CloseGate PROVE LaneType'
    BY <1>0, <1>22 DEF CloseGate, LaneType, laneVars
  <1>23. ASSUME StopNative PROVE LaneType'
    BY <1>0, <1>23 DEF StopNative, LaneType, laneVars
  <1>24. ASSUME Discard PROVE LaneType'
    <2>1. out' = out
      BY <1>24 DEF Discard
    <2>2. batch' \in [Lanes -> Seq(Packets)]
      BY <1>0, <1>24 DEF Discard, LaneType
    <2>3. buffers' \in [Lanes -> Seq(Packets)]
      BY <1>0, <1>24 DEF Discard, LaneType
    <2>4. fate' \in [Packets -> {"user", "owned", "written", "dropped"}]
      BY <1>0, <1>24 DEF Discard, LaneType
    <2> QED
      BY <1>0, <2>1, <2>2, <2>3, <2>4 DEF LaneType
  <1>25. ASSUME BeginDestroy PROVE LaneType'
    BY <1>0, <1>25 DEF BeginDestroy, LaneType, laneVars
  <1>26. ASSUME NEW g \in Gens, DestroyOne(g) PROVE LaneType'
    BY <1>0, <1>26 DEF DestroyOne, Unref, LaneType, laneVars
  <1> QED
    BY <1>1, <1>2, <1>3, <1>4, <1>5, <1>6, <1>7, <1>8, <1>9, <1>10, <1>11,
       <1>12, <1>13, <1>14, <1>15, <1>16, <1>17, <1>18, <1>19, <1>20, <1>21,
       <1>22, <1>23, <1>24, <1>25, <1>26
       DEF Next, SendStep, DrainStep, NotifyStep, CloseStep, DestroyStep

(* So are the books of the places and of the owner.                         *)
LEMMA PlaceBooksKept ==
    ASSUME Books, Next, ~Over
    PROVE  \A v \in Workers : PlaceBooks(v)'
  <1>0. /\ PlaceType /\ OwnerType /\ MailType
        /\ \A v \in Workers : PlaceBooks(v)
    BY Facts1
  <1>1. ASSUME NEW w \in Workers, SelectGeneration(w)
        PROVE  \A v \in Workers : PlaceBooks(v)'
    BY <1>0, RawWriterAssumption, <1>1
       DEF SelectGeneration, PlaceType, PlaceBooks, Sending, Idle, OwnerType
  <1>2. ASSUME NEW w \in Workers, EnterToSend(w)
        PROVE  \A v \in Workers : PlaceBooks(v)'
    BY <1>0, RawWriterAssumption, <1>2
       DEF EnterToSend, PlaceType, PlaceBooks, Sending, Idle
  <1>3. ASSUME NEW w \in Workers, CheckLane(w)
        PROVE  \A v \in Workers : PlaceBooks(v)'
    BY <1>0, RawWriterAssumption, <1>3
       DEF CheckLane, PlaceType, PlaceBooks, Sending, Idle
  <1>4. ASSUME NEW w \in Workers, Reserve(w)
        PROVE  \A v \in Workers : PlaceBooks(v)'
    <2>1. PICK a \in {"leaveSend", "schedule"} : pc' = [pc EXCEPT ![w].at = a]
      BY <1>4 DEF Reserve
    <2>2. sent' = sent /\ ~At(w, "idle")
      BY <1>4 DEF Reserve
    <2>3. At(w, "reserve") \/ a \in {"leaveDrain", "write"}
      BY <1>4, <2>1 DEF Reserve
    <2> QED
      BY <1>0, <2>1, <2>2, <2>3 DEF PlaceType, PlaceBooks, Sending
  <1>5. ASSUME NEW w \in Workers, ScheduleSend(w)
        PROVE  \A v \in Workers : PlaceBooks(v)'
    BY <1>0, RawWriterAssumption, <1>5, SMTT(30)
       DEF ScheduleSend, Accept, Refuse, PlaceType, PlaceBooks, Sending, Idle
  <1>6. ASSUME NEW w \in Workers, UndoSend(w)
        PROVE  \A v \in Workers : PlaceBooks(v)'
    BY <1>0, RawWriterAssumption, <1>6
       DEF UndoSend, PlaceType, PlaceBooks, Sending, Idle
  <1>7. ASSUME NEW w \in Workers, Leave(w)
        PROVE  \A v \in Workers : PlaceBooks(v)'
    BY <1>0, RawWriterAssumption, <1>7
       DEF Leave, PlaceType, PlaceBooks, Sending, Idle
  <1>8. ASSUME NEW w \in Workers, Expire(w)
        PROVE  \A v \in Workers : PlaceBooks(v)'
    BY <1>0, RawWriterAssumption, <1>8
       DEF Expire, PlaceType, PlaceBooks, Sending, Idle
  <1>9. ASSUME NEW w \in Workers, BeginDrain(w)
        PROVE  \A v \in Workers : PlaceBooks(v)'
    BY <1>0, RawWriterAssumption, <1>9
       DEF BeginDrain, PlaceType, PlaceBooks, Sending, Idle, MailType, Gens
  <1>10. ASSUME NEW w \in Workers, PrepareDrain(w)
         PROVE  \A v \in Workers : PlaceBooks(v)'
    <2>1. PICK a \in {"leaveDrain", "write"} : pc' = [pc EXCEPT ![w].at = a]
      BY <1>10 DEF PrepareDrain, FillBatch
    <2>2. sent' = sent /\ ~At(w, "idle")
      BY <1>10 DEF PrepareDrain, FillBatch
    <2>3. At(w, "reserve") \/ a \in {"leaveDrain", "write"}
      BY <1>10, <2>1 DEF PrepareDrain, FillBatch
    <2> QED
      BY <1>0, <2>1, <2>2, <2>3 DEF PlaceType, PlaceBooks, Sending
  <1>11. ASSUME NEW w \in Workers, NEW n \in 0 .. BatchMax,
                NEW status \in {"continue", "blocked", "failed"},
                Write(w, n, status)
         PROVE  \A v \in Workers : PlaceBooks(v)'
    BY <1>0, RawWriterAssumption, <1>11
       DEF Write, PlaceType, PlaceBooks, Sending, Idle
  <1>12. ASSUME NEW w \in Workers, ScheduleDrain(w)
         PROVE  \A v \in Workers : PlaceBooks(v)'
    BY <1>0, RawWriterAssumption, <1>12
       DEF ScheduleDrain, Accept, Refuse, PlaceType, PlaceBooks, Sending, Idle
  <1>13. ASSUME NEW w \in Workers, FailDrain(w)
         PROVE  \A v \in Workers : PlaceBooks(v)'
    BY <1>0, RawWriterAssumption, <1>13
       DEF FailDrain, PlaceType, PlaceBooks, Sending, Idle
  <1>14. ASSUME NEW w \in Workers, EndDrain(w)
         PROVE  \A v \in Workers : PlaceBooks(v)'
    BY <1>0, RawWriterAssumption, <1>14
       DEF EndDrain, Unref, PlaceType, PlaceBooks, Sending, Idle
  <1>15. ASSUME NEW w \in Workers, CloseMailbox(w)
         PROVE  \A v \in Workers : PlaceBooks(v)'
    BY <1>0, RawWriterAssumption, <1>15
       DEF CloseMailbox, PlaceType, PlaceBooks, Sending, Idle
  <1>16. ASSUME NEW w \in Workers, CancelToken(w)
         PROVE  \A v \in Workers : PlaceBooks(v)'
    BY <1>0, RawWriterAssumption, <1>16
       DEF CancelToken, Unref, PlaceType, PlaceBooks, Sending, Idle
  <1>17. ASSUME NEW l \in Lanes, EnterToNotify(l)
         PROVE  \A v \in Workers : PlaceBooks(v)'
    BY <1>0, RawWriterAssumption, <1>17
       DEF EnterToNotify, PlaceType, PlaceBooks, Sending, Idle
  <1>18. ASSUME NEW l \in Lanes, PostNotification(l)
         PROVE  \A v \in Workers : PlaceBooks(v)'
    BY <1>0, RawWriterAssumption, <1>18
       DEF PostNotification, Accept, Refuse, PlaceType, PlaceBooks, Sending,
           Idle
  <1>19. ASSUME NEW l \in Lanes, LeaveNotify(l)
         PROVE  \A v \in Workers : PlaceBooks(v)'
    BY <1>0, RawWriterAssumption, <1>19
       DEF LeaveNotify, PlaceType, PlaceBooks, Sending, Idle
  <1>20. ASSUME Open PROVE \A v \in Workers : PlaceBooks(v)'
    BY <1>0, RawWriterAssumption, <1>20
       DEF Open, PlaceType, PlaceBooks, Sending, Idle
  <1>21. ASSUME Unpublish PROVE \A v \in Workers : PlaceBooks(v)'
    BY <1>0, RawWriterAssumption, <1>21
       DEF Unpublish, PlaceType, PlaceBooks, Sending, Idle
  <1>22. ASSUME CloseGate PROVE \A v \in Workers : PlaceBooks(v)'
    BY <1>0, RawWriterAssumption, <1>22
       DEF CloseGate, PlaceType, PlaceBooks, Sending, Idle
  <1>23. ASSUME StopNative PROVE \A v \in Workers : PlaceBooks(v)'
    BY <1>0, RawWriterAssumption, <1>23
       DEF StopNative, PlaceType, PlaceBooks, Sending, Idle
  <1>24. ASSUME Discard PROVE \A v \in Workers : PlaceBooks(v)'
    BY <1>0, RawWriterAssumption, <1>24
       DEF Discard, PlaceType, PlaceBooks, Sending, Idle
  <1>25. ASSUME BeginDestroy PROVE \A v \in Workers : PlaceBooks(v)'
    BY <1>0, RawWriterAssumption, <1>25
       DEF BeginDestroy, PlaceType, PlaceBooks, Sending, Idle
  <1>26. ASSUME NEW g \in Gens, DestroyOne(g)
         PROVE  \A v \in Workers : PlaceBooks(v)'
    BY <1>0, RawWriterAssumption, <1>26
       DEF DestroyOne, Unref, PlaceType, PlaceBooks, Sending, Idle
  <1> QED
    BY <1>1, <1>2, <1>3, <1>4, <1>5, <1>6, <1>7, <1>8, <1>9, <1>10, <1>11,
       <1>12, <1>13, <1>14, <1>15, <1>16, <1>17, <1>18, <1>19, <1>20, <1>21,
       <1>22, <1>23, <1>24, <1>25, <1>26
       DEF Next, SendStep, DrainStep, NotifyStep, CloseStep, DestroyStep

(* What the owner is doing goes with the current generation and its gate.  *)
LEMMA OwnerBooksKept ==
    ASSUME Books, Next, ~Over
    PROVE  OwnerBooks'
  <1>0. OwnerBooks /\ OwnerType
    BY Facts1
  <1>1. ASSUME NEW w \in Workers, SelectGeneration(w) PROVE OwnerBooks'
    BY <1>0, <1>1 DEF SelectGeneration, OwnerBooks, writerVars
  <1>2. ASSUME NEW w \in Workers, EnterToSend(w) PROVE OwnerBooks'
    BY <1>0, <1>2 DEF EnterToSend, OwnerBooks, writerVars
  <1>3. ASSUME NEW w \in Workers, CheckLane(w) PROVE OwnerBooks'
    BY <1>0, <1>3 DEF CheckLane, OwnerBooks, writerVars
  <1>4. ASSUME NEW w \in Workers, Reserve(w) PROVE OwnerBooks'
    BY <1>0, <1>4 DEF Reserve, OwnerBooks, writerVars
  <1>5. ASSUME NEW w \in Workers, ScheduleSend(w) PROVE OwnerBooks'
    BY <1>0, <1>5 DEF ScheduleSend, Accept, Refuse, OwnerBooks, writerVars
  <1>6. ASSUME NEW w \in Workers, UndoSend(w) PROVE OwnerBooks'
    BY <1>0, <1>6 DEF UndoSend, OwnerBooks, writerVars
  <1>7. ASSUME NEW w \in Workers, Leave(w) PROVE OwnerBooks'
    BY <1>0, <1>7 DEF Leave, OwnerBooks, writerVars
  <1>8. ASSUME NEW w \in Workers, Expire(w) PROVE OwnerBooks'
    BY <1>0, <1>8 DEF Expire, OwnerBooks, writerVars
  <1>9. ASSUME NEW w \in Workers, BeginDrain(w) PROVE OwnerBooks'
    BY <1>0, <1>9 DEF BeginDrain, OwnerBooks, writerVars
  <1>10. ASSUME NEW w \in Workers, PrepareDrain(w) PROVE OwnerBooks'
    BY <1>0, <1>10 DEF PrepareDrain, FillBatch, OwnerBooks, writerVars
  <1>11. ASSUME NEW w \in Workers, NEW n \in 0 .. BatchMax,
                NEW status \in {"continue", "blocked", "failed"},
                Write(w, n, status)
         PROVE  OwnerBooks'
    BY <1>0, <1>11 DEF Write, OwnerBooks, writerVars
  <1>12. ASSUME NEW w \in Workers, ScheduleDrain(w) PROVE OwnerBooks'
    BY <1>0, <1>12 DEF ScheduleDrain, Accept, Refuse, OwnerBooks, writerVars
  <1>13. ASSUME NEW w \in Workers, FailDrain(w) PROVE OwnerBooks'
    BY <1>0, <1>13 DEF FailDrain, OwnerBooks, writerVars
  <1>14. ASSUME NEW w \in Workers, EndDrain(w) PROVE OwnerBooks'
    BY <1>0, <1>14 DEF EndDrain, Unref, OwnerBooks, writerVars
  <1>15. ASSUME NEW w \in Workers, CloseMailbox(w) PROVE OwnerBooks'
    BY <1>0, <1>15 DEF CloseMailbox, OwnerBooks, writerVars
  <1>16. ASSUME NEW w \in Workers, CancelToken(w) PROVE OwnerBooks'
    BY <1>0, <1>16 DEF CancelToken, Unref, OwnerBooks, writerVars
  <1>17. ASSUME NEW l \in Lanes, EnterToNotify(l) PROVE OwnerBooks'
    BY <1>0, <1>17 DEF EnterToNotify, OwnerBooks, writerVars
  <1>18. ASSUME NEW l \in Lanes, PostNotification(l) PROVE OwnerBooks'
    BY <1>0, <1>18
       DEF PostNotification, Accept, Refuse, OwnerBooks, writerVars
  <1>19. ASSUME NEW l \in Lanes, LeaveNotify(l) PROVE OwnerBooks'
    BY <1>0, <1>19 DEF LeaveNotify, OwnerBooks, writerVars
  <1>20. ASSUME Open PROVE OwnerBooks'
    BY <1>0, <1>20 DEF Open, OwnerBooks, writerVars, OwnerType
  <1>21. ASSUME Unpublish PROVE OwnerBooks'
    BY <1>0, <1>21 DEF Unpublish, OwnerBooks, writerVars
  <1>22. ASSUME CloseGate PROVE OwnerBooks'
    BY <1>0, <1>22 DEF CloseGate, OwnerBooks, writerVars
  <1>23. ASSUME StopNative PROVE OwnerBooks'
    BY <1>0, <1>23 DEF StopNative, OwnerBooks, writerVars
  <1>24. ASSUME Discard PROVE OwnerBooks'
    BY <1>0, <1>24, RawWriterAssumption
       DEF Discard, OwnerBooks, writerVars, OwnerType
  <1>25. ASSUME BeginDestroy PROVE OwnerBooks'
    BY <1>0, <1>25 DEF BeginDestroy, OwnerBooks, writerVars
  <1>26. ASSUME NEW g \in Gens, DestroyOne(g) PROVE OwnerBooks'
    BY <1>0, <1>26 DEF DestroyOne, Unref, OwnerBooks, writerVars, OwnerType
  <1> QED
    BY <1>1, <1>2, <1>3, <1>4, <1>5, <1>6, <1>7, <1>8, <1>9, <1>10, <1>11,
       <1>12, <1>13, <1>14, <1>15, <1>16, <1>17, <1>18, <1>19, <1>20, <1>21,
       <1>22, <1>23, <1>24, <1>25, <1>26
       DEF Next, SendStep, DrainStep, NotifyStep, CloseStep, DestroyStep

(* A queue without duplicates, with one more token or with one less.       *)
LEMMA OnceMore ==
    ASSUME NEW q \in Seq(Gens), NEW g \in Gens, IsInjective(q), g \notin Range(q)
    PROVE  /\ IsInjective(Append(q, g))
           /\ Range(Append(q, g)) = Range(q) \cup {g}
  <1>1. /\ DOMAIN Append(q, g) = 1 .. Len(q) + 1
        /\ \A i \in 1 .. Len(q) : Append(q, g)[i] = q[i]
        /\ Append(q, g)[Len(q) + 1] = g
    OBVIOUS
  <1>2. DOMAIN q = 1 .. Len(q) /\ Len(q) \in Nat
    OBVIOUS
  <1>3. \A i \in 1 .. Len(q) : q[i] # g
    BY <1>2 DEF Range
  <1>4. IsInjective(Append(q, g))
    BY <1>1, <1>2, <1>3 DEF IsInjective
  <1>5. \A x : x \in Range(Append(q, g)) <=> x \in Range(q) \/ x = g
    BY <1>1, <1>2 DEF Range
  <1> QED
    BY <1>4, <1>5

(* A queue without duplicates, after its first token was taken.            *)
LEMMA OnceLess ==
    ASSUME NEW q \in Seq(Gens), q # << >>, IsInjective(q)
    PROVE  /\ IsInjective(Tail(q))
           /\ Range(Tail(q)) = Range(q) \ {Head(q)}
           /\ Head(q) \in Range(q)
  <1>1. /\ DOMAIN Tail(q) = 1 .. Len(q) - 1
        /\ \A i \in 1 .. Len(q) - 1 : Tail(q)[i] = q[i + 1]
    OBVIOUS
  <1>2. DOMAIN q = 1 .. Len(q) /\ Len(q) \in Nat /\ Len(q) > 0 /\ Head(q) = q[1]
    OBVIOUS
  <1>3. IsInjective(Tail(q))
    BY <1>1, <1>2 DEF IsInjective
  <1>4. \A x : x \in Range(Tail(q)) => x \in Range(q) /\ x # Head(q)
    BY <1>1, <1>2 DEF Range, IsInjective
  <1>5. ASSUME NEW x \in Range(q), x # Head(q) PROVE x \in Range(Tail(q))
    <2>1. PICK i \in 1 .. Len(q) : q[i] = x
      BY <1>2 DEF Range
    <2>2. i # 1
      BY <1>2, <1>5, <2>1
    <2>3. i - 1 \in 1 .. Len(q) - 1 /\ Tail(q)[i - 1] = x
      BY <1>1, <1>2, <2>1, <2>2
    <2> QED
      BY <1>1, <2>3 DEF Range
  <1>6. Head(q) \in Range(q)
    BY <1>2 DEF Range
  <1> QED
    BY <1>3, <1>4, <1>5, <1>6

(* What a step does to the tokens: none is new, but perhaps one.           *)
NoNewToken ==
    \A h \in Gens, v \in Workers : HasToken(h, v)' => HasToken(h, v)
OneNewToken(g, w) ==
    \A h \in Gens, v \in Workers :
       HasToken(h, v)' => HasToken(h, v) \/ (h = g /\ v = w)
TokensSame ==
    \A h \in Gens, v \in Workers : HasToken(h, v)' <=> HasToken(h, v)
TokenAdded(g, w) ==
    \A h \in Gens, v \in Workers :
       HasToken(h, v)' <=> HasToken(h, v) \/ (h = g /\ v = w)
TokenTaken(g, w) ==
    /\ HasToken(g, w)
    /\ \A h \in Gens, v \in Workers :
          HasToken(h, v)' <=> HasToken(h, v) /\ ~(h = g /\ v = w)
Apart == \A v \in Workers : TokenBooks(v)

(* A step that touches no queue of tokens.                                 *)
LEMMA QueuesStay ==
    ASSUME Books, mailbox' = mailbox, timed' = timed
    PROVE  Apart' /\ NoNewToken /\ TokensSame
  BY Facts1 DEF Apart, NoNewToken, TokensSame, HasToken, TokenBooks

(* A step that adds a token where the lane has none.                       *)
LEMMA QueueGains ==
    ASSUME Books, NEW w \in Workers, NEW g \in Gens, ~HasToken(g, w),
           \/ /\ mailbox' = [mailbox EXCEPT ![w] = Append(@, g)]
              /\ timed' = timed
           \/ /\ timed' = [timed EXCEPT ![w] = Append(@, g)]
              /\ mailbox' = mailbox
    PROVE  Apart' /\ OneNewToken(g, w) /\ TokenAdded(g, w)
  <1> DEFINE mq == mailbox[w]  tq == timed[w]
  <1>1. mq \in Seq(Gens) /\ tq \in Seq(Gens) /\ IsInjective(mq)
          /\ IsInjective(tq) /\ Range(mq) \cap Range(tq) = {}
    BY Facts1 DEF MailType, TokenBooks
  <1>2. g \notin Range(mq) /\ g \notin Range(tq)
    BY DEF HasToken
  <1>3. \A v \in Workers : v # w => mailbox'[v] = mailbox[v] /\ timed'[v] = timed[v]
    BY Facts1 DEF MailType
  <1>4. \/ mailbox'[w] = Append(mq, g) /\ timed'[w] = tq
        \/ timed'[w] = Append(tq, g) /\ mailbox'[w] = mq
    BY Facts1 DEF MailType
  <1> HIDE DEF mq, tq
  <1>5. /\ IsInjective(Append(mq, g)) /\ Range(Append(mq, g)) = Range(mq) \cup {g}
        /\ IsInjective(Append(tq, g)) /\ Range(Append(tq, g)) = Range(tq) \cup {g}
    BY <1>1, <1>2, OnceMore
  <1>6. TokenBooks(w)'
    BY <1>1, <1>2, <1>4, <1>5 DEF TokenBooks
  <1>7. \A v \in Workers : v # w => TokenBooks(v)'
    BY <1>3, Facts1 DEF TokenBooks
  <1>8. \A h \in Gens : HasToken(h, w)' <=> HasToken(h, w) \/ h = g
    BY <1>4, <1>5 DEF HasToken, mq, tq
  <1>9. \A h \in Gens, v \in Workers : v # w => (HasToken(h, v)' <=> HasToken(h, v))
    BY <1>3 DEF HasToken
  <1> QED
    BY <1>6, <1>7, <1>8, <1>9 DEF Apart, OneNewToken, TokenAdded

(* A step that takes the first token of a queue.                           *)
LEMMA QueueLoses ==
    ASSUME Books, NEW w \in Workers, NEW g \in Gens,
           \/ /\ mailbox[w] # << >> /\ g = Head(mailbox[w])
              /\ mailbox' = [mailbox EXCEPT ![w] = Tail(@)]
              /\ timed' = timed
           \/ /\ timed[w] # << >> /\ g = Head(timed[w])
              /\ timed' = [timed EXCEPT ![w] = Tail(@)]
              /\ mailbox' = mailbox
    PROVE  Apart' /\ NoNewToken /\ TokenTaken(g, w)
  <1> DEFINE mq == mailbox[w]  tq == timed[w]
  <1>1. mq \in Seq(Gens) /\ tq \in Seq(Gens) /\ IsInjective(mq)
          /\ IsInjective(tq) /\ Range(mq) \cap Range(tq) = {}
    BY Facts1 DEF MailType, TokenBooks
  <1>2. \A v \in Workers : v # w => mailbox'[v] = mailbox[v] /\ timed'[v] = timed[v]
    BY Facts1 DEF MailType
  <1>3. \/ mq # << >> /\ g = Head(mq) /\ mailbox'[w] = Tail(mq) /\ timed'[w] = tq
        \/ tq # << >> /\ g = Head(tq) /\ timed'[w] = Tail(tq) /\ mailbox'[w] = mq
    BY Facts1 DEF MailType
  <1> HIDE DEF mq, tq
  <1>4. mq # << >> => /\ IsInjective(Tail(mq)) /\ Head(mq) \in Range(mq)
                      /\ Range(Tail(mq)) = Range(mq) \ {Head(mq)}
    BY <1>1, OnceLess
  <1>5. tq # << >> => /\ IsInjective(Tail(tq)) /\ Head(tq) \in Range(tq)
                      /\ Range(Tail(tq)) = Range(tq) \ {Head(tq)}
    BY <1>1, OnceLess
  <1>6. TokenBooks(w)'
    BY <1>1, <1>3, <1>4, <1>5 DEF TokenBooks
  <1>7. \A v \in Workers : v # w => TokenBooks(v)'
    BY <1>2, Facts1 DEF TokenBooks
  <1>8. HasToken(g, w) /\ \A h \in Gens : HasToken(h, w)' <=> HasToken(h, w) /\ h # g
    BY <1>1, <1>3, <1>4, <1>5 DEF HasToken, mq, tq
  <1>9. \A h \in Gens, v \in Workers : v # w => (HasToken(h, v)' <=> HasToken(h, v))
    BY <1>2 DEF HasToken
  <1> QED
    BY <1>6, <1>7, <1>8, <1>9 DEF Apart, NoNewToken, TokenTaken

(* A timer that expires moves its token and adds none.                     *)
LEMMA TokenExpires ==
    ASSUME Books, NEW w \in Workers, Expire(w)
    PROVE  Apart' /\ NoNewToken /\ TokensSame
  <1> DEFINE mq == mailbox[w]  tq == timed[w]
  <1>1. mq \in Seq(Gens) /\ tq \in Seq(Gens) /\ IsInjective(mq)
          /\ IsInjective(tq) /\ Range(mq) \cap Range(tq) = {}
    BY Facts1 DEF MailType, TokenBooks
  <1>2. \A v \in Workers : v # w => mailbox'[v] = mailbox[v] /\ timed'[v] = timed[v]
    BY Facts1 DEF MailType, Expire
  <1>3. mailbox'[w] = Append(mq, Head(tq)) /\ timed'[w] = Tail(tq) /\ tq # << >>
    BY Facts1 DEF MailType, Expire
  <1> HIDE DEF mq, tq
  <1>4. /\ IsInjective(Tail(tq)) /\ Head(tq) \in Range(tq)
        /\ Range(Tail(tq)) = Range(tq) \ {Head(tq)}
    BY <1>1, <1>3, OnceLess
  <1>5. Head(tq) \in Gens /\ Head(tq) \notin Range(mq)
    BY <1>1, <1>3, <1>4
  <1>6. /\ IsInjective(Append(mq, Head(tq)))
        /\ Range(Append(mq, Head(tq))) = Range(mq) \cup {Head(tq)}
    BY <1>1, <1>5, OnceMore
  <1>7. TokenBooks(w)'
    BY <1>1, <1>3, <1>4, <1>6 DEF TokenBooks
  <1>8. \A v \in Workers : v # w => TokenBooks(v)'
    BY <1>2, Facts1 DEF TokenBooks
  <1>9. \A h \in Gens : HasToken(h, w)' <=> HasToken(h, w)
    BY <1>3, <1>4, <1>6 DEF HasToken, mq, tq
  <1>10. \A h \in Gens, v \in Workers : v # w => (HasToken(h, v)' <=> HasToken(h, v))
    BY <1>2 DEF HasToken
  <1> QED
    BY <1>7, <1>8, <1>9, <1>10 DEF Apart, NoNewToken, TokensSame

(* The drivers of the lanes, when a step arms nothing.                     *)
Driven == \A g \in Gens, v \in Workers : DriverBooks(g, v)
Arming == {"drain", "schedule", "write", "again", "retry"}

(* A worker that arms no driver leaves the others as they are.             *)
LEMMA WorkerArmsNothing ==
    ASSUME Books, NoNewToken, scheduled' = scheduled, notifier' = notifier,
           NEW w \in Workers,
           \A v \in Workers : v # w => pc'[v] = pc[v], pc'[w].at \notin Arming
    PROVE  Driven'
  <1>1. Driven
    BY Facts1 DEF Driven
  <1>2. ASSUME NEW g \in Gens PROVE DriverBooks(g, w)'
    BY <1>1 DEF Driven, DriverBooks, Notifying, NoNewToken, Arming
  <1>3. ASSUME NEW g \in Gens, NEW v \in Workers, v # w PROVE DriverBooks(g, v)'
    BY <1>1, <1>3 DEF Driven, DriverBooks, Notifying, NoNewToken
  <1> QED
    BY <1>2, <1>3 DEF Driven

(* So does a step of the native side that arms none.                       *)
LEMMA NobodyArms ==
    ASSUME Books, NoNewToken, scheduled' = scheduled, pc' = pc,
           \A k \in Lanes : Notifying(k)' => Notifying(k)
    PROVE  Driven'
  <1>1. Driven
    BY Facts1 DEF Driven
  <1>2. ASSUME NEW g \in Gens, NEW v \in Workers PROVE DriverBooks(g, v)'
    <2>1. Notifying(<<g, v>>)' => Notifying(<<g, v>>)
      BY DEF Lanes
    <2> QED
      BY <1>1, <2>1 DEF Driven, DriverBooks, NoNewToken
  <1> QED
    BY <1>2 DEF Driven

(* The driver of lane <<g, w>> moves on, and no other lane is touched.      *)
LEMMA LaneDriverMoves ==
    ASSUME Books, NEW w \in Workers, NEW g \in Gens, OneNewToken(g, w),
           \A l \in Lanes : l # <<g, w>> =>
              scheduled'[l] = scheduled[l] /\ notifier'[l] = notifier[l],
           \A v \in Workers : v # w => pc'[v] = pc[v],
           pc'[w].at \in Arming => pc'[w].g = g,
           DriverBooks(g, w)'
    PROVE  Driven'
  <1>1. Driven
    BY Facts1 DEF Driven
  <1>2. ASSUME NEW h \in Gens, NEW v \in Workers, <<h, v>> # <<g, w>>
        PROVE  DriverBooks(h, v)'
    <2>1. /\ scheduled'[<<h, v>>] = scheduled[<<h, v>>]
          /\ notifier'[<<h, v>>] = notifier[<<h, v>>]
      BY <1>2 DEF Lanes
    <2>2. HasToken(h, v)' => HasToken(h, v)
      BY <1>2 DEF OneNewToken
    <2>3. DriverBooks(h, v)
      BY <1>1 DEF Driven
    <2>4. CASE v # w
      <3>1. pc'[v] = pc[v]
        BY <2>4
      <3> QED
        BY <2>1, <2>2, <2>3, <3>1 DEF DriverBooks, Notifying
    <2>5. CASE v = w
      <3>1. h # g
        BY <1>2, <2>5
      <3> QED
        BY <2>1, <2>2, <2>3, <2>5, <3>1 DEF DriverBooks, Notifying, Arming
    <2> QED
      BY <2>4, <2>5
  <1> QED
    BY <1>2 DEF Driven

(* A lane never has two of: a token, a drain, a notification.              *)
LEMMA DriversKept ==
    ASSUME Books, Next, ~Over
    PROVE  Apart' /\ Driven'
  <1>0. /\ PlaceType /\ FlagType /\ MailType
        /\ \A v \in Workers : PlaceBooks(v) /\ TokenBooks(v)
        /\ \A g \in Gens, v \in Workers : DriverBooks(g, v)
    BY Facts1
  <1>1. ASSUME NEW w \in Workers, SelectGeneration(w) PROVE Apart' /\ Driven'
    <2>1. mailbox' = mailbox /\ timed' = timed
      BY <1>1 DEF SelectGeneration, queueVars
    <2>2. scheduled' = scheduled /\ notifier' = notifier
      BY <1>1 DEF SelectGeneration, laneVars, native
    <2>3. /\ \A v \in Workers : v # w => pc'[v] = pc[v]
          /\ pc'[w].at \notin Arming
      BY <1>0, <1>1 DEF SelectGeneration, PlaceType, Idle, Arming
    <2> QED
      BY <2>1, <2>2, <2>3, QueuesStay, WorkerArmsNothing
  <1>2. ASSUME NEW w \in Workers, EnterToSend(w) PROVE Apart' /\ Driven'
    <2>1. mailbox' = mailbox /\ timed' = timed
      BY <1>2 DEF EnterToSend, queueVars
    <2>2. scheduled' = scheduled /\ notifier' = notifier
      BY <1>2 DEF EnterToSend, laneVars, native
    <2>3. /\ \A v \in Workers : v # w => pc'[v] = pc[v]
          /\ pc'[w].at \notin Arming
      BY <1>0, <1>2 DEF EnterToSend, PlaceType, Idle, Arming
    <2> QED
      BY <2>1, <2>2, <2>3, QueuesStay, WorkerArmsNothing
  <1>3. ASSUME NEW w \in Workers, CheckLane(w) PROVE Apart' /\ Driven'
    <2>1. mailbox' = mailbox /\ timed' = timed
      BY <1>3 DEF CheckLane, queueVars
    <2>2. scheduled' = scheduled /\ notifier' = notifier
      BY <1>3 DEF CheckLane, laneVars, native
    <2>3. /\ \A v \in Workers : v # w => pc'[v] = pc[v]
          /\ pc'[w].at \notin Arming
      BY <1>0, <1>3 DEF CheckLane, PlaceType, Idle, Arming
    <2> QED
      BY <2>1, <2>2, <2>3, QueuesStay, WorkerArmsNothing
  <1>4. ASSUME NEW w \in Workers, Reserve(w) PROVE Apart' /\ Driven'
    <2>1. PICK g \in Gens : g = pc[w].g /\ <<g, w>> \in Lanes
      BY <1>4, InGens DEF Reserve
    <2>2. mailbox' = mailbox /\ timed' = timed
      BY <1>4 DEF Reserve, queueVars
    <2>3. scheduled' = scheduled /\ notifier' = notifier
      BY <1>4 DEF Reserve, native
    <2>4. /\ \A v \in Workers : v # w => pc'[v] = pc[v]
          /\ pc'[w].g = g /\ pc'[w].at \in {"leaveSend", "schedule"}
          /\ pc'[w].at = "schedule" => ~scheduled[<<g, w>>]
      BY <1>0, <1>4, <2>1 DEF Reserve, PlaceType
    <2>5. Apart' /\ NoNewToken
      BY <2>2, QueuesStay
    <2>6. OneNewToken(g, w)
      BY <2>5 DEF NoNewToken, OneNewToken
    <2>7. DriverBooks(g, w)'
      BY <1>0, <2>1, <2>3, <2>4, <2>5 DEF DriverBooks, Notifying, NoNewToken
    <2> QED
      BY <2>1, <2>3, <2>4, <2>5, <2>6, <2>7, LaneDriverMoves
  <1>5. ASSUME NEW w \in Workers, ScheduleSend(w) PROVE Apart' /\ Driven'
    <2>1. PICK g \in Gens : g = pc[w].g /\ <<g, w>> \in Lanes
      BY <1>5, InGens DEF ScheduleSend
    <2>2. DriverBooks(g, w) /\ ~scheduled[<<g, w>>]
      BY <1>0, <1>5, <2>1 DEF DriverBooks, ScheduleSend
    <2>3. ~HasToken(g, w) /\ ~Notifying(<<g, w>>)
      BY <2>2 DEF DriverBooks
    <2>4. \/ /\ \/ /\ mailbox' = [mailbox EXCEPT ![w] = Append(@, g)]
                   /\ timed' = timed
                \/ /\ timed' = [timed EXCEPT ![w] = Append(@, g)]
                   /\ mailbox' = mailbox
             /\ scheduled' = [scheduled EXCEPT ![<<g, w>>] = TRUE]
          \/ mailbox' = mailbox /\ timed' = timed /\ scheduled' = scheduled
      BY <1>5, <2>1 DEF ScheduleSend, Accept, Refuse
    <2>5. notifier' = notifier
      BY <1>5 DEF ScheduleSend, native
    <2>6. /\ \A v \in Workers : v # w => pc'[v] = pc[v]
          /\ pc'[w].at \notin Arming
      BY <1>0, <1>5 DEF ScheduleSend, Accept, Refuse, PlaceType, Arming
    <2>7. CASE /\ \/ /\ mailbox' = [mailbox EXCEPT ![w] = Append(@, g)]
                     /\ timed' = timed
                  \/ /\ timed' = [timed EXCEPT ![w] = Append(@, g)]
                     /\ mailbox' = mailbox
               /\ scheduled' = [scheduled EXCEPT ![<<g, w>>] = TRUE]
      <3>1. Apart' /\ OneNewToken(g, w)
        BY <2>1, <2>3, <2>7, QueueGains
      <3>2. /\ \A l \in Lanes : l # <<g, w>> => scheduled'[l] = scheduled[l]
            /\ scheduled'[<<g, w>>]
        BY <1>0, <2>1, <2>7 DEF FlagType
      <3>3. DriverBooks(g, w)'
        BY <2>3, <2>5, <2>6, <3>2 DEF DriverBooks, Notifying, Arming
      <3> QED
        BY <2>1, <2>5, <2>6, <3>1, <3>2, <3>3, LaneDriverMoves
    <2>8. CASE mailbox' = mailbox /\ timed' = timed /\ scheduled' = scheduled
      BY <2>5, <2>6, <2>8, QueuesStay, WorkerArmsNothing
    <2> QED
      BY <2>4, <2>7, <2>8
  <1>6. ASSUME NEW w \in Workers, UndoSend(w) PROVE Apart' /\ Driven'
    <2>1. mailbox' = mailbox /\ timed' = timed
      BY <1>6 DEF UndoSend, queueVars
    <2>2. scheduled' = scheduled /\ notifier' = notifier
      BY <1>6 DEF UndoSend, laneVars, native
    <2>3. /\ \A v \in Workers : v # w => pc'[v] = pc[v]
          /\ pc'[w].at \notin Arming
      BY <1>0, <1>6 DEF UndoSend, PlaceType, Idle, Arming
    <2> QED
      BY <2>1, <2>2, <2>3, QueuesStay, WorkerArmsNothing
  <1>7. ASSUME NEW w \in Workers, Leave(w) PROVE Apart' /\ Driven'
    <2>1. mailbox' = mailbox /\ timed' = timed
      BY <1>7 DEF Leave, queueVars
    <2>2. scheduled' = scheduled /\ notifier' = notifier
      BY <1>7 DEF Leave, laneVars, native
    <2>3. /\ \A v \in Workers : v # w => pc'[v] = pc[v]
          /\ pc'[w].at \notin Arming
      BY <1>0, <1>7 DEF Leave, PlaceType, Idle, Arming
    <2> QED
      BY <2>1, <2>2, <2>3, QueuesStay, WorkerArmsNothing
  <1>8. ASSUME NEW w \in Workers, Expire(w) PROVE Apart' /\ Driven'
    <2>1. Apart' /\ NoNewToken
      BY <1>8, TokenExpires
    <2>2. scheduled' = scheduled /\ pc' = pc /\ notifier' = notifier
      BY <1>8 DEF Expire, laneVars, native
    <2>3. \A k \in Lanes : Notifying(k)' => Notifying(k)
      BY <2>2 DEF Notifying
    <2> QED
      BY <2>1, <2>2, <2>3, NobodyArms
  <1>9. ASSUME NEW w \in Workers, BeginDrain(w) PROVE Apart' /\ Driven'
    <2>1. PICK g \in Gens :
             g = Head(mailbox[w]) /\ mailbox[w] # << >> /\ g \in Range(mailbox[w])
      BY <1>0, <1>9, OnceLess DEF BeginDrain, MailType, TokenBooks
    <2>2. mailbox' = [mailbox EXCEPT ![w] = Tail(@)] /\ timed' = timed
      BY <1>9 DEF BeginDrain
    <2>3. scheduled' = scheduled /\ notifier' = notifier
      BY <1>9 DEF BeginDrain, laneVars, native
    <2>4. /\ \A v \in Workers : v # w => pc'[v] = pc[v]
          /\ pc'[w].g = g /\ pc'[w].at \in {"drain", "unref"}
      BY <1>0, <1>9, <2>1 DEF BeginDrain, PlaceType
    <2>5. Apart' /\ NoNewToken /\ ~HasToken(g, w)'
      BY <2>1, <2>2, QueueLoses DEF TokenTaken
    <2>6. HasToken(g, w)
      BY <2>1 DEF HasToken
    <2>7. DriverBooks(g, w)'
      BY <1>0, <2>1, <2>3, <2>4, <2>5, <2>6 DEF DriverBooks, Notifying
    <2>8. OneNewToken(g, w)
      BY <2>5 DEF NoNewToken, OneNewToken
    <2> QED
      BY <2>1, <2>3, <2>4, <2>5, <2>7, <2>8, LaneDriverMoves
  <1>10. ASSUME NEW w \in Workers, PrepareDrain(w) PROVE Apart' /\ Driven'
    <2>1. PICK g \in Gens : g = pc[w].g /\ <<g, w>> \in Lanes
      BY <1>10, InGens DEF PrepareDrain
    <2>2. mailbox' = mailbox /\ timed' = timed
      BY <1>10 DEF PrepareDrain, queueVars
    <2>3. /\ scheduled' = [scheduled EXCEPT ![<<g, w>>] = FALSE]
          /\ notifier' = notifier
      BY <1>10, <2>1 DEF PrepareDrain, native
    <2>4. /\ \A v \in Workers : v # w => pc'[v] = pc[v]
          /\ pc'[w].g = g /\ pc'[w].at \in {"leaveDrain", "write"}
      BY <1>0, <1>10, <2>1 DEF PrepareDrain, PlaceType
    <2>5. Apart' /\ NoNewToken
      BY <2>2, QueuesStay
    <2>6. OneNewToken(g, w)
      BY <2>5 DEF NoNewToken, OneNewToken
    <2>7. DriverBooks(g, w) /\ At(w, "drain")
      BY <1>0, <1>10, <2>1 DEF PrepareDrain
    <2>8. ~HasToken(g, w) /\ ~Notifying(<<g, w>>)
      BY <2>1, <2>7 DEF DriverBooks
    <2>9. /\ \A l \in Lanes : l # <<g, w>> => scheduled'[l] = scheduled[l]
          /\ ~scheduled'[<<g, w>>]
      BY <1>0, <2>1, <2>3 DEF FlagType
    <2>10. DriverBooks(g, w)'
      BY <2>1, <2>3, <2>4, <2>5, <2>8, <2>9 DEF DriverBooks, Notifying, NoNewToken
    <2> QED
      BY <2>1, <2>3, <2>4, <2>5, <2>6, <2>9, <2>10, LaneDriverMoves
  <1>11. ASSUME NEW w \in Workers, NEW n \in 0 .. BatchMax,
                NEW status \in {"continue", "blocked", "failed"},
                Write(w, n, status)
         PROVE  Apart' /\ Driven'
    <2>1. PICK g \in Gens : g = pc[w].g /\ <<g, w>> \in Lanes
      BY <1>11, InGens DEF Write
    <2>2. mailbox' = mailbox /\ timed' = timed
      BY <1>11 DEF Write, queueVars
    <2>3. PICK awaits \in BOOLEAN :
             /\ scheduled' = [scheduled EXCEPT ![<<g, w>>] = awaits]
             /\ notifier' = [notifier EXCEPT ![<<g, w>>] =
                                IF awaits THEN "armed" ELSE @]
             /\ awaits = (status = "blocked" /\ delay = 0)
      BY <1>11, <2>1 DEF Write
    <2>4. /\ \A v \in Workers : v # w => pc'[v] = pc[v]
          /\ pc'[w].g = g
      BY <1>0, <1>11, <2>1 DEF Write, PlaceType
    <2>11. /\ pc'[w].at \notin {"drain", "schedule", "write"}
           /\ pc'[w].at \in {"again", "retry"} => ~awaits
      BY <1>11, <2>3, WriteGoesOn
    <2>5. Apart' /\ NoNewToken
      BY <2>2, QueuesStay
    <2>6. OneNewToken(g, w)
      BY <2>5 DEF NoNewToken, OneNewToken
    <2>7. DriverBooks(g, w) /\ At(w, "write")
      BY <1>0, <1>11, <2>1 DEF Write
    <2>8. ~HasToken(g, w) /\ ~Notifying(<<g, w>>)
      BY <2>1, <2>7 DEF DriverBooks
    <2>9. /\ \A l \in Lanes : l # <<g, w>> =>
                scheduled'[l] = scheduled[l] /\ notifier'[l] = notifier[l]
          /\ scheduled'[<<g, w>>] = awaits
          /\ ~awaits => notifier'[<<g, w>>] = notifier[<<g, w>>]
      BY <1>0, <2>1, <2>3 DEF FlagType
    <2>10. DriverBooks(g, w)'
      BY <2>1, <2>4, <2>5, <2>8, <2>9, <2>11 DEF DriverBooks, Notifying, NoNewToken
    <2> QED
      BY <2>1, <2>4, <2>5, <2>6, <2>9, <2>10, LaneDriverMoves DEF Arming
  <1>12. ASSUME NEW w \in Workers, ScheduleDrain(w) PROVE Apart' /\ Driven'
    <2>1. PICK g \in Gens : g = pc[w].g /\ <<g, w>> \in Lanes
      BY <1>12, InGens DEF ScheduleDrain
    <2>2. DriverBooks(g, w) /\ ~scheduled[<<g, w>>]
      BY <1>0, <1>12, <2>1 DEF DriverBooks, ScheduleDrain
    <2>3. ~HasToken(g, w) /\ ~Notifying(<<g, w>>)
      BY <2>2 DEF DriverBooks
    <2>4. \/ /\ \/ /\ mailbox' = [mailbox EXCEPT ![w] = Append(@, g)]
                   /\ timed' = timed
                \/ /\ timed' = [timed EXCEPT ![w] = Append(@, g)]
                   /\ mailbox' = mailbox
             /\ scheduled' = [scheduled EXCEPT ![<<g, w>>] = TRUE]
          \/ mailbox' = mailbox /\ timed' = timed /\ scheduled' = scheduled
      BY <1>12, <2>1 DEF ScheduleDrain, Accept, Refuse
    <2>5. notifier' = notifier
      BY <1>12 DEF ScheduleDrain, native
    <2>6. /\ \A v \in Workers : v # w => pc'[v] = pc[v]
          /\ pc'[w].at \notin Arming
      BY <1>0, <1>12 DEF ScheduleDrain, Accept, Refuse, PlaceType, Arming
    <2>7. CASE /\ \/ /\ mailbox' = [mailbox EXCEPT ![w] = Append(@, g)]
                     /\ timed' = timed
                  \/ /\ timed' = [timed EXCEPT ![w] = Append(@, g)]
                     /\ mailbox' = mailbox
               /\ scheduled' = [scheduled EXCEPT ![<<g, w>>] = TRUE]
      <3>1. Apart' /\ OneNewToken(g, w)
        BY <2>1, <2>3, <2>7, QueueGains
      <3>2. /\ \A l \in Lanes : l # <<g, w>> => scheduled'[l] = scheduled[l]
            /\ scheduled'[<<g, w>>]
        BY <1>0, <2>1, <2>7 DEF FlagType
      <3>3. DriverBooks(g, w)'
        BY <2>3, <2>5, <2>6, <3>2 DEF DriverBooks, Notifying, Arming
      <3> QED
        BY <2>1, <2>5, <2>6, <3>1, <3>2, <3>3, LaneDriverMoves
    <2>8. CASE mailbox' = mailbox /\ timed' = timed /\ scheduled' = scheduled
      BY <2>5, <2>6, <2>8, QueuesStay, WorkerArmsNothing
    <2> QED
      BY <2>4, <2>7, <2>8
  <1>13. ASSUME NEW w \in Workers, FailDrain(w) PROVE Apart' /\ Driven'
    <2>1. mailbox' = mailbox /\ timed' = timed
      BY <1>13 DEF FailDrain, queueVars
    <2>2. scheduled' = scheduled /\ notifier' = notifier
      BY <1>13 DEF FailDrain, laneVars, native
    <2>3. /\ \A v \in Workers : v # w => pc'[v] = pc[v]
          /\ pc'[w].at \notin Arming
      BY <1>0, <1>13 DEF FailDrain, PlaceType, Idle, Arming
    <2> QED
      BY <2>1, <2>2, <2>3, QueuesStay, WorkerArmsNothing
  <1>14. ASSUME NEW w \in Workers, EndDrain(w) PROVE Apart' /\ Driven'
    <2>1. mailbox' = mailbox /\ timed' = timed
      BY <1>14 DEF EndDrain, Unref, queueVars
    <2>2. scheduled' = scheduled /\ notifier' = notifier
      BY <1>14 DEF EndDrain, Unref, laneVars, native
    <2>3. /\ \A v \in Workers : v # w => pc'[v] = pc[v]
          /\ pc'[w].at \notin Arming
      BY <1>0, <1>14 DEF EndDrain, Unref, PlaceType, Idle, Arming
    <2> QED
      BY <2>1, <2>2, <2>3, QueuesStay, WorkerArmsNothing
  <1>15. ASSUME NEW w \in Workers, CloseMailbox(w) PROVE Apart' /\ Driven'
    <2>1. mailbox' = mailbox /\ timed' = timed
      BY <1>15 DEF CloseMailbox, queueVars
    <2>2. scheduled' = scheduled /\ pc' = pc
      BY <1>15 DEF CloseMailbox, laneVars
    <2>3. \A k \in Lanes : Notifying(k)' => Notifying(k)
      BY <1>0, <1>15 DEF CloseMailbox, native, Notifying, FlagType
    <2> QED
      BY <2>1, <2>2, <2>3, QueuesStay, NobodyArms
  <1>16. ASSUME NEW w \in Workers, CancelToken(w) PROVE Apart' /\ Driven'
    <2>1. Apart' /\ NoNewToken
      <3>1. PICK g \in Gens :
               \/ /\ mailbox[w] # << >> /\ g = Head(mailbox[w])
                  /\ mailbox' = [mailbox EXCEPT ![w] = Tail(@)]
                  /\ timed' = timed
               \/ /\ timed[w] # << >> /\ g = Head(timed[w])
                  /\ timed' = [timed EXCEPT ![w] = Tail(@)]
                  /\ mailbox' = mailbox
        BY <1>16 DEF CancelToken
      <3> QED
        BY <3>1, QueueLoses
    <2>2. scheduled' = scheduled /\ pc' = pc /\ notifier' = notifier
      BY <1>16 DEF CancelToken, native
    <2>3. \A k \in Lanes : Notifying(k)' => Notifying(k)
      BY <2>2 DEF Notifying
    <2> QED
      BY <2>1, <2>2, <2>3, NobodyArms
  <1>17. ASSUME NEW l \in Lanes, EnterToNotify(l) PROVE Apart' /\ Driven'
    <2>1. mailbox' = mailbox /\ timed' = timed
      BY <1>17 DEF EnterToNotify, queueVars
    <2>2. scheduled' = scheduled /\ pc' = pc
      BY <1>17 DEF EnterToNotify, laneVars
    <2>3. \A k \in Lanes : Notifying(k)' => Notifying(k)
      BY <1>0, <1>17 DEF EnterToNotify, native, Notifying, FlagType
    <2> QED
      BY <2>1, <2>2, <2>3, QueuesStay, NobodyArms
  <1>18. ASSUME NEW l \in Lanes, PostNotification(l) PROVE Apart' /\ Driven'
    <2>1. PICK g \in Gens, w \in Workers : l = <<g, w>>
      BY DEF Lanes
    <2>2. DriverBooks(g, w) /\ Notifying(<<g, w>>)
      BY <1>0, <1>18, <2>1 DEF PostNotification, Notifying
    <2>3. ~HasToken(g, w) /\ scheduled[<<g, w>>] /\ ~(At(w, "drain") /\ pc[w].g = g)
      BY <2>2 DEF DriverBooks
    <2>4. \/ /\ mailbox' = [mailbox EXCEPT ![w] = Append(@, g)]
             /\ timed' = timed
          \/ mailbox' = mailbox /\ timed' = timed
      BY <1>18, <2>1 DEF PostNotification, Accept, Refuse
    <2>5. Apart' /\ OneNewToken(g, w)
      <3>1. CASE /\ mailbox' = [mailbox EXCEPT ![w] = Append(@, g)]
                 /\ timed' = timed
        BY <2>3, <3>1, QueueGains
      <3>2. CASE mailbox' = mailbox /\ timed' = timed
        BY <3>2, QueuesStay DEF NoNewToken, OneNewToken
      <3> QED
        BY <2>4, <3>1, <3>2
    <2>6. /\ scheduled' = scheduled /\ pc' = pc
          /\ notifier' = [notifier EXCEPT ![<<g, w>>] = "none"]
      BY <1>18, <2>1 DEF PostNotification
    <2>7. /\ \A k \in Lanes : k # <<g, w>> => notifier'[k] = notifier[k]
          /\ notifier'[<<g, w>>] = "none"
      BY <1>0, <2>1, <2>6 DEF FlagType
    <2>8. DriverBooks(g, w)'
      BY <2>2, <2>3, <2>6, <2>7 DEF DriverBooks, Notifying
    <2>9. ASSUME NEW h \in Gens, NEW v \in Workers, <<h, v>> # <<g, w>>
          PROVE  DriverBooks(h, v)'
      <3>1. HasToken(h, v)' => HasToken(h, v)
        BY <2>5, <2>9 DEF OneNewToken
      <3>2. notifier'[<<h, v>>] = notifier[<<h, v>>]
        BY <2>7, <2>9 DEF Lanes
      <3> QED
        BY <1>0, <2>6, <3>1, <3>2 DEF DriverBooks, Notifying
    <2> QED
      BY <2>5, <2>8, <2>9 DEF Driven
  <1>19. ASSUME NEW l \in Lanes, LeaveNotify(l) PROVE Apart' /\ Driven'
    <2>1. mailbox' = mailbox /\ timed' = timed
      BY <1>19 DEF LeaveNotify, queueVars
    <2>2. scheduled' = scheduled /\ pc' = pc
      BY <1>19 DEF LeaveNotify, laneVars
    <2>3. \A k \in Lanes : Notifying(k)' => Notifying(k)
      BY <1>0, <1>19 DEF LeaveNotify, native, Notifying, FlagType
    <2> QED
      BY <2>1, <2>2, <2>3, QueuesStay, NobodyArms
  <1>20. ASSUME Open PROVE Apart' /\ Driven'
    <2>1. mailbox' = mailbox /\ timed' = timed
      BY <1>20 DEF Open, queueVars
    <2>2. scheduled' = scheduled /\ pc' = pc
      BY <1>20 DEF Open, laneVars
    <2>3. \A k \in Lanes : Notifying(k)' => Notifying(k)
      BY <1>0, <1>20 DEF Open, native, Notifying, FlagType
    <2> QED
      BY <2>1, <2>2, <2>3, QueuesStay, NobodyArms
  <1>21. ASSUME Unpublish PROVE Apart' /\ Driven'
    <2>1. mailbox' = mailbox /\ timed' = timed
      BY <1>21 DEF Unpublish, queueVars
    <2>2. scheduled' = scheduled /\ pc' = pc
      BY <1>21 DEF Unpublish, laneVars
    <2>3. \A k \in Lanes : Notifying(k)' => Notifying(k)
      BY <1>0, <1>21 DEF Unpublish, native, Notifying, FlagType
    <2> QED
      BY <2>1, <2>2, <2>3, QueuesStay, NobodyArms
  <1>22. ASSUME CloseGate PROVE Apart' /\ Driven'
    <2>1. mailbox' = mailbox /\ timed' = timed
      BY <1>22 DEF CloseGate, queueVars
    <2>2. scheduled' = scheduled /\ pc' = pc
      BY <1>22 DEF CloseGate, laneVars
    <2>3. \A k \in Lanes : Notifying(k)' => Notifying(k)
      BY <1>0, <1>22 DEF CloseGate, native, Notifying, FlagType
    <2> QED
      BY <2>1, <2>2, <2>3, QueuesStay, NobodyArms
  <1>23. ASSUME StopNative PROVE Apart' /\ Driven'
    <2>1. mailbox' = mailbox /\ timed' = timed
      BY <1>23 DEF StopNative, queueVars
    <2>2. scheduled' = scheduled /\ pc' = pc
      BY <1>23 DEF StopNative, laneVars
    <2>3. \A k \in Lanes : Notifying(k)' => Notifying(k)
      BY <1>0, <1>23 DEF StopNative, native, Notifying, FlagType
    <2> QED
      BY <2>1, <2>2, <2>3, QueuesStay, NobodyArms
  <1>24. ASSUME Discard PROVE Apart' /\ Driven'
    <2>1. mailbox' = mailbox /\ timed' = timed
      BY <1>24 DEF Discard, queueVars
    <2>2. scheduled' = scheduled /\ pc' = pc
      BY <1>24 DEF Discard, laneVars
    <2>3. \A k \in Lanes : Notifying(k)' => Notifying(k)
      BY <1>0, <1>24 DEF Discard, native, Notifying, FlagType
    <2> QED
      BY <2>1, <2>2, <2>3, QueuesStay, NobodyArms
  <1>25. ASSUME BeginDestroy PROVE Apart' /\ Driven'
    <2>1. mailbox' = mailbox /\ timed' = timed
      BY <1>25 DEF BeginDestroy, queueVars
    <2>2. scheduled' = scheduled /\ pc' = pc
      BY <1>25 DEF BeginDestroy, laneVars
    <2>3. \A k \in Lanes : Notifying(k)' => Notifying(k)
      BY <1>0, <1>25 DEF BeginDestroy, native, Notifying, FlagType
    <2> QED
      BY <2>1, <2>2, <2>3, QueuesStay, NobodyArms
  <1>26. ASSUME NEW g \in Gens, DestroyOne(g) PROVE Apart' /\ Driven'
    <2>1. mailbox' = mailbox /\ timed' = timed
      BY <1>26 DEF DestroyOne, Unref, queueVars
    <2>2. scheduled' = scheduled /\ pc' = pc
      BY <1>26 DEF DestroyOne, Unref, laneVars
    <2>3. \A k \in Lanes : Notifying(k)' => Notifying(k)
      BY <1>0, <1>26 DEF DestroyOne, Unref, native, Notifying, FlagType
    <2> QED
      BY <2>1, <2>2, <2>3, QueuesStay, NobodyArms
  <1> QED
    BY <1>1, <1>2, <1>3, <1>4, <1>5, <1>6, <1>7, <1>8, <1>9, <1>10, <1>11,
       <1>12, <1>13, <1>14, <1>15, <1>16, <1>17, <1>18, <1>19, <1>20, <1>21,
       <1>22, <1>23, <1>24, <1>25, <1>26
       DEF Next, SendStep, DrainStep, NotifyStep, CloseStep, DestroyStep

(* Who is inside a gate.                                                   *)
Count(g) ==
    Cardinality(Admitted(g)) + Cardinality(Notified(g)) + Cardinality(Leaving(g))

LeavingFrom(g) == [w \in Workers |-> leaving[<<g, w>>]]

(* The three parts of the gate's count are finite.                         *)
LEMMA CountParts ==
    ASSUME Books, NEW g \in Gens
    PROVE  /\ IsFiniteSet(Admitted(g)) /\ Cardinality(Admitted(g)) \in Nat
           /\ IsFiniteSet(Notified(g)) /\ Cardinality(Notified(g)) \in Nat
           /\ IsFiniteSet(Leaving(g)) /\ Cardinality(Leaving(g)) \in Nat
           /\ inside[g] = Count(g)
  <1>1. IsFiniteSet(Admitted(g)) /\ IsFiniteSet(Notified(g))
    <2>1. Admitted(g) \subseteq Workers /\ Notified(g) \subseteq Workers
      BY DEF Admitted, Notified
    <2> QED
      BY <2>1, FS_Subset, RawWriterAssumption
  <1>2. IsFiniteSet(Leaving(g))
    <2>1. LeavingFrom(g) \in [Workers -> Nat]
      BY Facts1 DEF FlagType, Lanes, LeavingFrom
    <2>2. Leaving(g) = Items(LeavingFrom(g))
      BY DEF Leaving, Items, LeavingFrom
    <2> QED
      BY <2>1, <2>2, ItemsFinite
  <1>3. inside[g] = Count(g)
    BY Facts1 DEF GateBooks, Count
  <1> QED
    BY <1>1, <1>2, <1>3, FS_CardinalityType

(* Whoever is inside keeps the generation from being discarded.            *)
LEMMA InsideIsCurrent ==
    ASSUME Books, NEW w \in Workers,
           pc[w].at \notin {"idle", "enter", "unref"}
    PROVE  /\ pc[w].g \in Gens /\ inside[pc[w].g] > 0
           /\ pc[w].g = current /\ owner # "discard"
  <1>1. PICK g \in Gens : g = pc[w].g
    BY InGens
  <1>2. w \in Admitted(g)
    BY <1>1 DEF Admitted
  <1>3. Cardinality(Admitted(g)) > 0
    BY <1>2, CountParts, FS_EmptySet
  <1>4. inside[g] > 0
    BY <1>3, CountParts DEF Count
  <1>5. inside[g] # 0
    BY <1>4
  <1> QED
    BY <1>1, <1>4, <1>5, Facts1 DEF GateBooks

(* One worker moves.                                                       *)
LEMMA WorkerMoves ==
    ASSUME Books, NEW w \in Workers, NEW g \in Gens,
           \A v \in Workers : v # w => pc'[v] = pc[v],
           Notified(g)' = Notified(g), leaving' = leaving
    PROVE  /\ (w \in Admitted(g) <=> w \in Admitted(g)') => Count(g)' = Count(g)
           /\ w \notin Admitted(g) /\ w \in Admitted(g)' => Count(g)' = Count(g) + 1
           /\ w \in Admitted(g) /\ w \notin Admitted(g)' => Count(g)' = Count(g) - 1
  <1> DEFINE A == Admitted(g)  B == Admitted(g)'
  <1>1. \A v \in Workers : v # w => (v \in B <=> v \in A)
    BY DEF Admitted
  <1>2. A \subseteq Workers /\ B \subseteq Workers
    BY DEF Admitted
  <1>3. IsFiniteSet(A) /\ Cardinality(A) \in Nat
    BY CountParts
  <1>4. Leaving(g)' = Leaving(g)
    BY DEF Leaving
  <1>5. /\ Count(g) = Cardinality(A) + Cardinality(Notified(g)) + Cardinality(Leaving(g))
        /\ Count(g)' = Cardinality(B) + Cardinality(Notified(g)) + Cardinality(Leaving(g))
    BY <1>4 DEF Count
  <1> HIDE DEF A, B
  <1>6. (w \in A <=> w \in B) => B = A
    BY <1>1, <1>2
  <1>7. w \notin A /\ w \in B => Cardinality(B) = Cardinality(A) + 1
    <2>1. w \notin A /\ w \in B => B = A \cup {w}
      BY <1>1, <1>2
    <2> QED
      BY <1>3, <2>1, FS_AddElement
  <1>8. w \in A /\ w \notin B => Cardinality(B) = Cardinality(A) - 1
    <2>1. w \in A /\ w \notin B => B = A \ {w}
      BY <1>1, <1>2
    <2> QED
      BY <1>3, <2>1, FS_RemoveElement
  <1>9. /\ Cardinality(A) \in Nat /\ Cardinality(Notified(g)) \in Nat
        /\ Cardinality(Leaving(g)) \in Nat
    BY <1>3, CountParts
  <1>10. (w \in A <=> w \in B) => Count(g)' = Count(g)
    BY <1>5, <1>6
  <1>11. w \notin A /\ w \in B => Count(g)' = Count(g) + 1
    BY <1>5, <1>7, <1>9
  <1>12. w \in A /\ w \notin B => Count(g)' = Count(g) - 1
    BY <1>5, <1>8, <1>9
  <1> QED
    BY <1>10, <1>11, <1>12 DEF A, B

(* A step that nobody enters or leaves by keeps the count.                 *)
LEMMA NobodyMoves ==
    ASSUME Books, NEW g \in Gens, pc' = pc, Notified(g)' = Notified(g),
           leaving' = leaving
    PROVE  Count(g)' = Count(g)
  BY DEF Count, Admitted, Leaving

(* A notification enters the gate, posts and leaves.                       *)
LEMMA NotificationEnters ==
    ASSUME Books, NEW g \in Gens, NEW w \in Workers, NEW a, pc' = pc,
           leaving' = leaving, notifier[<<g, w>>] # "inside",
           notifier' = [notifier EXCEPT ![<<g, w>>] = a]
    PROVE  /\ a = "inside" => Count(g)' = Count(g) + 1
           /\ a # "inside" => Count(g)' = Count(g)
           /\ \A h \in Gens : h # g => Count(h)' = Count(h)
  <1>1. \A h \in Gens, v \in Workers : <<h, v>> # <<g, w>> =>
           notifier'[<<h, v>>] = notifier[<<h, v>>]
    BY Facts1 DEF FlagType, Lanes
  <1>2. notifier'[<<g, w>>] = a
    BY Facts1 DEF FlagType, Lanes
  <1>3. \A h \in Gens : Admitted(h)' = Admitted(h) /\ Leaving(h)' = Leaving(h)
    BY DEF Admitted, Leaving
  <1>4. \A h \in Gens : h # g => Notified(h)' = Notified(h)
    BY <1>1 DEF Notified
  <1>5. a # "inside" => Notified(g)' = Notified(g)
    BY <1>1, <1>2 DEF Notified
  <1>6. w \notin Notified(g)
    BY DEF Notified
  <1>7. a = "inside" => Notified(g)' = Notified(g) \cup {w}
    BY <1>1, <1>2 DEF Notified
  <1>8. a = "inside" => Cardinality(Notified(g)') = Cardinality(Notified(g)) + 1
    BY <1>6, <1>7, CountParts, FS_AddElement
  <1>9. a = "inside" => Count(g)' = Count(g) + 1
    BY <1>3, <1>8, CountParts DEF Count
  <1>10. \A h \in Gens : h # g => Count(h)' = Count(h)
    BY <1>3, <1>4 DEF Count
  <1>11. a # "inside" => Count(g)' = Count(g)
    BY <1>3, <1>5 DEF Count
  <1> QED
    BY <1>9, <1>10, <1>11

(* A notification that posts its token is still inside,                    *)
LEMMA NotificationPosts ==
    ASSUME Books, NEW g \in Gens, NEW w \in Workers, pc' = pc,
           notifier[<<g, w>>] = "inside",
           notifier' = [notifier EXCEPT ![<<g, w>>] = "none"],
           leaving' = [leaving EXCEPT ![<<g, w>>] = @ + 1]
    PROVE  \A h \in Gens : Count(h)' = Count(h)
  <1> DEFINE x == <<w, leaving[<<g, w>>] + 1>>
  <1>1. /\ \A h \in Gens, v \in Workers : <<h, v>> # <<g, w>> =>
              /\ notifier'[<<h, v>>] = notifier[<<h, v>>]
              /\ leaving'[<<h, v>>] = leaving[<<h, v>>]
        /\ notifier'[<<g, w>>] = "none"
        /\ leaving'[<<g, w>>] = leaving[<<g, w>>] + 1
        /\ leaving[<<g, w>>] \in Nat
    BY Facts1 DEF FlagType, Lanes
  <1>2. \A h \in Gens : Admitted(h)' = Admitted(h)
    BY DEF Admitted
  <1>3. \A h \in Gens : h # g => Notified(h)' = Notified(h) /\ Leaving(h)' = Leaving(h)
    BY <1>1 DEF Notified, Leaving
  <1>4. w \in Notified(g) /\ Notified(g)' = Notified(g) \ {w}
    BY <1>1 DEF Notified
  <1>5. x \notin Leaving(g) /\ Leaving(g)' = Leaving(g) \cup {x}
    <2> DEFINE f == LeavingFrom(g)  e == LeavingFrom(g)'
    <2>1. /\ f \in [Workers -> Nat] /\ e \in [Workers -> Nat]
          /\ e[w] = f[w] + 1 /\ e[w] = leaving[<<g, w>>] + 1
          /\ \A v \in Workers : v # w => e[v] = f[v]
      BY <1>1, Facts1 DEF FlagType, Lanes, LeavingFrom
    <2>2. Leaving(g) = Items(f) /\ Leaving(g)' = Items(e)
      BY DEF Leaving, Items, LeavingFrom
    <2> HIDE DEF f, e
    <2> QED
      BY <2>1, <2>2, OneItemMore
  <1> HIDE DEF x
  <1>6. Cardinality(Notified(g)') = Cardinality(Notified(g)) - 1
    BY <1>4, CountParts, FS_RemoveElement
  <1>7. Cardinality(Leaving(g)') = Cardinality(Leaving(g)) + 1
    BY <1>5, CountParts, FS_AddElement
  <1>8. Count(g)' = Count(g)
    BY <1>2, <1>6, <1>7, CountParts DEF Count
  <1>9. \A h \in Gens : h # g => Count(h)' = Count(h)
    BY <1>2, <1>3 DEF Count
  <1> QED
    BY <1>8, <1>9

(* until it leaves the gate.                                               *)
LEMMA NotificationLeaves ==
    ASSUME Books, NEW g \in Gens, NEW w \in Workers, pc' = pc,
           notifier' = notifier, leaving[<<g, w>>] > 0,
           leaving' = [leaving EXCEPT ![<<g, w>>] = @ - 1]
    PROVE  /\ Count(g)' = Count(g) - 1 /\ Count(g) > 0
           /\ \A h \in Gens : h # g => Count(h)' = Count(h)
  <1> DEFINE x == <<w, leaving[<<g, w>>]>>
  <1>1. /\ \A h \in Gens, v \in Workers : <<h, v>> # <<g, w>> =>
              leaving'[<<h, v>>] = leaving[<<h, v>>]
        /\ leaving'[<<g, w>>] = leaving[<<g, w>>] - 1
        /\ leaving[<<g, w>>] \in Nat
    BY Facts1 DEF FlagType, Lanes
  <1>2. \A h \in Gens : Admitted(h)' = Admitted(h) /\ Notified(h)' = Notified(h)
    BY DEF Admitted, Notified
  <1>3. \A h \in Gens : h # g => Leaving(h)' = Leaving(h)
    BY <1>1 DEF Leaving
  <1>4. x \in Leaving(g) /\ Leaving(g)' = Leaving(g) \ {x}
    <2> DEFINE f == LeavingFrom(g)  e == LeavingFrom(g)'
    <2>1. /\ f \in [Workers -> Nat] /\ e \in [Workers -> Nat]
          /\ f[w] = e[w] + 1 /\ f[w] = leaving[<<g, w>>]
          /\ \A v \in Workers : v # w => f[v] = e[v]
      BY <1>1, Facts1 DEF FlagType, Lanes, LeavingFrom
    <2>2. Leaving(g) = Items(f) /\ Leaving(g)' = Items(e)
      BY DEF Leaving, Items, LeavingFrom
    <2> HIDE DEF f, e
    <2>3. x \notin Items(e) /\ Items(f) = Items(e) \cup {x}
      BY <2>1, OneItemMore
    <2> QED
      BY <2>2, <2>3
  <1> HIDE DEF x
  <1>5. /\ Cardinality(Leaving(g)') = Cardinality(Leaving(g)) - 1
        /\ Cardinality(Leaving(g)') \in Nat
    BY <1>4, CountParts, FS_RemoveElement, FS_CardinalityType
  <1>6. Count(g)' = Count(g) - 1 /\ Count(g) > 0
    BY <1>2, <1>5, CountParts DEF Count
  <1>7. \A h \in Gens : h # g => Count(h)' = Count(h)
    BY <1>2, <1>3 DEF Count
  <1> QED
    BY <1>6, <1>7

(* The count stays exact: whoever steps in is counted, and leaves once.     *)
Exact == \A h \in Gens : inside[h] = Count(h)

(* The gate's count is exact after every step.                             *)
LEMMA ExactKept ==
    ASSUME Books, Next, ~Over
    PROVE  Exact'
  <1>0. /\ PlaceType /\ FlagType /\ MailType /\ GenType /\ Exact
        /\ \A v \in Workers : PlaceBooks(v)
    BY Facts1, CountParts DEF Exact
  <1>1. ASSUME NEW w \in Workers, SelectGeneration(w) PROVE Exact'
    <2>1. /\ inside' = inside /\ notifier' = notifier /\ leaving' = leaving
          /\ \A v \in Workers : v # w => pc'[v] = pc[v]
      BY <1>0, <1>1 DEF SelectGeneration, PlaceType, native, genVars
    <2>2. \A h \in Gens : w \in Admitted(h) <=> w \in Admitted(h)'
      BY <1>0, <1>1
         DEF SelectGeneration, Admitted, PlaceType, PlaceBooks, Idle, Gens
    <2>3. \A h \in Gens : Notified(h)' = Notified(h)
      BY <2>1 DEF Notified
    <2> QED
      BY <1>0, <2>1, <2>2, <2>3, WorkerMoves DEF Exact
  <1>2. ASSUME NEW w \in Workers, EnterToSend(w) PROVE Exact'
    <2>1. PICK g \in Gens : g = pc[w].g
      BY <1>2, InGens DEF EnterToSend
    <2>2. /\ notifier' = notifier /\ leaving' = leaving
          /\ \A v \in Workers : v # w => pc'[v] = pc[v]
      BY <1>0, <1>2, <2>1 DEF EnterToSend, PlaceType, native
    <2>3. \A h \in Gens : Notified(h)' = Notified(h)
      BY <2>2 DEF Notified
    <2>4. \A h \in Gens : w \notin Admitted(h)
      BY <1>0, <1>2 DEF EnterToSend, Admitted, PlaceBooks, Gens
    <2>5. CASE open[g]
      <3>1. inside' = [inside EXCEPT ![g] = @ + 1]
        BY <1>0, <1>2, <2>1, <2>5 DEF EnterToSend, GenType
      <3>2. pc'[w].g = g /\ pc'[w].at = "check"
        BY <1>0, <1>2, <2>1, <2>5 DEF EnterToSend, PlaceType
      <3>3. \A h \in Gens : w \in Admitted(h)' <=> h = g
        BY <3>2 DEF Admitted
      <3>4. inside'[g] = Count(g)'
        BY <1>0, <2>2, <2>3, <2>4, <3>1, <3>3, WorkerMoves DEF Exact, GenType
      <3>5. \A h \in Gens : h # g => inside'[h] = Count(h)'
        BY <1>0, <2>2, <2>3, <2>4, <3>1, <3>3, WorkerMoves DEF Exact, GenType
      <3> QED
        BY <3>4, <3>5 DEF Exact
    <2>6. CASE ~open[g]
      <3>1. inside' = inside
        BY <1>0, <1>2, <2>1, <2>6 DEF EnterToSend, GenType
      <3>2. pc'[w].at = "unref" \/ pc'[w].g = 0
        BY <1>0, <1>2, <2>1, <2>6 DEF EnterToSend, PlaceType, Idle
      <3>3. \A h \in Gens : w \notin Admitted(h)'
        BY <3>2 DEF Admitted, Gens
      <3> QED
        BY <1>0, <2>2, <2>3, <2>4, <3>1, <3>3, WorkerMoves DEF Exact
    <2> QED
      BY <2>5, <2>6
  <1>3. ASSUME NEW w \in Workers, CheckLane(w) PROVE Exact'
    <2>1. /\ inside' = inside /\ notifier' = notifier /\ leaving' = leaving
          /\ \A v \in Workers : v # w => pc'[v] = pc[v]
      BY <1>0, <1>3 DEF CheckLane, PlaceType, native, genVars
    <2>2. \A h \in Gens : w \in Admitted(h) <=> w \in Admitted(h)'
      BY <1>0, <1>3 DEF CheckLane, Admitted, PlaceType, PlaceBooks, Idle, Gens
    <2>3. \A h \in Gens : Notified(h)' = Notified(h)
      BY <2>1 DEF Notified
    <2> QED
      BY <1>0, <2>1, <2>2, <2>3, WorkerMoves DEF Exact
  <1>4. ASSUME NEW w \in Workers, Reserve(w) PROVE Exact'
    <2>1. /\ inside' = inside /\ notifier' = notifier /\ leaving' = leaving
          /\ \A v \in Workers : v # w => pc'[v] = pc[v]
      BY <1>0, <1>4 DEF Reserve, PlaceType, native, genVars
    <2>2. \A h \in Gens : w \in Admitted(h) <=> w \in Admitted(h)'
      BY <1>0, <1>4 DEF Reserve, Admitted, PlaceType, PlaceBooks, Idle, Gens
    <2>3. \A h \in Gens : Notified(h)' = Notified(h)
      BY <2>1 DEF Notified
    <2> QED
      BY <1>0, <2>1, <2>2, <2>3, WorkerMoves DEF Exact
  <1>5. ASSUME NEW w \in Workers, ScheduleSend(w) PROVE Exact'
    <2>1. /\ inside' = inside /\ notifier' = notifier /\ leaving' = leaving
          /\ \A v \in Workers : v # w => pc'[v] = pc[v]
      BY <1>0, <1>5
         DEF ScheduleSend, Accept, Refuse, PlaceType, native, genVars
    <2>2. \A h \in Gens : w \in Admitted(h) <=> w \in Admitted(h)'
      BY <1>0, <1>5
         DEF ScheduleSend, Accept, Refuse, Admitted, PlaceType, PlaceBooks,
             Idle, Gens
    <2>3. \A h \in Gens : Notified(h)' = Notified(h)
      BY <2>1 DEF Notified
    <2> QED
      BY <1>0, <2>1, <2>2, <2>3, WorkerMoves DEF Exact
  <1>6. ASSUME NEW w \in Workers, UndoSend(w) PROVE Exact'
    <2>1. /\ inside' = inside /\ notifier' = notifier /\ leaving' = leaving
          /\ \A v \in Workers : v # w => pc'[v] = pc[v]
      BY <1>0, <1>6 DEF UndoSend, PlaceType, native, genVars
    <2>2. \A h \in Gens : w \in Admitted(h) <=> w \in Admitted(h)'
      BY <1>0, <1>6 DEF UndoSend, Admitted, PlaceType, PlaceBooks, Idle, Gens
    <2>3. \A h \in Gens : Notified(h)' = Notified(h)
      BY <2>1 DEF Notified
    <2> QED
      BY <1>0, <2>1, <2>2, <2>3, WorkerMoves DEF Exact
  <1>7. ASSUME NEW w \in Workers, Leave(w) PROVE Exact'
    <2>1. PICK g \in Gens : g = pc[w].g
      BY <1>7, InGens DEF Leave
    <2>2. /\ inside' = [inside EXCEPT ![g] = @ - 1]
          /\ notifier' = notifier /\ leaving' = leaving
          /\ \A v \in Workers : v # w => pc'[v] = pc[v]
      BY <1>0, <1>7, <2>1 DEF Leave, PlaceType, native
    <2>3. w \in Admitted(g) /\ w \notin Admitted(g)'
      BY <1>0, <1>7, <2>1 DEF Leave, Admitted, PlaceType, Idle, Gens
    <2>4. \A h \in Gens : h # g => (w \in Admitted(h) <=> w \in Admitted(h)')
      BY <1>0, <1>7, <2>1 DEF Leave, Admitted, PlaceType, Idle, Gens
    <2>5. \A h \in Gens : Notified(h)' = Notified(h)
      BY <2>2 DEF Notified
    <2>6. inside'[g] = Count(g)'
      BY <1>0, <2>2, <2>3, <2>5, WorkerMoves DEF Exact, GenType
    <2>7. \A h \in Gens : h # g => inside'[h] = Count(h)'
      BY <1>0, <2>2, <2>4, <2>5, WorkerMoves DEF Exact, GenType
    <2> QED
      BY <2>6, <2>7 DEF Exact
  <1>8. ASSUME NEW w \in Workers, Expire(w) PROVE Exact'
    <2>1. inside' = inside /\ notifier' = notifier /\ leaving' = leaving /\ pc' = pc
      BY <1>8 DEF Expire, native, genVars
    <2>2. \A h \in Gens : Notified(h)' = Notified(h)
      BY <2>1 DEF Notified
    <2> QED
      BY <1>0, <2>1, <2>2, NobodyMoves DEF Exact
  <1>9. ASSUME NEW w \in Workers, BeginDrain(w) PROVE Exact'
    <2>1. PICK g \in Gens : g = Head(mailbox[w])
      BY <1>0, <1>9 DEF BeginDrain, MailType
    <2>2. /\ notifier' = notifier /\ leaving' = leaving
          /\ \A v \in Workers : v # w => pc'[v] = pc[v]
      BY <1>0, <1>9, <2>1 DEF BeginDrain, PlaceType, native
    <2>3. \A h \in Gens : Notified(h)' = Notified(h)
      BY <2>2 DEF Notified
    <2>4. \A h \in Gens : w \notin Admitted(h)
      BY <1>0, <1>9 DEF BeginDrain, Admitted, PlaceBooks, Gens
    <2>5. CASE open[g]
      <3>1. inside' = [inside EXCEPT ![g] = @ + 1]
        BY <1>0, <1>9, <2>1, <2>5 DEF BeginDrain, GenType
      <3>2. pc'[w].g = g /\ pc'[w].at = "drain"
        BY <1>0, <1>9, <2>1, <2>5 DEF BeginDrain, PlaceType
      <3>3. \A h \in Gens : w \in Admitted(h)' <=> h = g
        BY <3>2 DEF Admitted
      <3>4. inside'[g] = Count(g)'
        BY <1>0, <2>2, <2>3, <2>4, <3>1, <3>3, WorkerMoves DEF Exact, GenType
      <3>5. \A h \in Gens : h # g => inside'[h] = Count(h)'
        BY <1>0, <2>2, <2>3, <2>4, <3>1, <3>3, WorkerMoves DEF Exact, GenType
      <3> QED
        BY <3>4, <3>5 DEF Exact
    <2>6. CASE ~open[g]
      <3>1. inside' = inside
        BY <1>0, <1>9, <2>1, <2>6 DEF BeginDrain, GenType
      <3>2. pc'[w].at = "unref" \/ pc'[w].g = 0
        BY <1>0, <1>9, <2>1, <2>6 DEF BeginDrain, PlaceType, Idle
      <3>3. \A h \in Gens : w \notin Admitted(h)'
        BY <3>2 DEF Admitted, Gens
      <3> QED
        BY <1>0, <2>2, <2>3, <2>4, <3>1, <3>3, WorkerMoves DEF Exact
    <2> QED
      BY <2>5, <2>6
  <1>10. ASSUME NEW w \in Workers, PrepareDrain(w) PROVE Exact'
    <2>1. /\ inside' = inside /\ notifier' = notifier /\ leaving' = leaving
          /\ \A v \in Workers : v # w => pc'[v] = pc[v]
      BY <1>0, <1>10 DEF PrepareDrain, FillBatch, PlaceType, native, genVars
    <2>2. \A h \in Gens : w \in Admitted(h) <=> w \in Admitted(h)'
      BY <1>0, <1>10
         DEF PrepareDrain, FillBatch, Admitted, PlaceType, PlaceBooks, Idle,
             Gens
    <2>3. \A h \in Gens : Notified(h)' = Notified(h)
      BY <2>1 DEF Notified
    <2> QED
      BY <1>0, <2>1, <2>2, <2>3, WorkerMoves DEF Exact
  <1>11. ASSUME NEW w \in Workers, NEW n \in 0 .. BatchMax,
                NEW status \in {"continue", "blocked", "failed"},
                Write(w, n, status)
         PROVE  Exact'
    <2>1. PICK g \in Gens : g = pc[w].g /\ <<g, w>> \in Lanes
      BY <1>11, InGens DEF Write
    <2>2. /\ inside' = inside /\ leaving' = leaving
          /\ \A v \in Workers : v # w => pc'[v] = pc[v]
          /\ pc'[w].g = g
      BY <1>0, <1>11, <2>1 DEF Write, PlaceType
    <2>3. pc'[w].at \in {"leaveFailed", "leaveDrain", "retry", "again"}
      BY <1>11, WriteGoesOn
    <2>4. \A h \in Gens : w \in Admitted(h) <=> w \in Admitted(h)'
      BY <1>11, <2>1, <2>2, <2>3 DEF Admitted, Write
    <2>5. \/ notifier' = notifier
          \/ notifier' = [notifier EXCEPT ![<<g, w>>] = "armed"]
      BY <1>0, <1>11, <2>1 DEF Write, FlagType
    <2>6. notifier[<<g, w>>] # "inside"
      <3>1. DriverBooks(g, w) /\ At(w, "write")
        BY <1>11, Facts1 DEF Write
      <3> QED
        BY <2>1, <3>1 DEF DriverBooks, Notifying
    <2>7. \A h \in Gens : Notified(h)' = Notified(h)
      BY <1>0, <2>1, <2>5, <2>6 DEF Notified, FlagType, Lanes
    <2> QED
      BY <1>0, <2>2, <2>4, <2>7, WorkerMoves DEF Exact
  <1>12. ASSUME NEW w \in Workers, ScheduleDrain(w) PROVE Exact'
    <2>1. /\ inside' = inside /\ notifier' = notifier /\ leaving' = leaving
          /\ \A v \in Workers : v # w => pc'[v] = pc[v]
      BY <1>0, <1>12
         DEF ScheduleDrain, Accept, Refuse, PlaceType, native, genVars
    <2>2. \A h \in Gens : w \in Admitted(h) <=> w \in Admitted(h)'
      BY <1>0, <1>12
         DEF ScheduleDrain, Accept, Refuse, Admitted, PlaceType, PlaceBooks,
             Idle, Gens
    <2>3. \A h \in Gens : Notified(h)' = Notified(h)
      BY <2>1 DEF Notified
    <2> QED
      BY <1>0, <2>1, <2>2, <2>3, WorkerMoves DEF Exact
  <1>13. ASSUME NEW w \in Workers, FailDrain(w) PROVE Exact'
    <2>1. PICK g \in Gens : g = pc[w].g
      BY <1>13, InGens DEF FailDrain
    <2>2. /\ inside' = [inside EXCEPT ![g] = @ - 1]
          /\ notifier' = notifier /\ leaving' = leaving
          /\ \A v \in Workers : v # w => pc'[v] = pc[v]
      BY <1>0, <1>13, <2>1 DEF FailDrain, PlaceType, native
    <2>3. w \in Admitted(g) /\ w \notin Admitted(g)'
      BY <1>0, <1>13, <2>1 DEF FailDrain, Admitted, PlaceType, Idle, Gens
    <2>4. \A h \in Gens : h # g => (w \in Admitted(h) <=> w \in Admitted(h)')
      BY <1>0, <1>13, <2>1 DEF FailDrain, Admitted, PlaceType, Idle, Gens
    <2>5. \A h \in Gens : Notified(h)' = Notified(h)
      BY <2>2 DEF Notified
    <2>6. inside'[g] = Count(g)'
      BY <1>0, <2>2, <2>3, <2>5, WorkerMoves DEF Exact, GenType
    <2>7. \A h \in Gens : h # g => inside'[h] = Count(h)'
      BY <1>0, <2>2, <2>4, <2>5, WorkerMoves DEF Exact, GenType
    <2> QED
      BY <2>6, <2>7 DEF Exact
  <1>14. ASSUME NEW w \in Workers, EndDrain(w) PROVE Exact'
    <2>1. /\ inside' = inside /\ notifier' = notifier /\ leaving' = leaving
          /\ \A v \in Workers : v # w => pc'[v] = pc[v]
      BY <1>0, <1>14 DEF EndDrain, Unref, PlaceType, native, genVars
    <2>2. \A h \in Gens : w \in Admitted(h) <=> w \in Admitted(h)'
      BY <1>0, <1>14
         DEF EndDrain, Unref, Admitted, PlaceType, PlaceBooks, Idle, Gens
    <2>3. \A h \in Gens : Notified(h)' = Notified(h)
      BY <2>1 DEF Notified
    <2> QED
      BY <1>0, <2>1, <2>2, <2>3, WorkerMoves DEF Exact
  <1>15. ASSUME NEW w \in Workers, CloseMailbox(w) PROVE Exact'
    <2>1. inside' = inside /\ notifier' = notifier /\ leaving' = leaving /\ pc' = pc
      BY <1>15 DEF CloseMailbox, native, genVars
    <2>2. \A h \in Gens : Notified(h)' = Notified(h)
      BY <2>1 DEF Notified
    <2> QED
      BY <1>0, <2>1, <2>2, NobodyMoves DEF Exact
  <1>16. ASSUME NEW w \in Workers, CancelToken(w) PROVE Exact'
    <2>1. inside' = inside /\ notifier' = notifier /\ leaving' = leaving /\ pc' = pc
      BY <1>16 DEF CancelToken, Unref, native, genVars
    <2>2. \A h \in Gens : Notified(h)' = Notified(h)
      BY <2>1 DEF Notified
    <2> QED
      BY <1>0, <2>1, <2>2, NobodyMoves DEF Exact
  <1>17. ASSUME NEW l \in Lanes, EnterToNotify(l) PROVE Exact'
    <2>1. PICK g \in Gens, w \in Workers : l = <<g, w>>
      BY DEF Lanes
    <2>2. PICK a \in {"inside", "none"} :
             /\ notifier' = [notifier EXCEPT ![<<g, w>>] = a]
             /\ a = "inside" <=> open[g]
      BY <1>17, <2>1 DEF EnterToNotify
    <2>3. /\ pc' = pc /\ leaving' = leaving /\ notifier[<<g, w>>] # "inside"
          /\ open[g] => inside' = [inside EXCEPT ![g] = @ + 1]
          /\ ~open[g] => inside' = inside
      BY <1>0, <1>17, <2>1 DEF EnterToNotify, GenType
    <2>4. /\ a = "inside" => Count(g)' = Count(g) + 1
          /\ a # "inside" => Count(g)' = Count(g)
          /\ \A h \in Gens : h # g => Count(h)' = Count(h)
      BY <2>2, <2>3, NotificationEnters
    <2>5. CASE open[g]
      BY <1>0, <2>2, <2>3, <2>4, <2>5 DEF Exact, GenType
    <2>6. CASE ~open[g]
      BY <1>0, <2>2, <2>3, <2>4, <2>6 DEF Exact
    <2> QED
      BY <2>5, <2>6
  <1>18. ASSUME NEW l \in Lanes, PostNotification(l) PROVE Exact'
    <2>1. PICK g \in Gens, w \in Workers : l = <<g, w>>
      BY DEF Lanes
    <2>2. /\ pc' = pc /\ inside' = inside /\ notifier[<<g, w>>] = "inside"
          /\ notifier' = [notifier EXCEPT ![<<g, w>>] = "none"]
          /\ leaving' = [leaving EXCEPT ![<<g, w>>] = @ + 1]
      BY <1>18, <2>1 DEF PostNotification
    <2> QED
      BY <1>0, <2>2, NotificationPosts DEF Exact
  <1>19. ASSUME NEW l \in Lanes, LeaveNotify(l) PROVE Exact'
    <2>1. PICK g \in Gens, w \in Workers : l = <<g, w>>
      BY DEF Lanes
    <2>2. /\ pc' = pc /\ notifier' = notifier /\ leaving[<<g, w>>] > 0
          /\ leaving' = [leaving EXCEPT ![<<g, w>>] = @ - 1]
          /\ inside' = [inside EXCEPT ![g] = @ - 1]
      BY <1>19, <2>1 DEF LeaveNotify
    <2>3. /\ Count(g)' = Count(g) - 1
          /\ \A h \in Gens : h # g => Count(h)' = Count(h)
      BY <2>2, NotificationLeaves
    <2> QED
      BY <1>0, <2>2, <2>3 DEF Exact, GenType
  <1>20. ASSUME Open PROVE Exact'
    <2>1. inside' = inside /\ notifier' = notifier /\ leaving' = leaving /\ pc' = pc
      BY <1>20 DEF Open, native, genVars
    <2>2. \A h \in Gens : Notified(h)' = Notified(h)
      BY <2>1 DEF Notified
    <2> QED
      BY <1>0, <2>1, <2>2, NobodyMoves DEF Exact
  <1>21. ASSUME Unpublish PROVE Exact'
    <2>1. inside' = inside /\ notifier' = notifier /\ leaving' = leaving /\ pc' = pc
      BY <1>21 DEF Unpublish, native, genVars
    <2>2. \A h \in Gens : Notified(h)' = Notified(h)
      BY <2>1 DEF Notified
    <2> QED
      BY <1>0, <2>1, <2>2, NobodyMoves DEF Exact
  <1>22. ASSUME CloseGate PROVE Exact'
    <2>1. inside' = inside /\ notifier' = notifier /\ leaving' = leaving /\ pc' = pc
      BY <1>22 DEF CloseGate, native, genVars
    <2>2. \A h \in Gens : Notified(h)' = Notified(h)
      BY <2>1 DEF Notified
    <2> QED
      BY <1>0, <2>1, <2>2, NobodyMoves DEF Exact
  <1>23. ASSUME StopNative PROVE Exact'
    <2>1. /\ pc' = pc /\ inside' = inside /\ leaving' = leaving
          /\ inside[current] = 0
      BY <1>23 DEF StopNative, genVars
    <2>2. \A h \in Gens : h # current => Notified(h)' = Notified(h)
      BY <1>23 DEF StopNative, Notified, CurrentLanes, Lanes
    <2>3. ASSUME current \in Gens PROVE Notified(current)' = Notified(current)
      <3>1. PICK g \in Gens : g = current
        BY <2>3
      <3>2. Cardinality(Notified(g)) = 0
        BY <2>1, <3>1, CountParts DEF Count
      <3>3. Notified(g) = {}
        BY <3>2, CountParts, FS_EmptySet
      <3>4. current' = current
        BY <1>23 DEF StopNative
      <3>5. \A v \in Workers : notifier'[<<g, v>>] = "none"
        BY <1>23, <3>1 DEF StopNative, CurrentLanes, Lanes
      <3>6. Notified(g)' = {}
        BY <3>5 DEF Notified
      <3> QED
        BY <3>1, <3>3, <3>4, <3>6
    <2>4. current' = current
      BY <1>23 DEF StopNative
    <2>5. \A h \in Gens : Notified(h)' = Notified(h)
      BY <2>2, <2>3, <2>4
    <2> QED
      BY <1>0, <2>1, <2>5, NobodyMoves DEF Exact
  <1>24. ASSUME Discard PROVE Exact'
    <2>1. inside' = inside /\ notifier' = notifier /\ leaving' = leaving /\ pc' = pc
      BY <1>24 DEF Discard, native, genVars
    <2>2. \A h \in Gens : Notified(h)' = Notified(h)
      BY <2>1 DEF Notified
    <2> QED
      BY <1>0, <2>1, <2>2, NobodyMoves DEF Exact
  <1>25. ASSUME BeginDestroy PROVE Exact'
    <2>1. inside' = inside /\ notifier' = notifier /\ leaving' = leaving /\ pc' = pc
      BY <1>25 DEF BeginDestroy, native, genVars
    <2>2. \A h \in Gens : Notified(h)' = Notified(h)
      BY <2>1 DEF Notified
    <2> QED
      BY <1>0, <2>1, <2>2, NobodyMoves DEF Exact
  <1>26. ASSUME NEW g \in Gens, DestroyOne(g) PROVE Exact'
    <2>1. inside' = inside /\ notifier' = notifier /\ leaving' = leaving /\ pc' = pc
      BY <1>26 DEF DestroyOne, Unref, native, genVars
    <2>2. \A h \in Gens : Notified(h)' = Notified(h)
      BY <2>1 DEF Notified
    <2> QED
      BY <1>0, <2>1, <2>2, NobodyMoves DEF Exact
  <1> QED
    BY <1>1, <1>2, <1>3, <1>4, <1>5, <1>6, <1>7, <1>8, <1>9, <1>10, <1>11,
       <1>12, <1>13, <1>14, <1>15, <1>16, <1>17, <1>18, <1>19, <1>20, <1>21,
       <1>22, <1>23, <1>24, <1>25, <1>26
       DEF Next, SendStep, DrainStep, NotifyStep, CloseStep, DestroyStep

(* Only the current generation is open or has anybody inside, and no       *)
(* other has packets.                                                      *)
OnlyCurrent ==
    \A g \in Gens :
       /\ open[g] => g = current /\ owner \in {"idle", "unpublished"}
       /\ inside[g] # 0 => g = current /\ owner # "discard"
OthersEmpty ==
    \A g \in Gens, v \in Workers :
       g # current => batch[<<g, v>>] = << >> /\ buffers[<<g, v>>] = << >>

(* Only the current generation has anybody inside.                         *)
LEMMA OnlyCurrentKept ==
    ASSUME Books, Next, ~Over
    PROVE  OnlyCurrent'
  <1>0. /\ GenType /\ OwnerType /\ OwnerBooks /\ OnlyCurrent /\ MailType
    BY Facts1 DEF OnlyCurrent, GateBooks
  <1>1. ASSUME NEW w \in Workers, SelectGeneration(w) PROVE OnlyCurrent'
    <2>1. UNCHANGED <<open, inside, current, owner>>
      BY <1>1 DEF SelectGeneration, genVars, writerVars
    <2> QED
      BY <1>0, <2>1 DEF OnlyCurrent
  <1>2. ASSUME NEW w \in Workers, EnterToSend(w) PROVE OnlyCurrent'
    <2>1. PICK g \in Gens : g = pc[w].g
      BY <1>2, InGens DEF EnterToSend
    <2>2. /\ UNCHANGED <<open, current, owner>>
          /\ inside' = inside \/ (open[g] /\ inside' = [inside EXCEPT ![g] = @ + 1])
      BY <1>0, <1>2, <2>1 DEF EnterToSend, writerVars, GenType
    <2> QED
      BY <1>0, <2>1, <2>2 DEF OnlyCurrent, GenType
  <1>3. ASSUME NEW w \in Workers, CheckLane(w) PROVE OnlyCurrent'
    <2>1. UNCHANGED <<open, inside, current, owner>>
      BY <1>3 DEF CheckLane, genVars, writerVars
    <2> QED
      BY <1>0, <2>1 DEF OnlyCurrent
  <1>4. ASSUME NEW w \in Workers, Reserve(w) PROVE OnlyCurrent'
    <2>1. UNCHANGED <<open, inside, current, owner>>
      BY <1>4 DEF Reserve, genVars, writerVars
    <2> QED
      BY <1>0, <2>1 DEF OnlyCurrent
  <1>5. ASSUME NEW w \in Workers, ScheduleSend(w) PROVE OnlyCurrent'
    <2>1. UNCHANGED <<open, inside, current, owner>>
      BY <1>5 DEF ScheduleSend, Accept, Refuse, genVars, writerVars
    <2> QED
      BY <1>0, <2>1 DEF OnlyCurrent
  <1>6. ASSUME NEW w \in Workers, UndoSend(w) PROVE OnlyCurrent'
    <2>1. UNCHANGED <<open, inside, current, owner>>
      BY <1>6 DEF UndoSend, genVars, writerVars
    <2> QED
      BY <1>0, <2>1 DEF OnlyCurrent
  <1>7. ASSUME NEW w \in Workers, Leave(w) PROVE OnlyCurrent'
    <2>1. PICK g \in Gens : g = pc[w].g /\ inside[g] # 0
      BY <1>7, InsideIsCurrent DEF Leave
    <2>2. UNCHANGED <<open, current, owner>> /\ inside' = [inside EXCEPT ![g] = @ - 1]
      BY <1>7, <2>1 DEF Leave, writerVars
    <2> QED
      BY <1>0, <2>1, <2>2 DEF OnlyCurrent, GenType
  <1>8. ASSUME NEW w \in Workers, Expire(w) PROVE OnlyCurrent'
    <2>1. UNCHANGED <<open, inside, current, owner>>
      BY <1>8 DEF Expire, genVars, writerVars
    <2> QED
      BY <1>0, <2>1 DEF OnlyCurrent
  <1>9. ASSUME NEW w \in Workers, BeginDrain(w) PROVE OnlyCurrent'
    <2>1. PICK g \in Gens : g = Head(mailbox[w])
      BY <1>0, <1>9 DEF BeginDrain, MailType
    <2>2. /\ UNCHANGED <<open, current, owner>>
          /\ inside' = inside \/ (open[g] /\ inside' = [inside EXCEPT ![g] = @ + 1])
      BY <1>0, <1>9, <2>1 DEF BeginDrain, writerVars, GenType
    <2> QED
      BY <1>0, <2>1, <2>2 DEF OnlyCurrent, GenType
  <1>10. ASSUME NEW w \in Workers, PrepareDrain(w) PROVE OnlyCurrent'
    <2>1. UNCHANGED <<open, inside, current, owner>>
      BY <1>10 DEF PrepareDrain, FillBatch, genVars, writerVars
    <2> QED
      BY <1>0, <2>1 DEF OnlyCurrent
  <1>11. ASSUME NEW w \in Workers, NEW n \in 0 .. BatchMax,
                NEW status \in {"continue", "blocked", "failed"},
                Write(w, n, status)
         PROVE  OnlyCurrent'
    <2>1. UNCHANGED <<open, inside, current, owner>>
      BY <1>11 DEF Write, genVars, writerVars
    <2> QED
      BY <1>0, <2>1 DEF OnlyCurrent
  <1>12. ASSUME NEW w \in Workers, ScheduleDrain(w) PROVE OnlyCurrent'
    <2>1. UNCHANGED <<open, inside, current, owner>>
      BY <1>12 DEF ScheduleDrain, Accept, Refuse, genVars, writerVars
    <2> QED
      BY <1>0, <2>1 DEF OnlyCurrent
  <1>13. ASSUME NEW w \in Workers, FailDrain(w) PROVE OnlyCurrent'
    <2>1. PICK g \in Gens : g = pc[w].g /\ inside[g] # 0
      BY <1>13, InsideIsCurrent DEF FailDrain
    <2>2. UNCHANGED <<open, current, owner>> /\ inside' = [inside EXCEPT ![g] = @ - 1]
      BY <1>13, <2>1 DEF FailDrain, writerVars
    <2> QED
      BY <1>0, <2>1, <2>2 DEF OnlyCurrent, GenType
  <1>14. ASSUME NEW w \in Workers, EndDrain(w) PROVE OnlyCurrent'
    <2>1. UNCHANGED <<open, inside, current, owner>>
      BY <1>14 DEF EndDrain, Unref, genVars, writerVars
    <2> QED
      BY <1>0, <2>1 DEF OnlyCurrent
  <1>15. ASSUME NEW w \in Workers, CloseMailbox(w) PROVE OnlyCurrent'
    <2>1. UNCHANGED <<open, inside, current, owner>>
      BY <1>15 DEF CloseMailbox, genVars, writerVars
    <2> QED
      BY <1>0, <2>1 DEF OnlyCurrent
  <1>16. ASSUME NEW w \in Workers, CancelToken(w) PROVE OnlyCurrent'
    <2>1. UNCHANGED <<open, inside, current, owner>>
      BY <1>16 DEF CancelToken, Unref, genVars, writerVars
    <2> QED
      BY <1>0, <2>1 DEF OnlyCurrent
  <1>17. ASSUME NEW l \in Lanes, EnterToNotify(l) PROVE OnlyCurrent'
    <2>1. PICK g \in Gens : g = l[1]
      BY DEF Lanes
    <2>2. /\ UNCHANGED <<open, current, owner>>
          /\ inside' = inside \/ (open[g] /\ inside' = [inside EXCEPT ![g] = @ + 1])
      BY <1>0, <1>17, <2>1 DEF EnterToNotify, writerVars, GenType
    <2> QED
      BY <1>0, <2>1, <2>2 DEF OnlyCurrent, GenType
  <1>18. ASSUME NEW l \in Lanes, PostNotification(l) PROVE OnlyCurrent'
    <2>1. UNCHANGED <<open, inside, current, owner>>
      BY <1>18 DEF PostNotification, Accept, Refuse, genVars, writerVars
    <2> QED
      BY <1>0, <2>1 DEF OnlyCurrent
  <1>19. ASSUME NEW l \in Lanes, LeaveNotify(l) PROVE OnlyCurrent'
    <2>1. PICK g \in Gens : g = l[1] /\ inside[g] # 0
      <3>1. PICK g \in Gens, w \in Workers : l = <<g, w>>
        BY DEF Lanes
      <3>2. /\ pc' = pc /\ notifier' = notifier /\ leaving[<<g, w>>] > 0
            /\ leaving' = [leaving EXCEPT ![<<g, w>>] = @ - 1]
        BY <1>19, <3>1 DEF LeaveNotify
      <3>3. Count(g) > 0 /\ inside[g] = Count(g)
        BY <3>2, NotificationLeaves, CountParts
      <3> QED
        BY <3>1, <3>3
    <2>2. UNCHANGED <<open, current, owner>> /\ inside' = [inside EXCEPT ![g] = @ - 1]
      BY <1>19, <2>1 DEF LeaveNotify, writerVars
    <2> QED
      BY <1>0, <2>1, <2>2 DEF OnlyCurrent, GenType
  <1>20. ASSUME Open PROVE OnlyCurrent'
    BY <1>0, RawWriterAssumption, <1>20
       DEF Open, OnlyCurrent, OwnerBooks, GenType, OwnerType, genVars, Gens
  <1>21. ASSUME Unpublish PROVE OnlyCurrent'
    BY <1>0, RawWriterAssumption, <1>21
       DEF Unpublish, OnlyCurrent, OwnerBooks, GenType, OwnerType, genVars,
           Gens
  <1>22. ASSUME CloseGate PROVE OnlyCurrent'
    BY <1>0, RawWriterAssumption, <1>22
       DEF CloseGate, OnlyCurrent, OwnerBooks, GenType, OwnerType, genVars,
           Gens
  <1>23. ASSUME StopNative PROVE OnlyCurrent'
    BY <1>0, RawWriterAssumption, <1>23
       DEF StopNative, OnlyCurrent, OwnerBooks, GenType, OwnerType, genVars,
           Gens
  <1>24. ASSUME Discard PROVE OnlyCurrent'
    BY <1>0, RawWriterAssumption, <1>24
       DEF Discard, OnlyCurrent, OwnerBooks, GenType, OwnerType, genVars, Gens
  <1>25. ASSUME BeginDestroy PROVE OnlyCurrent'
    BY <1>0, RawWriterAssumption, <1>25
       DEF BeginDestroy, OnlyCurrent, OwnerBooks, GenType, OwnerType, genVars,
           Gens
  <1>26. ASSUME NEW g \in Gens, DestroyOne(g) PROVE OnlyCurrent'
    BY <1>0, RawWriterAssumption, <1>26
       DEF DestroyOne, Unref, OnlyCurrent, OwnerBooks, GenType, OwnerType,
           genVars, Gens
  <1> QED
    BY <1>1, <1>2, <1>3, <1>4, <1>5, <1>6, <1>7, <1>8, <1>9, <1>10, <1>11,
       <1>12, <1>13, <1>14, <1>15, <1>16, <1>17, <1>18, <1>19, <1>20, <1>21,
       <1>22, <1>23, <1>24, <1>25, <1>26
       DEF Next, SendStep, DrainStep, NotifyStep, CloseStep, DestroyStep

(* Only the current generation holds packets.                              *)
LEMMA OthersEmptyKept ==
    ASSUME Books, Next, ~Over
    PROVE  OthersEmpty'
  <1>0. /\ LaneType /\ OwnerType /\ OwnerBooks /\ OthersEmpty
    BY Facts1 DEF OthersEmpty, GateBooks
  <1>1. ASSUME NEW w \in Workers, SelectGeneration(w) PROVE OthersEmpty'
    <2>1. UNCHANGED <<batch, buffers, current>>
      BY <1>1 DEF SelectGeneration, laneVars, writerVars
    <2> QED
      BY <1>0, <2>1 DEF OthersEmpty
  <1>2. ASSUME NEW w \in Workers, EnterToSend(w) PROVE OthersEmpty'
    <2>1. UNCHANGED <<batch, buffers, current>>
      BY <1>2 DEF EnterToSend, laneVars, writerVars
    <2> QED
      BY <1>0, <2>1 DEF OthersEmpty
  <1>3. ASSUME NEW w \in Workers, CheckLane(w) PROVE OthersEmpty'
    <2>1. UNCHANGED <<batch, buffers, current>>
      BY <1>3 DEF CheckLane, laneVars, writerVars
    <2> QED
      BY <1>0, <2>1 DEF OthersEmpty
  <1>4. ASSUME NEW w \in Workers, Reserve(w) PROVE OthersEmpty'
    <2>1. current' = current /\ current \in Gens /\ Lane(w) = <<current, w>>
      BY <1>4, InsideIsCurrent DEF Reserve, writerVars
    <2>2. \A l \in Lanes : l # Lane(w) => batch'[l] = batch[l] /\ buffers'[l] = buffers[l]
      BY <1>0, <1>4 DEF Reserve, LaneType
    <2>3. \A g \in Gens, v \in Workers :
             g # current => <<g, v>> # Lane(w) /\ <<g, v>> \in Lanes
      BY <2>1 DEF Lanes
    <2> QED
      BY <1>0, <2>1, <2>2, <2>3 DEF OthersEmpty
  <1>5. ASSUME NEW w \in Workers, ScheduleSend(w) PROVE OthersEmpty'
    <2>1. UNCHANGED <<batch, buffers, current>>
      BY <1>5 DEF ScheduleSend, Accept, Refuse, laneVars, writerVars
    <2> QED
      BY <1>0, <2>1 DEF OthersEmpty
  <1>6. ASSUME NEW w \in Workers, UndoSend(w) PROVE OthersEmpty'
    <2>1. current' = current /\ current \in Gens /\ Lane(w) = <<current, w>>
      BY <1>6, InsideIsCurrent DEF UndoSend, writerVars
    <2>2. \A l \in Lanes : l # Lane(w) => batch'[l] = batch[l] /\ buffers'[l] = buffers[l]
      BY <1>0, <1>6 DEF UndoSend, LaneType
    <2>3. \A g \in Gens, v \in Workers :
             g # current => <<g, v>> # Lane(w) /\ <<g, v>> \in Lanes
      BY <2>1 DEF Lanes
    <2> QED
      BY <1>0, <2>1, <2>2, <2>3 DEF OthersEmpty
  <1>7. ASSUME NEW w \in Workers, Leave(w) PROVE OthersEmpty'
    <2>1. UNCHANGED <<batch, buffers, current>>
      BY <1>7 DEF Leave, laneVars, writerVars
    <2> QED
      BY <1>0, <2>1 DEF OthersEmpty
  <1>8. ASSUME NEW w \in Workers, Expire(w) PROVE OthersEmpty'
    <2>1. UNCHANGED <<batch, buffers, current>>
      BY <1>8 DEF Expire, laneVars, writerVars
    <2> QED
      BY <1>0, <2>1 DEF OthersEmpty
  <1>9. ASSUME NEW w \in Workers, BeginDrain(w) PROVE OthersEmpty'
    <2>1. UNCHANGED <<batch, buffers, current>>
      BY <1>9 DEF BeginDrain, laneVars, writerVars
    <2> QED
      BY <1>0, <2>1 DEF OthersEmpty
  <1>10. ASSUME NEW w \in Workers, PrepareDrain(w) PROVE OthersEmpty'
    <2>1. current' = current /\ current \in Gens /\ Lane(w) = <<current, w>>
      BY <1>10, InsideIsCurrent DEF PrepareDrain, writerVars
    <2>2. \A l \in Lanes : l # Lane(w) => batch'[l] = batch[l] /\ buffers'[l] = buffers[l]
      BY <1>0, <1>10 DEF PrepareDrain, FillBatch, LaneType
    <2>3. \A g \in Gens, v \in Workers :
             g # current => <<g, v>> # Lane(w) /\ <<g, v>> \in Lanes
      BY <2>1 DEF Lanes
    <2> QED
      BY <1>0, <2>1, <2>2, <2>3 DEF OthersEmpty
  <1>11. ASSUME NEW w \in Workers, NEW n \in 0 .. BatchMax,
                NEW status \in {"continue", "blocked", "failed"},
                Write(w, n, status)
         PROVE  OthersEmpty'
    <2>1. current' = current /\ current \in Gens /\ Lane(w) = <<current, w>>
      BY <1>11, InsideIsCurrent DEF Write, writerVars
    <2>2. \A l \in Lanes : l # Lane(w) => batch'[l] = batch[l] /\ buffers'[l] = buffers[l]
      BY <1>0, <1>11 DEF Write, LaneType
    <2>3. \A g \in Gens, v \in Workers :
             g # current => <<g, v>> # Lane(w) /\ <<g, v>> \in Lanes
      BY <2>1 DEF Lanes
    <2> QED
      BY <1>0, <2>1, <2>2, <2>3 DEF OthersEmpty
  <1>12. ASSUME NEW w \in Workers, ScheduleDrain(w) PROVE OthersEmpty'
    <2>1. UNCHANGED <<batch, buffers, current>>
      BY <1>12 DEF ScheduleDrain, Accept, Refuse, laneVars, writerVars
    <2> QED
      BY <1>0, <2>1 DEF OthersEmpty
  <1>13. ASSUME NEW w \in Workers, FailDrain(w) PROVE OthersEmpty'
    <2>1. UNCHANGED <<batch, buffers, current>>
      BY <1>13 DEF FailDrain, laneVars, writerVars
    <2> QED
      BY <1>0, <2>1 DEF OthersEmpty
  <1>14. ASSUME NEW w \in Workers, EndDrain(w) PROVE OthersEmpty'
    <2>1. UNCHANGED <<batch, buffers, current>>
      BY <1>14 DEF EndDrain, Unref, laneVars, writerVars
    <2> QED
      BY <1>0, <2>1 DEF OthersEmpty
  <1>15. ASSUME NEW w \in Workers, CloseMailbox(w) PROVE OthersEmpty'
    <2>1. UNCHANGED <<batch, buffers, current>>
      BY <1>15 DEF CloseMailbox, laneVars, writerVars
    <2> QED
      BY <1>0, <2>1 DEF OthersEmpty
  <1>16. ASSUME NEW w \in Workers, CancelToken(w) PROVE OthersEmpty'
    <2>1. UNCHANGED <<batch, buffers, current>>
      BY <1>16 DEF CancelToken, Unref, laneVars, writerVars
    <2> QED
      BY <1>0, <2>1 DEF OthersEmpty
  <1>17. ASSUME NEW l \in Lanes, EnterToNotify(l) PROVE OthersEmpty'
    <2>1. UNCHANGED <<batch, buffers, current>>
      BY <1>17 DEF EnterToNotify, laneVars, writerVars
    <2> QED
      BY <1>0, <2>1 DEF OthersEmpty
  <1>18. ASSUME NEW l \in Lanes, PostNotification(l) PROVE OthersEmpty'
    <2>1. UNCHANGED <<batch, buffers, current>>
      BY <1>18 DEF PostNotification, Accept, Refuse, laneVars, writerVars
    <2> QED
      BY <1>0, <2>1 DEF OthersEmpty
  <1>19. ASSUME NEW l \in Lanes, LeaveNotify(l) PROVE OthersEmpty'
    <2>1. UNCHANGED <<batch, buffers, current>>
      BY <1>19 DEF LeaveNotify, laneVars, writerVars
    <2> QED
      BY <1>0, <2>1 DEF OthersEmpty
  <1>20. ASSUME Open PROVE OthersEmpty'
    <2>1. current = 0 /\ UNCHANGED <<batch, buffers>>
      BY <1>20 DEF Open, laneVars
    <2> QED
      BY <1>0, <2>1 DEF OthersEmpty, Gens
  <1>21. ASSUME Unpublish PROVE OthersEmpty'
    <2>1. UNCHANGED <<batch, buffers, current>>
      BY <1>21 DEF Unpublish, laneVars, writerVars
    <2> QED
      BY <1>0, <2>1 DEF OthersEmpty
  <1>22. ASSUME CloseGate PROVE OthersEmpty'
    <2>1. UNCHANGED <<batch, buffers, current>>
      BY <1>22 DEF CloseGate, laneVars, writerVars
    <2> QED
      BY <1>0, <2>1 DEF OthersEmpty
  <1>23. ASSUME StopNative PROVE OthersEmpty'
    <2>1. UNCHANGED <<batch, buffers, current>>
      BY <1>23 DEF StopNative, laneVars, writerVars
    <2> QED
      BY <1>0, <2>1 DEF OthersEmpty
  <1>24. ASSUME Discard PROVE OthersEmpty'
    <2>1. ASSUME NEW g \in Gens, NEW v \in Workers
          PROVE  batch'[<<g, v>>] = << >> /\ buffers'[<<g, v>>] = << >>
      <3>1. <<g, v>> \in Lanes /\ (<<g, v>> \in CurrentLanes <=> g = current)
        BY DEF Lanes, CurrentLanes
      <3>2. CASE g = current
        BY <1>24, <3>1, <3>2 DEF Discard
      <3>3. CASE g # current
        BY <1>0, <1>24, <3>1, <3>3 DEF Discard, OthersEmpty
      <3> QED
        BY <3>2, <3>3
    <2> QED
      BY <2>1 DEF OthersEmpty
  <1>25. ASSUME BeginDestroy PROVE OthersEmpty'
    <2>1. UNCHANGED <<batch, buffers, current>>
      BY <1>25 DEF BeginDestroy, laneVars, writerVars
    <2> QED
      BY <1>0, <2>1 DEF OthersEmpty
  <1>26. ASSUME NEW g \in Gens, DestroyOne(g) PROVE OthersEmpty'
    <2>1. UNCHANGED <<batch, buffers, current>>
      BY <1>26 DEF DestroyOne, Unref, laneVars, writerVars
    <2> QED
      BY <1>0, <2>1 DEF OthersEmpty
  <1> QED
    BY <1>1, <1>2, <1>3, <1>4, <1>5, <1>6, <1>7, <1>8, <1>9, <1>10, <1>11,
       <1>12, <1>13, <1>14, <1>15, <1>16, <1>17, <1>18, <1>19, <1>20, <1>21,
       <1>22, <1>23, <1>24, <1>25, <1>26
       DEF Next, SendStep, DrainStep, NotifyStep, CloseStep, DestroyStep

(* The number below which the packets in the lanes of a worker are.        *)
Numbers == \A v \in Workers : Numbered(v)' \in Int /\ Numbered(v) <= Numbered(v)'

(* Numbers are given in order and never again.                             *)
LEMMA NumbersGrow ==
    ASSUME Books, Next, ~Over
    PROVE  Numbers
  <1>0. PlaceType
    BY Facts1
  <1>1. ASSUME NEW w \in Workers, SelectGeneration(w) PROVE Numbers
    <2>1. /\ pc[w].at = "idle" /\ pc'[w].at = "enter"
          /\ \A v \in Workers : v # w => pc'[v] = pc[v]
      BY <1>0, <1>1 DEF SelectGeneration, PlaceType
    <2>2. /\ sent'[w] = sent[w] + 1
          /\ \A v \in Workers : v # w => sent'[v] = sent[v]
      BY <1>0, <1>1 DEF SelectGeneration, PlaceType
    <2> QED
      BY <1>0, <2>1, <2>2 DEF Numbers, Numbered, PlaceType
  <1>2. ASSUME NEW w \in Workers, EnterToSend(w) PROVE Numbers
    <2>1. /\ sent' = sent /\ pc[w].at = "enter"
          /\ \A v \in Workers : v # w => pc'[v] = pc[v]
      BY <1>0, <1>2 DEF EnterToSend, PlaceType
    <2>2. pc'[w].at \in {"check", "idle"}
      BY <1>0, <1>2 DEF EnterToSend, PlaceType, Idle
    <2> QED
      BY <1>0, <2>1, <2>2 DEF Numbers, Numbered, PlaceType
  <1>3. ASSUME NEW w \in Workers, CheckLane(w) PROVE Numbers
    <2>1. /\ sent' = sent /\ pc[w].at = "check"
          /\ \A v \in Workers : v # w => pc'[v] = pc[v]
      BY <1>0, <1>3 DEF CheckLane, PlaceType
    <2>2. pc'[w].at \in {"leaveSend", "reserve"}
      BY <1>0, <1>3 DEF CheckLane, PlaceType, Idle
    <2> QED
      BY <1>0, <2>1, <2>2 DEF Numbers, Numbered, PlaceType
  <1>4. ASSUME NEW w \in Workers, Reserve(w) PROVE Numbers
    <2>1. /\ sent' = sent /\ pc[w].at = "reserve"
          /\ \A v \in Workers : v # w => pc'[v] = pc[v]
      BY <1>0, <1>4 DEF Reserve, PlaceType
    <2>2. pc'[w].at \in {"leaveSend", "schedule"}
      BY <1>0, <1>4 DEF Reserve, PlaceType, Idle
    <2> QED
      BY <1>0, <2>1, <2>2 DEF Numbers, Numbered, PlaceType
  <1>5. ASSUME NEW w \in Workers, ScheduleSend(w) PROVE Numbers
    <2>1. /\ sent' = sent /\ pc[w].at = "schedule"
          /\ \A v \in Workers : v # w => pc'[v] = pc[v]
      BY <1>0, <1>5 DEF ScheduleSend, Accept, Refuse, PlaceType
    <2>2. pc'[w].at \in {"leaveSend", "undo"}
      BY <1>0, <1>5 DEF ScheduleSend, Accept, Refuse, PlaceType, Idle
    <2> QED
      BY <1>0, <2>1, <2>2 DEF Numbers, Numbered, PlaceType
  <1>6. ASSUME NEW w \in Workers, UndoSend(w) PROVE Numbers
    <2>1. /\ sent' = sent /\ pc[w].at = "undo"
          /\ \A v \in Workers : v # w => pc'[v] = pc[v]
      BY <1>0, <1>6 DEF UndoSend, PlaceType
    <2>2. pc'[w].at = "leaveSend"
      BY <1>0, <1>6 DEF UndoSend, PlaceType, Idle
    <2> QED
      BY <1>0, <2>1, <2>2 DEF Numbers, Numbered, PlaceType
  <1>7. ASSUME NEW w \in Workers, Leave(w) PROVE Numbers
    <2>1. /\ sent' = sent /\ pc[w].at \in {"leaveSend", "leaveDrain"}
          /\ \A v \in Workers : v # w => pc'[v] = pc[v]
      BY <1>0, <1>7 DEF Leave, PlaceType
    <2>2. pc'[w].at \in {"idle", "unref"}
      BY <1>0, <1>7 DEF Leave, PlaceType, Idle
    <2> QED
      BY <1>0, <2>1, <2>2 DEF Numbers, Numbered, PlaceType
  <1>8. ASSUME NEW w \in Workers, Expire(w) PROVE Numbers
    <2>1. pc' = pc /\ sent' = sent
      BY <1>8 DEF Expire
    <2> QED
      BY <1>0, <2>1 DEF Numbers, Numbered, PlaceType
  <1>9. ASSUME NEW w \in Workers, BeginDrain(w) PROVE Numbers
    <2>1. /\ sent' = sent /\ pc[w].at = "idle"
          /\ \A v \in Workers : v # w => pc'[v] = pc[v]
      BY <1>0, <1>9 DEF BeginDrain, PlaceType
    <2>2. pc'[w].at \in {"drain", "unref"}
      BY <1>0, <1>9 DEF BeginDrain, PlaceType, Idle
    <2> QED
      BY <1>0, <2>1, <2>2 DEF Numbers, Numbered, PlaceType
  <1>10. ASSUME NEW w \in Workers, PrepareDrain(w) PROVE Numbers
    <2>1. /\ sent' = sent /\ pc[w].at = "drain"
          /\ \A v \in Workers : v # w => pc'[v] = pc[v]
      BY <1>0, <1>10 DEF PrepareDrain, FillBatch, PlaceType
    <2>2. pc'[w].at \in {"leaveDrain", "write"}
      BY <1>0, <1>10 DEF PrepareDrain, FillBatch, PlaceType, Idle
    <2> QED
      BY <1>0, <2>1, <2>2 DEF Numbers, Numbered, PlaceType
  <1>11. ASSUME NEW w \in Workers, NEW n \in 0 .. BatchMax,
                NEW status \in {"continue", "blocked", "failed"},
                Write(w, n, status)
         PROVE  Numbers
    <2>1. /\ sent' = sent /\ pc[w].at = "write"
          /\ \A v \in Workers : v # w => pc'[v] = pc[v]
      BY <1>0, <1>11 DEF Write, PlaceType
    <2>2. pc'[w].at \in {"leaveFailed", "leaveDrain", "retry", "again"}
      BY <1>11, WriteGoesOn
    <2> QED
      BY <1>0, <2>1, <2>2 DEF Numbers, Numbered, PlaceType
  <1>12. ASSUME NEW w \in Workers, ScheduleDrain(w) PROVE Numbers
    <2>1. /\ sent' = sent /\ pc[w].at \in {"again", "retry"}
          /\ \A v \in Workers : v # w => pc'[v] = pc[v]
      BY <1>0, <1>12 DEF ScheduleDrain, Accept, Refuse, PlaceType
    <2>2. pc'[w].at = "leaveDrain"
      BY <1>0, <1>12 DEF ScheduleDrain, Accept, Refuse, PlaceType, Idle
    <2> QED
      BY <1>0, <2>1, <2>2 DEF Numbers, Numbered, PlaceType
  <1>13. ASSUME NEW w \in Workers, FailDrain(w) PROVE Numbers
    <2>1. /\ sent' = sent /\ pc[w].at = "leaveFailed"
          /\ \A v \in Workers : v # w => pc'[v] = pc[v]
      BY <1>0, <1>13 DEF FailDrain, PlaceType
    <2>2. pc'[w].at = "unref"
      BY <1>0, <1>13 DEF FailDrain, PlaceType, Idle
    <2> QED
      BY <1>0, <2>1, <2>2 DEF Numbers, Numbered, PlaceType
  <1>14. ASSUME NEW w \in Workers, EndDrain(w) PROVE Numbers
    <2>1. /\ sent' = sent /\ pc[w].at = "unref"
          /\ \A v \in Workers : v # w => pc'[v] = pc[v]
      BY <1>0, <1>14 DEF EndDrain, Unref, PlaceType
    <2>2. pc'[w].at = "idle"
      BY <1>0, <1>14 DEF EndDrain, Unref, PlaceType, Idle
    <2> QED
      BY <1>0, <2>1, <2>2 DEF Numbers, Numbered, PlaceType
  <1>15. ASSUME NEW w \in Workers, CloseMailbox(w) PROVE Numbers
    <2>1. pc' = pc /\ sent' = sent
      BY <1>15 DEF CloseMailbox
    <2> QED
      BY <1>0, <2>1 DEF Numbers, Numbered, PlaceType
  <1>16. ASSUME NEW w \in Workers, CancelToken(w) PROVE Numbers
    <2>1. pc' = pc /\ sent' = sent
      BY <1>16 DEF CancelToken, Unref
    <2> QED
      BY <1>0, <2>1 DEF Numbers, Numbered, PlaceType
  <1>17. ASSUME NEW l \in Lanes, EnterToNotify(l) PROVE Numbers
    <2>1. pc' = pc /\ sent' = sent
      BY <1>17 DEF EnterToNotify
    <2> QED
      BY <1>0, <2>1 DEF Numbers, Numbered, PlaceType
  <1>18. ASSUME NEW l \in Lanes, PostNotification(l) PROVE Numbers
    <2>1. pc' = pc /\ sent' = sent
      BY <1>18 DEF PostNotification, Accept, Refuse
    <2> QED
      BY <1>0, <2>1 DEF Numbers, Numbered, PlaceType
  <1>19. ASSUME NEW l \in Lanes, LeaveNotify(l) PROVE Numbers
    <2>1. pc' = pc /\ sent' = sent
      BY <1>19 DEF LeaveNotify
    <2> QED
      BY <1>0, <2>1 DEF Numbers, Numbered, PlaceType
  <1>20. ASSUME Open PROVE Numbers
    <2>1. pc' = pc /\ sent' = sent
      BY <1>20 DEF Open
    <2> QED
      BY <1>0, <2>1 DEF Numbers, Numbered, PlaceType
  <1>21. ASSUME Unpublish PROVE Numbers
    <2>1. pc' = pc /\ sent' = sent
      BY <1>21 DEF Unpublish
    <2> QED
      BY <1>0, <2>1 DEF Numbers, Numbered, PlaceType
  <1>22. ASSUME CloseGate PROVE Numbers
    <2>1. pc' = pc /\ sent' = sent
      BY <1>22 DEF CloseGate
    <2> QED
      BY <1>0, <2>1 DEF Numbers, Numbered, PlaceType
  <1>23. ASSUME StopNative PROVE Numbers
    <2>1. pc' = pc /\ sent' = sent
      BY <1>23 DEF StopNative
    <2> QED
      BY <1>0, <2>1 DEF Numbers, Numbered, PlaceType
  <1>24. ASSUME Discard PROVE Numbers
    <2>1. pc' = pc /\ sent' = sent
      BY <1>24 DEF Discard
    <2> QED
      BY <1>0, <2>1 DEF Numbers, Numbered, PlaceType
  <1>25. ASSUME BeginDestroy PROVE Numbers
    <2>1. pc' = pc /\ sent' = sent
      BY <1>25 DEF BeginDestroy
    <2> QED
      BY <1>0, <2>1 DEF Numbers, Numbered, PlaceType
  <1>26. ASSUME NEW g \in Gens, DestroyOne(g) PROVE Numbers
    <2>1. pc' = pc /\ sent' = sent
      BY <1>26 DEF DestroyOne, Unref
    <2> QED
      BY <1>0, <2>1 DEF Numbers, Numbered, PlaceType
  <1> QED
    BY <1>1, <1>2, <1>3, <1>4, <1>5, <1>6, <1>7, <1>8, <1>9, <1>10, <1>11,
       <1>12, <1>13, <1>14, <1>15, <1>16, <1>17, <1>18, <1>19, <1>20, <1>21,
       <1>22, <1>23, <1>24, <1>25, <1>26
       DEF Next, SendStep, DrainStep, NotifyStep, CloseStep, DestroyStep

(* A line in order, with numbers up to k; a prefix of it and one packet    *)
(* more.                                                                   *)
InOrder(s, k) ==
    /\ s \in Seq(Packets)
    /\ \A m, n \in DOMAIN s : m < n => s[m][2] < s[n][2]
    /\ \A n \in DOMAIN s : s[n][2] <= k
StartOf(p, q) == Len(p) <= Len(q) /\ \A i \in 1 .. Len(p) : p[i] = q[i]

(* A packet has a number.                                                  *)
LEMMA PacketNumber ==
    ASSUME NEW p \in Packets PROVE p[2] \in Int
  <1>1. PICK w \in Workers : p \in {w} \X (1 .. Sends[w])
    BY DEF Packets
  <1> QED
    BY <1>1

(* The start of an ordered sequence is ordered,                            *)
LEMMA StartInOrder ==
    ASSUME NEW p \in Seq(Packets), NEW q, NEW k \in Int, NEW j \in Int,
           InOrder(q, k), k <= j, StartOf(p, q)
    PROVE  InOrder(p, j)
  <1>1. q \in Seq(Packets) /\ Len(p) \in Nat /\ Len(q) \in Nat /\ Len(p) <= Len(q)
    BY DEF InOrder, StartOf
  <1>2. DOMAIN p = 1 .. Len(p) /\ DOMAIN q = 1 .. Len(q)
    BY <1>1
  <1>3. ASSUME NEW n \in DOMAIN p
        PROVE  n \in DOMAIN q /\ p[n] = q[n] /\ q[n][2] \in Int /\ q[n][2] <= j
    <2>1. n \in DOMAIN q /\ p[n] = q[n]
      BY <1>1, <1>2 DEF StartOf
    <2>2. q[n] \in Packets
      BY <1>1, <1>2, <2>1
    <2>3. q[n][2] \in Int
      BY <2>2, PacketNumber
    <2>4. q[n][2] <= k
      BY <2>1 DEF InOrder
    <2> QED
      BY <2>1, <2>3, <2>4
  <1>4. \A m, n \in DOMAIN p : m < n => p[m][2] < p[n][2]
    BY <1>3 DEF InOrder
  <1>5. \A n \in DOMAIN p : p[n][2] <= j
    BY <1>3
  <1> QED
    BY <1>4, <1>5 DEF InOrder

(* and so is one that the next number joined.                              *)
LEMMA MoreInOrder ==
    ASSUME NEW p \in Seq(Packets), NEW q, NEW k \in Int, InOrder(q, k - 1),
           Len(p) = Len(q) + 1, \A i \in 1 .. Len(q) : p[i] = q[i],
           p[Len(p)][2] = k
    PROVE  InOrder(p, k)
  <1>1. q \in Seq(Packets) /\ Len(p) \in Nat /\ Len(q) \in Nat
    BY DEF InOrder
  <1>2. DOMAIN p = 1 .. Len(p) /\ DOMAIN q = 1 .. Len(q)
    BY <1>1
  <1>3. ASSUME NEW n \in DOMAIN p, n # Len(p)
        PROVE  n \in DOMAIN q /\ p[n] = q[n] /\ q[n][2] \in Int /\ q[n][2] < k
    <2>1. n \in DOMAIN q /\ p[n] = q[n]
      BY <1>1, <1>2, <1>3
    <2>2. q[n] \in Packets
      BY <1>1, <1>2, <2>1
    <2>3. q[n][2] \in Int
      BY <2>2, PacketNumber
    <2>4. q[n][2] <= k - 1
      BY <2>1 DEF InOrder
    <2> QED
      BY <2>1, <2>3, <2>4
  <1>4. ASSUME NEW m \in DOMAIN p, NEW n \in DOMAIN p, m < n
        PROVE  p[m][2] < p[n][2]
    <2>1. m # Len(p)
      BY <1>1, <1>2, <1>4
    <2>2. CASE n = Len(p)
      BY <1>3, <2>1, <2>2
    <2>3. CASE n # Len(p)
      BY <1>3, <1>4, <2>1, <2>3 DEF InOrder
    <2> QED
      BY <2>2, <2>3
  <1>5. \A n \in DOMAIN p : p[n][2] <= k
    BY <1>3
  <1> QED
    BY <1>4, <1>5 DEF InOrder

(* Three pieces in a row, as a line is made of.                            *)
LEMMA Three ==
    ASSUME NEW a \in Seq(Packets), NEW b \in Seq(Packets), NEW c \in Seq(Packets)
    PROVE  /\ a \o b \o c \in Seq(Packets)
           /\ Len(a \o b \o c) = Len(a) + Len(b) + Len(c)
           /\ \A i \in 1 .. Len(a) : (a \o b \o c)[i] = a[i]
           /\ \A i \in 1 .. Len(b) : (a \o b \o c)[Len(a) + i] = b[i]
           /\ \A i \in 1 .. Len(c) : (a \o b \o c)[Len(a) + Len(b) + i] = c[i]
  <1> DEFINE d == a \o b
  <1>1. /\ d \in Seq(Packets) /\ Len(d) = Len(a) + Len(b)
        /\ \A i \in 1 .. Len(a) : d[i] = a[i]
        /\ \A i \in 1 .. Len(b) : d[Len(a) + i] = b[i]
    BY Join
  <1>2. Len(a) \in Nat /\ Len(b) \in Nat /\ Len(c) \in Nat
    OBVIOUS
  <1> HIDE DEF d
  <1>3. /\ d \o c \in Seq(Packets) /\ Len(d \o c) = Len(d) + Len(c)
        /\ \A i \in 1 .. Len(d) : (d \o c)[i] = d[i]
        /\ \A i \in 1 .. Len(c) : (d \o c)[Len(d) + i] = c[i]
    BY <1>1, Join
  <1> DEFINE e == d \o c
  <1> HIDE DEF e
  <1>4. /\ e \in Seq(Packets) /\ Len(e) = Len(d) + Len(c)
        /\ \A i \in 1 .. Len(d) : e[i] = d[i]
        /\ \A i \in 1 .. Len(c) : e[Len(d) + i] = c[i]
    BY <1>3 DEF e
  <1>5. \A i \in 1 .. Len(a) : e[i] = a[i]
    BY <1>1, <1>2, <1>4
  <1>6. \A i \in 1 .. Len(b) : e[Len(a) + i] = b[i]
    BY <1>1, <1>2, <1>4
  <1>7. \A i \in 1 .. Len(c) : e[Len(a) + Len(b) + i] = c[i]
    BY <1>1, <1>2, <1>4
  <1> QED
    BY <1>1, <1>2, <1>4, <1>5, <1>6, <1>7 DEF d, e

(* What a line becomes.                                                    *)
LEMMA LineWritten ==
    ASSUME NEW a \in Seq(Packets), NEW b \in Seq(Packets), NEW c \in Seq(Packets),
           NEW n \in 0 .. Len(b)
    PROVE  LET p == (a \o SubSeq(b, 1, n)) \o SubSeq(b, n + 1, Len(b)) \o c IN
           p \in Seq(Packets) /\ StartOf(p, a \o b \o c)
  <1> DEFINE d == SubSeq(b, 1, n)  e == SubSeq(b, n + 1, Len(b))
             f == a \o d  p == f \o e \o c  q == a \o b \o c
  <1>1. /\ d \in Seq(Packets) /\ Len(d) = n
        /\ \A i \in 1 .. n : d[i] = b[i]
        /\ e \in Seq(Packets) /\ Len(e) = Len(b) - n
        /\ \A i \in 1 .. Len(b) - n : e[i] = b[n + i]
    BY Cut
  <1>2. Len(a) \in Nat /\ Len(b) \in Nat /\ Len(c) \in Nat
    OBVIOUS
  <1>3. /\ q \in Seq(Packets) /\ Len(q) = Len(a) + Len(b) + Len(c)
        /\ \A i \in 1 .. Len(a) : q[i] = a[i]
        /\ \A i \in 1 .. Len(b) : q[Len(a) + i] = b[i]
        /\ \A i \in 1 .. Len(c) : q[Len(a) + Len(b) + i] = c[i]
    BY Three
  <1> HIDE DEF d, e, q
  <1>4. /\ f \in Seq(Packets) /\ Len(f) = Len(a) + n
        /\ \A i \in 1 .. Len(a) : f[i] = a[i]
        /\ \A i \in 1 .. n : f[Len(a) + i] = d[i]
    BY <1>1, Join
  <1> HIDE DEF f
  <1>5. /\ p \in Seq(Packets) /\ Len(p) = Len(f) + Len(e) + Len(c)
        /\ \A i \in 1 .. Len(f) : p[i] = f[i]
        /\ \A i \in 1 .. Len(e) : p[Len(f) + i] = e[i]
        /\ \A i \in 1 .. Len(c) : p[Len(f) + Len(e) + i] = c[i]
    <2>1. f \in Seq(Packets) /\ e \in Seq(Packets)
      BY <1>1, <1>4
    <2> QED
      BY <2>1, Three, SMTT(30)
  <1> HIDE DEF p
  <1>6. Len(p) = Len(q)
    BY <1>1, <1>2, <1>3, <1>4, <1>5
  <1>7. ASSUME NEW i \in 1 .. Len(p) PROVE p[i] = q[i]
    <2>1. CASE i <= Len(a)
      BY <1>1, <1>2, <1>3, <1>4, <1>5, <2>1, SMTT(30)
    <2>2. CASE i > Len(a) /\ i <= Len(a) + n
      <3>1. PICK j \in 1 .. n : i = Len(a) + j
        <4>1. i - Len(a) \in 1 .. n /\ i = Len(a) + (i - Len(a))
          BY <1>2, <2>2
        <4> QED
          BY <4>1
      <3>2. p[i] = f[i] /\ f[i] = d[j] /\ d[j] = b[j]
        BY <1>1, <1>2, <1>4, <1>5, <3>1, SMTT(30)
      <3>3. q[i] = b[j]
        BY <1>2, <1>3, <3>1
      <3> QED
        BY <3>2, <3>3
    <2>3. CASE i > Len(a) + n /\ i <= Len(a) + Len(b)
      <3>1. PICK j \in 1 .. Len(b) - n : i = Len(a) + n + j
        <4>1. /\ i - Len(a) - n \in 1 .. Len(b) - n
              /\ i = Len(a) + n + (i - Len(a) - n)
          BY <1>2, <2>3
        <4> QED
          BY <4>1
      <3>2. p[i] = e[j] /\ e[j] = b[n + j]
        BY <1>1, <1>2, <1>4, <1>5, <3>1
      <3>3. n + j \in 1 .. Len(b) /\ i = Len(a) + (n + j)
        BY <1>2, <3>1
      <3>4. q[i] = b[n + j]
        BY <1>3, <3>3
      <3> QED
        BY <3>2, <3>4
    <2>4. CASE i > Len(a) + Len(b)
      <3>1. PICK j \in 1 .. Len(c) : i = Len(a) + Len(b) + j
        <4>1. /\ i - Len(a) - Len(b) \in 1 .. Len(c)
              /\ i = Len(a) + Len(b) + (i - Len(a) - Len(b))
          BY <1>2, <1>3, <1>6, <2>4
        <4> QED
          BY <4>1
      <3>2. i = Len(f) + Len(e) + j
        BY <1>1, <1>2, <1>4, <3>1
      <3>3. p[i] = c[j]
        BY <1>5, <3>2
      <3>4. q[i] = c[j]
        BY <1>3, <3>1
      <3> QED
        BY <3>3, <3>4
    <2> QED
      BY <1>2, <2>1, <2>2, <2>3, <2>4
  <1>8. p \in Seq(Packets) /\ StartOf(p, q)
    <2>1. Len(p) <= Len(q)
      BY <1>2, <1>3, <1>6
    <2> QED
      BY <1>5, <1>7, <2>1 DEF StartOf
  <1> QED
    BY <1>8 DEF p, q, f, d, e

(* A write, seen with a lane of another generation: that one is empty.     *)
LEMMA LineElsewhere ==
    ASSUME NEW a \in Seq(Packets), NEW b \in Seq(Packets), NEW c \in Seq(Packets),
           NEW n \in 0 .. Len(b)
    PROVE  LET p == (a \o SubSeq(b, 1, n)) \o << >> \o << >> IN
           p \in Seq(Packets) /\ StartOf(p, a \o b \o c)
  <1> DEFINE d == SubSeq(b, 1, n)  f == a \o d  q == a \o b \o c
             z == << >>  p == f \o z \o z
  <1>1. d \in Seq(Packets) /\ Len(d) = n /\ \A i \in 1 .. n : d[i] = b[i]
    BY Cut
  <1>2. /\ Len(a) \in Nat /\ Len(b) \in Nat /\ Len(c) \in Nat
        /\ z \in Seq(Packets) /\ Len(z) = 0
    OBVIOUS
  <1>3. /\ q \in Seq(Packets) /\ Len(q) = Len(a) + Len(b) + Len(c)
        /\ \A i \in 1 .. Len(a) : q[i] = a[i]
        /\ \A i \in 1 .. Len(b) : q[Len(a) + i] = b[i]
    BY Three
  <1> HIDE DEF d, q, z
  <1>4. /\ f \in Seq(Packets) /\ Len(f) = Len(a) + n
        /\ \A i \in 1 .. Len(a) : f[i] = a[i]
        /\ \A i \in 1 .. n : f[Len(a) + i] = d[i]
    BY <1>1, Join
  <1> HIDE DEF f
  <1>5. /\ p \in Seq(Packets) /\ Len(p) = Len(f) + Len(z) + Len(z)
        /\ \A i \in 1 .. Len(f) : p[i] = f[i]
    BY <1>2, <1>4, Three
  <1> HIDE DEF p
  <1>6. Len(p) = Len(a) + n /\ Len(p) <= Len(q)
    BY <1>2, <1>3, <1>4, <1>5
  <1>7. ASSUME NEW i \in 1 .. Len(p) PROVE p[i] = q[i]
    <2>1. CASE i <= Len(a)
      BY <1>2, <1>3, <1>4, <1>5, <1>6, <2>1
    <2>2. CASE i > Len(a)
      <3>1. PICK j \in 1 .. n : i = Len(a) + j
        <4>1. i - Len(a) \in 1 .. n /\ i = Len(a) + (i - Len(a))
          BY <1>2, <1>6, <2>2
        <4> QED
          BY <4>1
      <3>2. p[i] = f[i] /\ f[i] = d[j] /\ d[j] = b[j]
        BY <1>1, <1>2, <1>4, <1>5, <1>6, <3>1
      <3>3. q[i] = b[j]
        BY <1>2, <1>3, <3>1
      <3> QED
        BY <3>2, <3>3
    <2> QED
      BY <1>2, <2>1, <2>2
  <1>8. p \in Seq(Packets) /\ StartOf(p, q)
    BY <1>5, <1>6, <1>7 DEF StartOf
  <1> QED
    BY <1>8 DEF p, q, f, d, z

(* Filling a batch moves them from the queue.                              *)
LEMMA LineFilled ==
    ASSUME NEW a \in Seq(Packets), NEW c \in Seq(Packets), NEW n \in 0 .. Len(c)
    PROVE  LET p == a \o SubSeq(c, 1, n) \o SubSeq(c, n + 1, Len(c)) IN
           p \in Seq(Packets) /\ StartOf(p, a \o << >> \o c)
  <1> DEFINE d == SubSeq(c, 1, n)  e == SubSeq(c, n + 1, Len(c))
             z == << >>  p == a \o d \o e  q == a \o z \o c
  <1>1. /\ d \in Seq(Packets) /\ Len(d) = n
        /\ \A i \in 1 .. n : d[i] = c[i]
        /\ e \in Seq(Packets) /\ Len(e) = Len(c) - n
        /\ \A i \in 1 .. Len(c) - n : e[i] = c[n + i]
    BY Cut
  <1>2. /\ Len(a) \in Nat /\ Len(c) \in Nat
        /\ z \in Seq(Packets) /\ Len(z) = 0
    OBVIOUS
  <1> HIDE DEF d, e, z
  <1>3. /\ q \in Seq(Packets) /\ Len(q) = Len(a) + Len(z) + Len(c)
        /\ \A i \in 1 .. Len(a) : q[i] = a[i]
        /\ \A i \in 1 .. Len(c) : q[Len(a) + Len(z) + i] = c[i]
    BY <1>2, Three
  <1> HIDE DEF q
  <1>4. /\ p \in Seq(Packets) /\ Len(p) = Len(a) + Len(d) + Len(e)
        /\ \A i \in 1 .. Len(a) : p[i] = a[i]
        /\ \A i \in 1 .. Len(d) : p[Len(a) + i] = d[i]
        /\ \A i \in 1 .. Len(e) : p[Len(a) + Len(d) + i] = e[i]
    BY <1>1, Three, ZenonT(30)
  <1> HIDE DEF p
  <1>5. Len(p) = Len(a) + Len(c) /\ Len(q) = Len(a) + Len(c)
    BY <1>1, <1>2, <1>3, <1>4
  <1>6. ASSUME NEW i \in 1 .. Len(p) PROVE p[i] = q[i]
    <2>1. CASE i <= Len(a)
      BY <1>2, <1>3, <1>4, <1>5, <2>1
    <2>2. CASE i > Len(a) /\ i <= Len(a) + n
      <3>1. PICK j \in 1 .. n : i = Len(a) + j
        <4>1. i - Len(a) \in 1 .. n /\ i = Len(a) + (i - Len(a))
          BY <1>2, <2>2
        <4> QED
          BY <4>1
      <3>2. p[i] = d[j] /\ d[j] = c[j]
        BY <1>1, <1>2, <1>4, <3>1
      <3>3. j \in 1 .. Len(c) /\ i = Len(a) + Len(z) + j
        BY <1>2, <3>1
      <3>4. q[i] = c[j]
        BY <1>3, <3>3
      <3> QED
        BY <3>2, <3>4
    <2>3. CASE i > Len(a) + n
      <3>1. PICK j \in 1 .. Len(c) - n : i = Len(a) + n + j
        <4>1. /\ i - Len(a) - n \in 1 .. Len(c) - n
              /\ i = Len(a) + n + (i - Len(a) - n)
          BY <1>2, <1>5, <2>3
        <4> QED
          BY <4>1
      <3>2. p[i] = e[j] /\ e[j] = c[n + j]
        BY <1>1, <1>2, <1>4, <3>1
      <3>3. n + j \in 1 .. Len(c) /\ i = Len(a) + Len(z) + (n + j)
        BY <1>2, <3>1
      <3>4. q[i] = c[n + j]
        BY <1>3, <3>3
      <3> QED
        BY <3>2, <3>4
    <2> QED
      BY <1>2, <2>1, <2>2, <2>3
  <1>7. p \in Seq(Packets) /\ StartOf(p, q)
    <2>1. Len(p) <= Len(q)
      BY <1>2, <1>5
    <2> QED
      BY <1>4, <1>6, <2>1 DEF StartOf
  <1> QED
    BY <1>7 DEF p, q, d, e, z

(* The queue of a lane loses packets at its end.                           *)
LEMMA LineShortened ==
    ASSUME NEW a \in Seq(Packets), NEW b \in Seq(Packets), NEW c \in Seq(Packets),
           NEW d \in Seq(Packets), StartOf(d, c)
    PROVE  a \o b \o d \in Seq(Packets) /\ StartOf(a \o b \o d, a \o b \o c)
  <1> DEFINE p == a \o b \o d  q == a \o b \o c
  <1>1. /\ p \in Seq(Packets) /\ Len(p) = Len(a) + Len(b) + Len(d)
        /\ \A i \in 1 .. Len(a) : p[i] = a[i]
        /\ \A i \in 1 .. Len(b) : p[Len(a) + i] = b[i]
        /\ \A i \in 1 .. Len(d) : p[Len(a) + Len(b) + i] = d[i]
    BY Three
  <1>2. /\ q \in Seq(Packets) /\ Len(q) = Len(a) + Len(b) + Len(c)
        /\ \A i \in 1 .. Len(a) : q[i] = a[i]
        /\ \A i \in 1 .. Len(b) : q[Len(a) + i] = b[i]
        /\ \A i \in 1 .. Len(c) : q[Len(a) + Len(b) + i] = c[i]
    BY Three
  <1>3. Len(a) \in Nat /\ Len(b) \in Nat /\ Len(c) \in Nat /\ Len(d) \in Nat
    OBVIOUS
  <1>4. Len(d) <= Len(c) /\ \A i \in 1 .. Len(d) : d[i] = c[i]
    BY DEF StartOf
  <1> HIDE DEF p, q
  <1>5. ASSUME NEW i \in 1 .. Len(p) PROVE p[i] = q[i]
    <2>1. CASE i <= Len(a)
      BY <1>1, <1>2, <1>3, <2>1
    <2>2. CASE i > Len(a) /\ i <= Len(a) + Len(b)
      <3>1. PICK j \in 1 .. Len(b) : i = Len(a) + j
        <4>1. i - Len(a) \in 1 .. Len(b) /\ i = Len(a) + (i - Len(a))
          BY <1>3, <2>2
        <4> QED
          BY <4>1
      <3> QED
        BY <1>1, <1>2, <3>1
    <2>3. CASE i > Len(a) + Len(b)
      <3>1. PICK j \in 1 .. Len(d) : i = Len(a) + Len(b) + j
        <4>1. /\ i - Len(a) - Len(b) \in 1 .. Len(d)
              /\ i = Len(a) + Len(b) + (i - Len(a) - Len(b))
          BY <1>1, <1>3, <2>3
        <4> QED
          BY <4>1
      <3>2. j \in 1 .. Len(c) /\ d[j] = c[j]
        BY <1>3, <1>4, <3>1
      <3> QED
        BY <1>1, <1>2, <3>1, <3>2
    <2> QED
      BY <1>3, <2>1, <2>2, <2>3
  <1>6. Len(p) <= Len(q)
    BY <1>1, <1>2, <1>3, <1>4
  <1> QED
    BY <1>1, <1>5, <1>6 DEF p, q, StartOf

(* Taking a packet adds it at the end.                                     *)
LEMMA LineGrows ==
    ASSUME NEW a \in Seq(Packets), NEW b \in Seq(Packets), NEW c \in Seq(Packets),
           NEW x \in Packets, NEW p, NEW q,
           p = a \o b \o Append(c, x), q = a \o b \o c
    PROVE  /\ p \in Seq(Packets) /\ Len(p) = Len(q) + 1 /\ p[Len(p)] = x
           /\ \A i \in 1 .. Len(q) : p[i] = q[i]
  <1> DEFINE d == Append(c, x)
  <1>1. /\ d \in Seq(Packets) /\ Len(d) = Len(c) + 1 /\ d[Len(c) + 1] = x
        /\ \A i \in 1 .. Len(c) : d[i] = c[i]
    OBVIOUS
  <1>2. Len(a) \in Nat /\ Len(b) \in Nat /\ Len(c) \in Nat
    OBVIOUS
  <1>8. p = a \o b \o d
    OBVIOUS
  <1> HIDE DEF d
  <1>3. /\ p \in Seq(Packets) /\ Len(p) = Len(a) + Len(b) + Len(d)
        /\ \A i \in 1 .. Len(a) : p[i] = a[i]
        /\ \A i \in 1 .. Len(b) : p[Len(a) + i] = b[i]
        /\ \A i \in 1 .. Len(d) : p[Len(a) + Len(b) + i] = d[i]
    <2>1. d \in Seq(Packets)
      BY <1>1
    <2> QED
      BY <1>8, <2>1, Three, SMTT(30)
  <1>4. /\ q \in Seq(Packets) /\ Len(q) = Len(a) + Len(b) + Len(c)
        /\ \A i \in 1 .. Len(a) : q[i] = a[i]
        /\ \A i \in 1 .. Len(b) : q[Len(a) + i] = b[i]
        /\ \A i \in 1 .. Len(c) : q[Len(a) + Len(b) + i] = c[i]
    BY Three
  <1>5. ASSUME NEW i \in 1 .. Len(q) PROVE p[i] = q[i]
    <2>1. CASE i <= Len(a)
      BY <1>2, <1>3, <1>4, <2>1
    <2>2. CASE i > Len(a) /\ i <= Len(a) + Len(b)
      <3>1. PICK j \in 1 .. Len(b) : i = Len(a) + j
        <4>1. i - Len(a) \in 1 .. Len(b) /\ i = Len(a) + (i - Len(a))
          BY <1>2, <2>2
        <4> QED
          BY <4>1
      <3> QED
        BY <1>3, <1>4, <3>1
    <2>3. CASE i > Len(a) + Len(b)
      <3>1. PICK j \in 1 .. Len(c) : i = Len(a) + Len(b) + j
        <4>1. /\ i - Len(a) - Len(b) \in 1 .. Len(c)
              /\ i = Len(a) + Len(b) + (i - Len(a) - Len(b))
          BY <1>2, <1>4, <2>3
        <4> QED
          BY <4>1
      <3>2. j \in 1 .. Len(d) /\ d[j] = c[j]
        BY <1>1, <1>2, <3>1
      <3> QED
        BY <1>3, <1>4, <3>1, <3>2
    <2> QED
      BY <1>2, <2>1, <2>2, <2>3
  <1>6. Len(p) = Len(q) + 1
    BY <1>1, <1>2, <1>3, <1>4
  <1>7. p[Len(p)] = x
    <2>1. Len(c) + 1 \in 1 .. Len(d) /\ Len(p) = Len(a) + Len(b) + (Len(c) + 1)
      BY <1>1, <1>2, <1>3
    <2> QED
      BY <1>1, <1>3, <2>1
  <1> QED
    BY <1>3, <1>5, <1>6, <1>7

(* Discarding a lane leaves what was written.                              *)
LEMMA LineEmptied ==
    ASSUME NEW a \in Seq(Packets), NEW b \in Seq(Packets), NEW c \in Seq(Packets)
    PROVE  LET p == a \o << >> \o << >> IN
           p \in Seq(Packets) /\ StartOf(p, a \o b \o c)
  <1> DEFINE z == << >>  p == a \o z \o z  q == a \o b \o c
  <1>1. z \in Seq(Packets) /\ Len(z) = 0
    OBVIOUS
  <1>2. Len(a) \in Nat /\ Len(b) \in Nat /\ Len(c) \in Nat
    OBVIOUS
  <1> HIDE DEF z
  <1>3. /\ p \in Seq(Packets) /\ Len(p) = Len(a) + Len(z) + Len(z)
        /\ \A i \in 1 .. Len(a) : p[i] = a[i]
    BY <1>1, Three
  <1>4. /\ q \in Seq(Packets) /\ Len(q) = Len(a) + Len(b) + Len(c)
        /\ \A i \in 1 .. Len(a) : q[i] = a[i]
    BY Three
  <1> HIDE DEF p, q
  <1>5. Len(p) = Len(a) /\ Len(p) <= Len(q)
    BY <1>1, <1>2, <1>3, <1>4
  <1>6. p \in Seq(Packets) /\ StartOf(p, q)
    BY <1>3, <1>4, <1>5 DEF StartOf
  <1> QED
    BY <1>6 DEF p, q, z

(* Every line is in order: FifoOrder and the part of the books it needs.   *)
Lined == \A g \in Gens, v \in Workers : InOrder(Line(g, v), Numbered(v))

(* The parts of a line of packets are sequences of packets.                *)
LEMMA LinePieces ==
    ASSUME Books, NEW g \in Gens, NEW v \in Workers
    PROVE  /\ out[v] \in Seq(Packets) /\ batch[<<g, v>>] \in Seq(Packets)
           /\ buffers[<<g, v>>] \in Seq(Packets) /\ <<g, v>> \in Lanes
           /\ Numbered(v) \in Int
  BY Facts1 DEF LaneType, PlaceType, Lanes, Numbered

(* The order of the output and of the lanes, as one order.                 *)
LEMMA BooksLined ==
    ASSUME Books, FifoOrder PROVE Lined
  <1>1. ASSUME NEW g \in Gens, NEW v \in Workers
        PROVE  InOrder(Line(g, v), Numbered(v))
    <2>1. Line(g, v) \in Seq(Packets)
      BY LinePieces, Three DEF Line
    <2>2. \A m, n \in DOMAIN Line(g, v) :
             m < n => Line(g, v)[m][2] < Line(g, v)[n][2]
      BY DEF FifoOrder
    <2>3. \A n \in DOMAIN Line(g, v) : Line(g, v)[n][2] <= Numbered(v)
      BY DEF Books, LineBooks
    <2> QED
      BY <2>1, <2>2, <2>3 DEF InOrder
  <1> QED
    BY <1>1 DEF Lined

(* The same of the next state, read backwards.                             *)
LEMMA LinedNext ==
    ASSUME Lined'
    PROVE  FifoOrder' /\ \A g \in Gens, v \in Workers : LineBooks(g, v)'
  BY DEF Lined, FifoOrder, LineBooks, InOrder

(* A step that touches nothing of a line keeps it in order.                *)
LEMMA SameLine ==
    ASSUME Books, Lined, Numbers, NEW g \in Gens, NEW v \in Workers,
           out'[v] = out[v], batch'[<<g, v>>] = batch[<<g, v>>],
           buffers'[<<g, v>>] = buffers[<<g, v>>]
    PROVE  InOrder(Line(g, v)', Numbered(v)')
  <1>1. Line(g, v)' = Line(g, v)
    BY DEF Line
  <1>2. InOrder(Line(g, v), Numbered(v)) /\ Line(g, v) \in Seq(Packets)
    BY DEF Lined, InOrder
  <1>3. StartOf(Line(g, v), Line(g, v))
    BY <1>2 DEF StartOf
  <1>4. /\ Numbered(v) \in Int /\ Numbered(v)' \in Int
        /\ Numbered(v) <= Numbered(v)'
    BY LinePieces DEF Numbers
  <1> QED
    BY <1>1, <1>2, <1>3, <1>4, StartInOrder

(* So does one that leaves the start of a line.                            *)
LEMMA LineCut ==
    ASSUME Books, Lined, Numbers, NEW g \in Gens, NEW h \in Gens,
           NEW v \in Workers, Line(h, v)' \in Seq(Packets),
           StartOf(Line(h, v)', Line(g, v))
    PROVE  InOrder(Line(h, v)', Numbered(v)')
  <1>1. InOrder(Line(g, v), Numbered(v))
    BY DEF Lined
  <1>2. /\ Numbered(v) \in Int /\ Numbered(v)' \in Int
        /\ Numbered(v) <= Numbered(v)'
    BY LinePieces DEF Numbers
  <1> QED
    BY <1>1, <1>2, StartInOrder

(* The lines stay in order.                                                *)
LEMMA LinedKept ==
    ASSUME Books, Next, ~Over, FifoOrder
    PROVE  Lined'
  <1>0. Lined /\ Numbers /\ LaneType /\ PlaceType
    BY BooksLined, NumbersGrow, Facts1
  <1>1. ASSUME NEW w \in Workers, SelectGeneration(w) PROVE Lined'
    <2>1. UNCHANGED <<out, batch, buffers>>
      BY <1>1 DEF SelectGeneration, laneVars
    <2> QED
      BY <1>0, <2>1, SameLine DEF Lined
  <1>2. ASSUME NEW w \in Workers, EnterToSend(w) PROVE Lined'
    <2>1. UNCHANGED <<out, batch, buffers>>
      BY <1>2 DEF EnterToSend, laneVars
    <2> QED
      BY <1>0, <2>1, SameLine DEF Lined
  <1>3. ASSUME NEW w \in Workers, CheckLane(w) PROVE Lined'
    <2>1. UNCHANGED <<out, batch, buffers>>
      BY <1>3 DEF CheckLane, laneVars
    <2> QED
      BY <1>0, <2>1, SameLine DEF Lined
  <1>4. ASSUME NEW w \in Workers, Reserve(w) PROVE Lined'
    <2>1. PICK g \in Gens : g = pc[w].g /\ <<g, w>> \in Lanes
      BY <1>4, InGens DEF Reserve
    <2>2. /\ out[w] \in Seq(Packets) /\ batch[<<g, w>>] \in Seq(Packets)
          /\ buffers[<<g, w>>] \in Seq(Packets)
      BY LinePieces
    <2>3. ASSUME NEW h \in Gens, NEW v \in Workers, <<h, v>> # <<g, w>>
          PROVE  InOrder(Line(h, v)', Numbered(v)')
      <3>1. /\ out' = out /\ <<h, v>> \in Lanes
            /\ \A l \in Lanes : l # <<g, w>> =>
                  batch'[l] = batch[l] /\ buffers'[l] = buffers[l]
        BY <1>0, <1>4, <2>1 DEF Reserve, LaneType, Lanes
      <3>2. batch'[<<h, v>>] = batch[<<h, v>>] /\ buffers'[<<h, v>>] = buffers[<<h, v>>]
        BY <2>3, <3>1
      <3> QED
        BY <1>0, <3>1, <3>2, SameLine
    <2>4. InOrder(Line(g, w)', Numbered(w)')
      <3>1. CASE buffers' = buffers
        <4>1. out' = out /\ batch' = batch
          BY <1>4 DEF Reserve
        <4> QED
          BY <1>0, <3>1, <4>1, SameLine
      <3>2. CASE buffers' = [buffers EXCEPT ![<<g, w>>] = Append(@, Packet(w))]
        <4>1. /\ out'[w] = out[w] /\ batch'[<<g, w>>] = batch[<<g, w>>]
              /\ buffers'[<<g, w>>] = Append(buffers[<<g, w>>], Packet(w))
          BY <1>0, <1>4, <2>1, <3>2 DEF Reserve, LaneType
        <4>2. Packet(w) \in Packets
          BY <1>4, PacketIs DEF Reserve, Sending
        <4>3. /\ Line(g, w)' = out[w] \o batch[<<g, w>>]
                                 \o Append(buffers[<<g, w>>], Packet(w))
              /\ Line(g, w) = out[w] \o batch[<<g, w>>] \o buffers[<<g, w>>]
          BY <4>1 DEF Line
        <4>4. /\ Line(g, w)' \in Seq(Packets)
              /\ Len(Line(g, w)') = Len(Line(g, w)) + 1
              /\ Line(g, w)'[Len(Line(g, w)')] = Packet(w)
              /\ \A i \in 1 .. Len(Line(g, w)) : Line(g, w)'[i] = Line(g, w)[i]
          <5> DEFINE p == Line(g, w)'  q == Line(g, w)
                     a == out[w]  b == batch[<<g, w>>]  c == buffers[<<g, w>>]
          <5>1. /\ a \in Seq(Packets) /\ b \in Seq(Packets) /\ c \in Seq(Packets)
                /\ p = a \o b \o Append(c, Packet(w)) /\ q = a \o b \o c
            BY <2>2, <4>3
          <5> HIDE DEF p, q, a, b, c
          <5>2. /\ p \in Seq(Packets) /\ Len(p) = Len(q) + 1
                /\ p[Len(p)] = Packet(w)
                /\ \A i \in 1 .. Len(q) : p[i] = q[i]
            BY <4>2, <5>1, LineGrows
          <5> QED
            BY <5>2 DEF p, q
        <4>5. sent[w] \in Int /\ Numbered(w) = sent[w] - 1
          BY <1>0, <1>4 DEF Numbered, Reserve, PlaceType
        <4>6. Numbered(w)' = sent[w]
          <5>1. sent' = sent /\ pc'[w].at \in {"leaveSend", "schedule"}
            BY <1>0, <1>4 DEF Reserve, PlaceType
          <5> QED
            BY <5>1 DEF Numbered
        <4>7. InOrder(Line(g, w), sent[w] - 1)
          BY <1>0, <4>5 DEF Lined
        <4>8. Line(g, w)'[Len(Line(g, w)')][2] = sent[w]
          BY <4>4 DEF Packet
        <4>9. InOrder(Line(g, w)', sent[w])
          BY <4>4, <4>5, <4>7, <4>8, MoreInOrder
        <4> QED
          BY <4>6, <4>9
      <3>3. \/ buffers' = buffers
            \/ buffers' = [buffers EXCEPT ![<<g, w>>] = Append(@, Packet(w))]
        BY <1>4, <2>1 DEF Reserve
      <3> QED
        BY <3>1, <3>2, <3>3
    <2> QED
      BY <2>3, <2>4 DEF Lined
  <1>5. ASSUME NEW w \in Workers, ScheduleSend(w) PROVE Lined'
    <2>1. UNCHANGED <<out, batch, buffers>>
      BY <1>5 DEF ScheduleSend, Accept, Refuse, laneVars
    <2> QED
      BY <1>0, <2>1, SameLine DEF Lined
  <1>6. ASSUME NEW w \in Workers, UndoSend(w) PROVE Lined'
    <2>1. PICK g \in Gens : g = pc[w].g /\ <<g, w>> \in Lanes
      BY <1>6, InGens DEF UndoSend
    <2>2. /\ out[w] \in Seq(Packets) /\ batch[<<g, w>>] \in Seq(Packets)
          /\ buffers[<<g, w>>] \in Seq(Packets)
      BY LinePieces
    <2>3. ASSUME NEW h \in Gens, NEW v \in Workers, <<h, v>> # <<g, w>>
          PROVE  InOrder(Line(h, v)', Numbered(v)')
      <3>1. /\ out' = out /\ <<h, v>> \in Lanes
            /\ \A l \in Lanes : l # <<g, w>> =>
                  batch'[l] = batch[l] /\ buffers'[l] = buffers[l]
        BY <1>0, <1>6, <2>1 DEF UndoSend, LaneType, Lanes
      <3>2. batch'[<<h, v>>] = batch[<<h, v>>] /\ buffers'[<<h, v>>] = buffers[<<h, v>>]
        BY <2>3, <3>1
      <3> QED
        BY <1>0, <3>1, <3>2, SameLine
    <2>4. InOrder(Line(g, w)', Numbered(w)')
      <3>1. /\ out'[w] = out[w] /\ batch'[<<g, w>>] = batch[<<g, w>>]
            /\ buffers'[<<g, w>>] = Front(buffers[<<g, w>>])
        BY <1>0, <1>6, <2>1 DEF UndoSend, LaneType
      <3>2. /\ Front(buffers[<<g, w>>]) \in Seq(Packets)
            /\ StartOf(Front(buffers[<<g, w>>]), buffers[<<g, w>>])
        <4>1. Len(buffers[<<g, w>>]) \in Nat
          BY <2>2
        <4> QED
          BY <2>2, <4>1, FrontIs DEF StartOf
      <3>3. /\ Line(g, w)' = out[w] \o batch[<<g, w>>] \o Front(buffers[<<g, w>>])
            /\ Line(g, w) = out[w] \o batch[<<g, w>>] \o buffers[<<g, w>>]
        BY <3>1 DEF Line
      <3>4. Line(g, w)' \in Seq(Packets) /\ StartOf(Line(g, w)', Line(g, w))
        BY <2>2, <3>2, <3>3, LineShortened
      <3> QED
        BY <1>0, <3>4, LineCut
    <2> QED
      BY <2>3, <2>4 DEF Lined
  <1>7. ASSUME NEW w \in Workers, Leave(w) PROVE Lined'
    <2>1. UNCHANGED <<out, batch, buffers>>
      BY <1>7 DEF Leave, laneVars
    <2> QED
      BY <1>0, <2>1, SameLine DEF Lined
  <1>8. ASSUME NEW w \in Workers, Expire(w) PROVE Lined'
    <2>1. UNCHANGED <<out, batch, buffers>>
      BY <1>8 DEF Expire, laneVars
    <2> QED
      BY <1>0, <2>1, SameLine DEF Lined
  <1>9. ASSUME NEW w \in Workers, BeginDrain(w) PROVE Lined'
    <2>1. UNCHANGED <<out, batch, buffers>>
      BY <1>9 DEF BeginDrain, laneVars
    <2> QED
      BY <1>0, <2>1, SameLine DEF Lined
  <1>10. ASSUME NEW w \in Workers, PrepareDrain(w) PROVE Lined'
    <2>1. PICK g \in Gens : g = pc[w].g /\ <<g, w>> \in Lanes
      BY <1>10, InGens DEF PrepareDrain
    <2>2. /\ out[w] \in Seq(Packets) /\ batch[<<g, w>>] \in Seq(Packets)
          /\ buffers[<<g, w>>] \in Seq(Packets)
      BY LinePieces
    <2>3. ASSUME NEW h \in Gens, NEW v \in Workers, <<h, v>> # <<g, w>>
          PROVE  InOrder(Line(h, v)', Numbered(v)')
      <3>1. /\ out' = out /\ <<h, v>> \in Lanes
            /\ \A l \in Lanes : l # <<g, w>> =>
                  batch'[l] = batch[l] /\ buffers'[l] = buffers[l]
        BY <1>0, <1>10, <2>1 DEF PrepareDrain, FillBatch, LaneType, Lanes
      <3>2. batch'[<<h, v>>] = batch[<<h, v>>] /\ buffers'[<<h, v>>] = buffers[<<h, v>>]
        BY <2>3, <3>1
      <3> QED
        BY <1>0, <3>1, <3>2, SameLine
    <2>4. InOrder(Line(g, w)', Numbered(w)')
      <3> DEFINE b == buffers[<<g, w>>]
                 n == IF Len(b) < BatchMax THEN Len(b) ELSE BatchMax
      <3>1. n \in 0 .. Len(b)
        BY <2>2, RawWriterAssumption
      <3>2. \/ batch' = batch /\ buffers' = buffers
            \/ /\ batch[<<g, w>>] = << >>
               /\ batch' = [batch EXCEPT ![<<g, w>>] = SubSeq(b, 1, n)]
               /\ buffers' = [buffers EXCEPT ![<<g, w>>] = SubSeq(b, n + 1, Len(b))]
        BY <1>10, <2>1 DEF PrepareDrain, FillBatch
      <3>3. out' = out
        BY <1>10 DEF PrepareDrain
      <3>4. CASE batch' = batch /\ buffers' = buffers
        BY <1>0, <3>3, <3>4, SameLine
      <3> HIDE DEF n
      <3>5. CASE /\ batch[<<g, w>>] = << >>
                 /\ batch' = [batch EXCEPT ![<<g, w>>] = SubSeq(b, 1, n)]
                 /\ buffers' = [buffers EXCEPT ![<<g, w>>] = SubSeq(b, n + 1, Len(b))]
        <4>1. /\ batch'[<<g, w>>] = SubSeq(b, 1, n)
              /\ buffers'[<<g, w>>] = SubSeq(b, n + 1, Len(b))
          BY <1>0, <2>1, <3>5 DEF LaneType
        <4>2. /\ Line(g, w)' = out[w] \o SubSeq(b, 1, n) \o SubSeq(b, n + 1, Len(b))
              /\ Line(g, w) = out[w] \o << >> \o b
          BY <3>3, <3>5, <4>1 DEF Line
        <4> HIDE DEF b
        <4>3. b \in Seq(Packets)
          BY <2>2 DEF b
        <4>4. Line(g, w)' \in Seq(Packets) /\ StartOf(Line(g, w)', Line(g, w))
          BY <2>2, <3>1, <4>2, <4>3, LineFilled
        <4> QED
          BY <1>0, <4>4, LineCut
      <3> QED
        BY <3>2, <3>4, <3>5
    <2> QED
      BY <2>3, <2>4 DEF Lined
  <1>11. ASSUME NEW w \in Workers, NEW n \in 0 .. BatchMax,
                NEW status \in {"continue", "blocked", "failed"},
                Write(w, n, status)
         PROVE  Lined'
    <2>1. PICK g \in Gens : g = pc[w].g /\ <<g, w>> \in Lanes
      BY <1>11, InGens DEF Write
    <2>2. /\ out[w] \in Seq(Packets) /\ batch[<<g, w>>] \in Seq(Packets)
          /\ buffers[<<g, w>>] \in Seq(Packets)
      BY LinePieces
    <2>3. PICK b \in Seq(Packets) : b = batch[<<g, w>>]
      BY <2>2
    <2>4. n \in 0 .. Len(b)
      BY <1>11, <2>1, <2>3 DEF Write
    <2>5. /\ out' = [out EXCEPT ![w] = @ \o SubSeq(b, 1, n)]
          /\ batch' = [batch EXCEPT ![<<g, w>>] = SubSeq(b, n + 1, Len(b))]
          /\ buffers' = buffers
      BY <1>11, <2>1, <2>3 DEF Write
    <2>6. /\ out'[w] = out[w] \o SubSeq(b, 1, n)
          /\ batch'[<<g, w>>] = SubSeq(b, n + 1, Len(b))
          /\ \A v \in Workers : v # w => out'[v] = out[v]
          /\ \A l \in Lanes : l # <<g, w>> => batch'[l] = batch[l]
      BY <1>0, <2>1, <2>5 DEF LaneType
    <2>7. Line(g, w) = out[w] \o b \o buffers[<<g, w>>]
      BY <2>3 DEF Line
    <2>8. InOrder(Line(g, w)', Numbered(w)')
      <3>1. Line(g, w)' = (out[w] \o SubSeq(b, 1, n)) \o SubSeq(b, n + 1, Len(b))
                             \o buffers[<<g, w>>]
        BY <2>5, <2>6 DEF Line
      <3>2. Line(g, w)' \in Seq(Packets) /\ StartOf(Line(g, w)', Line(g, w))
        BY <2>2, <2>4, <2>7, <3>1, LineWritten
      <3> QED
        BY <1>0, <3>2, LineCut
    <2>9. ASSUME NEW h \in Gens, h # g PROVE InOrder(Line(h, w)', Numbered(w)')
      <3>1. g = current
        BY <1>11, <2>1, InsideIsCurrent DEF Write
      <3>2. batch[<<h, w>>] = << >> /\ buffers[<<h, w>>] = << >>
        BY <2>9, <3>1, Facts1 DEF GateBooks
      <3>3. <<h, w>> \in Lanes /\ <<h, w>> # <<g, w>>
        BY <2>9 DEF Lanes
      <3>4. batch'[<<h, w>>] = << >> /\ buffers'[<<h, w>>] = << >>
        BY <2>5, <2>6, <3>2, <3>3
      <3>5. Line(h, w)' = (out[w] \o SubSeq(b, 1, n)) \o << >> \o << >>
        BY <2>6, <3>4 DEF Line
      <3>6. Line(h, w)' \in Seq(Packets) /\ StartOf(Line(h, w)', Line(g, w))
        BY <2>2, <2>4, <2>7, <3>5, LineElsewhere
      <3> QED
        BY <1>0, <3>6, LineCut
    <2>10. ASSUME NEW h \in Gens, NEW v \in Workers, v # w
           PROVE  InOrder(Line(h, v)', Numbered(v)')
      <3>1. <<h, v>> \in Lanes /\ <<h, v>> # <<g, w>>
        BY <2>10 DEF Lanes
      <3> QED
        BY <1>0, <2>5, <2>6, <2>10, <3>1, SameLine
    <2> QED
      BY <2>8, <2>9, <2>10 DEF Lined
  <1>12. ASSUME NEW w \in Workers, ScheduleDrain(w) PROVE Lined'
    <2>1. UNCHANGED <<out, batch, buffers>>
      BY <1>12 DEF ScheduleDrain, Accept, Refuse, laneVars
    <2> QED
      BY <1>0, <2>1, SameLine DEF Lined
  <1>13. ASSUME NEW w \in Workers, FailDrain(w) PROVE Lined'
    <2>1. UNCHANGED <<out, batch, buffers>>
      BY <1>13 DEF FailDrain, laneVars
    <2> QED
      BY <1>0, <2>1, SameLine DEF Lined
  <1>14. ASSUME NEW w \in Workers, EndDrain(w) PROVE Lined'
    <2>1. UNCHANGED <<out, batch, buffers>>
      BY <1>14 DEF EndDrain, Unref, laneVars
    <2> QED
      BY <1>0, <2>1, SameLine DEF Lined
  <1>15. ASSUME NEW w \in Workers, CloseMailbox(w) PROVE Lined'
    <2>1. UNCHANGED <<out, batch, buffers>>
      BY <1>15 DEF CloseMailbox, laneVars
    <2> QED
      BY <1>0, <2>1, SameLine DEF Lined
  <1>16. ASSUME NEW w \in Workers, CancelToken(w) PROVE Lined'
    <2>1. UNCHANGED <<out, batch, buffers>>
      BY <1>16 DEF CancelToken, Unref, laneVars
    <2> QED
      BY <1>0, <2>1, SameLine DEF Lined
  <1>17. ASSUME NEW l \in Lanes, EnterToNotify(l) PROVE Lined'
    <2>1. UNCHANGED <<out, batch, buffers>>
      BY <1>17 DEF EnterToNotify, laneVars
    <2> QED
      BY <1>0, <2>1, SameLine DEF Lined
  <1>18. ASSUME NEW l \in Lanes, PostNotification(l) PROVE Lined'
    <2>1. UNCHANGED <<out, batch, buffers>>
      BY <1>18 DEF PostNotification, Accept, Refuse, laneVars
    <2> QED
      BY <1>0, <2>1, SameLine DEF Lined
  <1>19. ASSUME NEW l \in Lanes, LeaveNotify(l) PROVE Lined'
    <2>1. UNCHANGED <<out, batch, buffers>>
      BY <1>19 DEF LeaveNotify, laneVars
    <2> QED
      BY <1>0, <2>1, SameLine DEF Lined
  <1>20. ASSUME Open PROVE Lined'
    <2>1. UNCHANGED <<out, batch, buffers>>
      BY <1>20 DEF Open, laneVars
    <2> QED
      BY <1>0, <2>1, SameLine DEF Lined
  <1>21. ASSUME Unpublish PROVE Lined'
    <2>1. UNCHANGED <<out, batch, buffers>>
      BY <1>21 DEF Unpublish, laneVars
    <2> QED
      BY <1>0, <2>1, SameLine DEF Lined
  <1>22. ASSUME CloseGate PROVE Lined'
    <2>1. UNCHANGED <<out, batch, buffers>>
      BY <1>22 DEF CloseGate, laneVars
    <2> QED
      BY <1>0, <2>1, SameLine DEF Lined
  <1>23. ASSUME StopNative PROVE Lined'
    <2>1. UNCHANGED <<out, batch, buffers>>
      BY <1>23 DEF StopNative, laneVars
    <2> QED
      BY <1>0, <2>1, SameLine DEF Lined
  <1>24. ASSUME Discard PROVE Lined'
    <2>1. ASSUME NEW g \in Gens, NEW v \in Workers
          PROVE  InOrder(Line(g, v)', Numbered(v)')
      <3>1. /\ out[v] \in Seq(Packets) /\ batch[<<g, v>>] \in Seq(Packets)
            /\ buffers[<<g, v>>] \in Seq(Packets) /\ <<g, v>> \in Lanes
        BY LinePieces
      <3>2. out' = out
        BY <1>24 DEF Discard
      <3>3. CASE <<g, v>> \in CurrentLanes
        <4>1. batch'[<<g, v>>] = << >> /\ buffers'[<<g, v>>] = << >>
          BY <1>24, <3>1, <3>3 DEF Discard
        <4>2. Line(g, v)' = out[v] \o << >> \o << >>
          BY <3>2, <4>1 DEF Line
        <4>3. Line(g, v) = out[v] \o batch[<<g, v>>] \o buffers[<<g, v>>]
          BY DEF Line
        <4>4. Line(g, v)' \in Seq(Packets) /\ StartOf(Line(g, v)', Line(g, v))
          BY <3>1, <4>2, <4>3, LineEmptied
        <4> QED
          BY <1>0, <4>4, LineCut
      <3>4. CASE <<g, v>> \notin CurrentLanes
        <4>1. /\ batch'[<<g, v>>] = batch[<<g, v>>]
              /\ buffers'[<<g, v>>] = buffers[<<g, v>>]
          BY <1>24, <3>1, <3>4 DEF Discard
        <4> QED
          BY <1>0, <3>2, <4>1, SameLine
      <3> QED
        BY <3>3, <3>4
    <2> QED
      BY <2>1 DEF Lined
  <1>25. ASSUME BeginDestroy PROVE Lined'
    <2>1. UNCHANGED <<out, batch, buffers>>
      BY <1>25 DEF BeginDestroy, laneVars
    <2> QED
      BY <1>0, <2>1, SameLine DEF Lined
  <1>26. ASSUME NEW g \in Gens, DestroyOne(g) PROVE Lined'
    <2>1. UNCHANGED <<out, batch, buffers>>
      BY <1>26 DEF DestroyOne, Unref, laneVars
    <2> QED
      BY <1>0, <2>1, SameLine DEF Lined
  <1> QED
    BY <1>1, <1>2, <1>3, <1>4, <1>5, <1>6, <1>7, <1>8, <1>9, <1>10, <1>11,
       <1>12, <1>13, <1>14, <1>15, <1>16, <1>17, <1>18, <1>19, <1>20, <1>21,
       <1>22, <1>23, <1>24, <1>25, <1>26
       DEF Next, SendStep, DrainStep, NotifyStep, CloseStep, DestroyStep

-----------------------------------------------------------------------------
(* The books and the order of the lines hold at first and are kept.        *)
LEMMA BooksInit == Init => Books /\ FifoOrder
  <1> SUFFICES ASSUME Init PROVE Books /\ FifoOrder
    OBVIOUS
  <1>1. TypeOK
    BY RawWriterAssumption DEF Init, TypeOK, Idle, Places
  <1>2. OwnerBooks /\ \A w \in Workers : PlaceBooks(w)
    BY RawWriterAssumption DEF Init, OwnerBooks, PlaceBooks, Idle, Sending
  <1>3. \A w \in Workers : TokenBooks(w)
    BY DEF Init, TokenBooks, IsInjective, Range
  <1>4. \A g \in Gens, w \in Workers : DriverBooks(g, w)
    <2>1. ASSUME NEW g \in Gens, NEW w \in Workers PROVE DriverBooks(g, w)
      <3>1. ~HasToken(g, w)
        BY DEF Init, HasToken, Range
      <3>2. ~Notifying(<<g, w>>) /\ At(w, "idle")
        BY DEF Init, Notifying, Lanes, Idle
      <3> QED
        BY <3>1, <3>2 DEF DriverBooks
    <2> QED
      BY <2>1
  <1>5. ASSUME NEW g \in Gens PROVE GateBooks(g)
    <2>1. Admitted(g) = {}
      BY DEF Init, Admitted, Idle, Gens
    <2>2. Notified(g) = {}
      BY DEF Init, Notified, Lanes
    <2>3. Leaving(g) = {}
      <3>1. \A w \in Workers : leaving[<<g, w>>] = 0
        BY DEF Init, Lanes
      <3>2. \A w \in Workers : {w} \X (1 .. leaving[<<g, w>>]) = {}
        BY <3>1
      <3> QED
        BY <3>2 DEF Leaving
    <2>4. Cardinality({}) = 0
      BY FS_EmptySet
    <2>5. inside[g] = 0 /\ ~open[g]
      BY DEF Init
    <2>6. \A w \in Workers : batch[<<g, w>>] = << >> /\ buffers[<<g, w>>] = << >>
      BY DEF Init, Lanes
    <2> QED
      BY <2>1, <2>2, <2>3, <2>4, <2>5, <2>6 DEF GateBooks
  <1>6. ASSUME NEW g \in Gens, NEW w \in Workers PROVE Line(g, w) = << >>
    <2>1. out[w] = << >> /\ batch[<<g, w>>] = << >> /\ buffers[<<g, w>>] = << >>
      BY DEF Init, Lanes
    <2> QED
      BY <2>1 DEF Line
  <1>7. FifoOrder /\ \A g \in Gens, w \in Workers : LineBooks(g, w)
    BY <1>6 DEF FifoOrder, LineBooks
  <1> QED
    BY <1>1, <1>2, <1>3, <1>4, <1>5, <1>7 DEF Books

(* The books and the order are inductive.                                  *)
LEMMA BooksNext ==
    ASSUME Books, FifoOrder, Next, ~Over PROVE Books' /\ FifoOrder'
  <1>1. TypeOK'
    BY OwnerTypeKept, GenTypeKept, FlagTypeKept, LaneTypeKept, MailTypeKept,
       PlaceTypeKept, TypePartsNext
  <1>2. OwnerBooks' /\ \A w \in Workers : PlaceBooks(w)'
    BY OwnerBooksKept, PlaceBooksKept
  <1>3. /\ \A w \in Workers : TokenBooks(w)'
        /\ \A g \in Gens, w \in Workers : DriverBooks(g, w)'
    BY DriversKept DEF Apart, Driven
  <1>4. Exact' /\ OnlyCurrent' /\ OthersEmpty'
    BY ExactKept, OnlyCurrentKept, OthersEmptyKept
  <1>5. \A g \in Gens : GateBooks(g)'
    BY <1>4 DEF Exact, OnlyCurrent, OthersEmpty, GateBooks, Count
  <1>6. FifoOrder' /\ \A g \in Gens, w \in Workers : LineBooks(g, w)'
    BY LinedKept, LinedNext
  <1> QED
    BY <1>1, <1>2, <1>3, <1>5, <1>6 DEF Books

(* A stuttering step keeps them.                                           *)
LEMMA BooksStutter ==
    ASSUME Books, FifoOrder, UNCHANGED vars PROVE Books' /\ FifoOrder'
  <1> USE DEF vars, writerVars, genVars, laneVars, native, queueVars, limits
  <1>1. TypeOK'
    BY DEF Books, TypeOK
  <1>2. OwnerBooks' /\ \A w \in Workers : PlaceBooks(w)'
    BY DEF Books, OwnerBooks, PlaceBooks, Sending
  <1>3. \A w \in Workers : TokenBooks(w)'
    BY DEF Books, TokenBooks
  <1>4. \A g \in Gens, w \in Workers : DriverBooks(g, w)'
    BY DEF Books, DriverBooks, HasToken, Notifying
  <1>5. \A g \in Gens : GateBooks(g)'
    BY ZenonT(30) DEF Books, GateBooks, Admitted, Notified, Leaving
  <1>6. \A g \in Gens, w \in Workers : LineBooks(g, w)'
    BY DEF Books, LineBooks, Line, Numbered
  <1>7. FifoOrder'
    <2>1. \A g \in Gens, w \in Workers : Line(g, w)' = Line(g, w)
      BY DEF Line
    <2> QED
      BY <2>1 DEF FifoOrder
  <1> QED
    BY <1>1, <1>2, <1>3, <1>4, <1>5, <1>6, <1>7 DEF Books

(* Whatever the owner, the workers and the notifications do in whatever    *)
(* order, the gate's count is exact, a lane has one driver at most, and    *)
(* only the generation in use or being closed holds packets.               *)
THEOREM BooksKept == Spec => []Books
  <1>1. Books /\ FifoOrder /\ [Next]_vars => Books' /\ FifoOrder'
    BY BooksNext, BooksStutter DEF Over
  <1> QED
    BY <1>1, BooksInit, PTL DEF Spec

(* rawWriterTrySend, rawWriterDrain: a worker's packets leave in the order *)
(* in which it sent them, across refusals, partial writes, retries and     *)
(* bring-ups.                                                              *)
THEOREM OrderKept == Spec => []FifoOrder
  <1>1. Books /\ FifoOrder /\ [Next]_vars => Books' /\ FifoOrder'
    BY BooksNext, BooksStutter DEF Over
  <1> QED
    BY <1>1, BooksInit, PTL DEF Spec

-----------------------------------------------------------------------------
(* From here on: the lanes, the packets, the references and the faults.    *)
LanesGood == \A g \in Gens, v \in Workers : LaneBooks(g, v)
NativeGood == \A g \in Gens, v \in Workers : NativeBooks(g, v)
StoresGood == \A g \in Gens : StoreBooks(g)
SendersGood == \A v \in Workers : SenderBooks(v)

(* What the step does elsewhere: the lane keeps its packets and flags.     *)
LaneSame(h, v) ==
    /\ batch'[<<h, v>>] = batch[<<h, v>>] /\ buffers'[<<h, v>>] = buffers[<<h, v>>]
    /\ scheduled'[<<h, v>>] = scheduled[<<h, v>>]
    /\ cancelled'[<<h, v>>] = cancelled[<<h, v>>]
    /\ notifier'[<<h, v>>] = notifier[<<h, v>>]
    /\ <<h, v>> \in borrowed' <=> <<h, v>> \in borrowed
    /\ HasToken(h, v)' <=> HasToken(h, v)
    /\ open'[h] => open[h]
    /\ failed[h] => failed'[h]
Away(h, v) ==
    \/ pc'[v] = pc[v] /\ sent'[v] = sent[v]
    \/ pc'[v].g # h /\ pc[v].g # h

(* A step away from a lane keeps what is said of it.                       *)
LEMMA LaneFrame ==
    ASSUME NEW h \in Gens, NEW v \in Workers, LaneBooks(h, v), LaneSame(h, v),
           Away(h, v)
    PROVE  LaneBooks(h, v)'
  <1>1. Holds(<<h, v>>)' <=> Holds(<<h, v>>)
    BY DEF Holds, LaneSame
  <1>2. CASE pc'[v] = pc[v] /\ sent'[v] = sent[v]
    <2>1. \A S : Stands(v, h, S)' <=> Stands(v, h, S)
      BY <1>2 DEF Stands
    <2>2. HasDriver(h, v)' <=> HasDriver(h, v)
      BY <2>1 DEF HasDriver, Notifying, LaneSame
    <2>3. Packet(v)' = Packet(v)
      BY <1>2 DEF Packet
    <2> QED
      BY <1>1, <2>1, <2>2, <2>3 DEF LaneBooks, LaneSame
  <1>3. CASE pc'[v].g # h /\ pc[v].g # h
    <2>1. \A S : ~Stands(v, h, S)' /\ ~Stands(v, h, S)
      BY <1>3 DEF Stands
    <2>2. HasDriver(h, v)' <=> HasDriver(h, v)
      BY <2>1 DEF HasDriver, Notifying, LaneSame
    <2> QED
      BY <1>1, <2>1, <2>2 DEF LaneBooks, LaneSame
  <1> QED
    BY <1>2, <1>3 DEF Away

(* A worker moves to or from a place that says nothing of its lane.        *)
Telling == {"reserve", "schedule", "undo", "write", "again", "retry"}

(* So does a step of its worker that neither arms nor drains.              *)
LEMMA LanePlain ==
    ASSUME NEW h \in Gens, NEW v \in Workers, LaneBooks(h, v), LaneSame(h, v),
           pc[v].at \notin Telling \cup {"drain"}, pc'[v].at \notin Telling
    PROVE  LaneBooks(h, v)'
  <1>1. Holds(<<h, v>>)' <=> Holds(<<h, v>>)
    BY DEF Holds, LaneSame
  <1>2. /\ \A S : S \subseteq Telling => ~Stands(v, h, S)' /\ ~Stands(v, h, S)
        /\ ~Stands(v, h, {"drain"})
    BY DEF Stands, Telling
  <1>3. /\ {"schedule", "undo", "write", "again", "retry"} \subseteq Telling
        /\ {"reserve"} \subseteq Telling /\ {"schedule", "undo"} \subseteq Telling
        /\ {"again", "retry"} \subseteq Telling /\ {"write"} \subseteq Telling
    BY DEF Telling
  <1>4. HasDriver(h, v) => HasDriver(h, v)'
    BY <1>2 DEF HasDriver, Notifying, LaneSame
  <1> QED
    BY <1>1, <1>2, <1>3, <1>4 DEF LaneBooks, LaneSame

(* A step on one lane.                                                     *)
OtherLanes(g, w) ==
    /\ \A k \in Lanes : k # <<g, w>> =>
          /\ batch'[k] = batch[k] /\ buffers'[k] = buffers[k]
          /\ scheduled'[k] = scheduled[k] /\ cancelled'[k] = cancelled[k]
          /\ notifier'[k] = notifier[k] /\ (k \in borrowed' <=> k \in borrowed)
    /\ open' = open /\ \A h \in Gens : failed[h] => failed'[h]
    /\ \A v \in Workers : v # w => pc'[v] = pc[v]
    /\ pc' = pc \/ (pc[w].g \in {g, 0} /\ pc'[w].g \in {g, 0})
    /\ sent' = sent

(* A step at one lane: the others keep their books.                        *)
LEMMA OneLane ==
    ASSUME LanesGood, NEW g \in Gens, NEW w \in Workers, OtherLanes(g, w),
           TokensSame \/ TokenAdded(g, w) \/ TokenTaken(g, w),
           LaneBooks(g, w)'
    PROVE  LanesGood'
  <1>1. ASSUME NEW h \in Gens, NEW v \in Workers, <<h, v>> # <<g, w>>
        PROVE  LaneBooks(h, v)'
    <2>1. HasToken(h, v)' <=> HasToken(h, v)
      BY <1>1 DEF TokensSame, TokenAdded, TokenTaken
    <2>2. <<h, v>> \in Lanes /\ (v # w \/ h # g) /\ h # 0
      BY <1>1 DEF Lanes, Gens
    <2>3. LaneSame(h, v)
      BY <1>1, <2>1, <2>2 DEF LaneSame, OtherLanes
    <2>4. Away(h, v)
      BY <2>2 DEF Away, OtherLanes
    <2> QED
      BY <2>3, <2>4, LaneFrame DEF LanesGood
  <1> QED
    BY <1>1 DEF LanesGood

(* What an appended sequence holds.                                        *)
LEMMA AppendRange ==
    ASSUME NEW S, NEW q \in Seq(S), NEW x \in S
    PROVE  Range(Append(q, x)) = Range(q) \cup {x}
  <1>1. /\ DOMAIN Append(q, x) = 1 .. Len(q) + 1
        /\ \A i \in 1 .. Len(q) : Append(q, x)[i] = q[i]
        /\ Append(q, x)[Len(q) + 1] = x
    OBVIOUS
  <1>2. DOMAIN q = 1 .. Len(q) /\ Len(q) \in Nat
    OBVIOUS
  <1>3. \A y : y \in Range(Append(q, x)) <=> y \in Range(q) \/ y = x
    BY <1>1, <1>2 DEF Range
  <1> QED
    BY <1>3

(* What the two parts of a cut sequence hold.                              *)
LEMMA CutRange ==
    ASSUME NEW s \in Seq(Packets), NEW n \in 0 .. Len(s)
    PROVE  Range(s) = Range(SubSeq(s, 1, n)) \cup Range(SubSeq(s, n + 1, Len(s)))
  <1> DEFINE a == SubSeq(s, 1, n)  b == SubSeq(s, n + 1, Len(s))
  <1>1. /\ a \in Seq(Packets) /\ Len(a) = n /\ \A i \in 1 .. n : a[i] = s[i]
        /\ b \in Seq(Packets) /\ Len(b) = Len(s) - n
        /\ \A i \in 1 .. Len(s) - n : b[i] = s[n + i]
    BY Cut
  <1> HIDE DEF a, b
  <1>2. DOMAIN a = 1 .. n /\ DOMAIN b = 1 .. Len(s) - n /\ DOMAIN s = 1 .. Len(s)
    BY <1>1
  <1>3. \A x : x \in Range(a) \/ x \in Range(b) => x \in Range(s)
    <2>1. \A i \in 1 .. n : i \in 1 .. Len(s)
      OBVIOUS
    <2>2. \A i \in 1 .. Len(s) - n : n + i \in 1 .. Len(s)
      OBVIOUS
    <2>3. \A x \in Range(a) : x \in Range(s)
      BY <1>1, <1>2, <2>1 DEF Range
    <2>4. \A x \in Range(b) : x \in Range(s)
      <3>1. ASSUME NEW i \in 1 .. Len(s) - n PROVE b[i] \in Range(s)
        BY <1>1, <1>2, <2>2, Zenon DEF Range
      <3> QED
        BY <1>2, <3>1, Zenon DEF Range
    <2> QED
      BY <2>3, <2>4
  <1>4. ASSUME NEW x \in Range(s) PROVE x \in Range(a) \/ x \in Range(b)
    <2>1. PICK i \in 1 .. Len(s) : s[i] = x
      BY <1>2, <1>4 DEF Range
    <2>2. CASE i <= n
      <3>1. i \in 1 .. n
        BY <2>2
      <3>2. a[i] = x
        BY <1>1, <2>1, <3>1
      <3> QED
        BY <1>2, <3>1, <3>2 DEF Range
    <2>3. CASE i > n
      <3>1. i - n \in 1 .. Len(s) - n /\ n + (i - n) = i
        BY <2>3
      <3>2. b[i - n] = x
        BY <1>1, <2>1, <3>1
      <3> QED
        BY <1>2, <3>1, <3>2 DEF Range
    <2> QED
      BY <2>2, <2>3
  <1>5. Range(s) = Range(a) \cup Range(b)
    BY <1>3, <1>4
  <1> QED
    BY <1>5 DEF a, b

(* rawWriterPostToken.                                                     *)
LEMMA Accepting ==
    ASSUME Books, NEW g \in Gens, NEW w \in Workers, NEW after,
           Accept(g, w, after), ~HasToken(g, w)
    PROVE  /\ TokenAdded(g, w) /\ cancelled' = cancelled
           /\ references' = [references EXCEPT ![g] = @ + 1]
  <1>1. \/ /\ mailbox' = [mailbox EXCEPT ![w] = Append(@, g)]
           /\ timed' = timed
        \/ /\ timed' = [timed EXCEPT ![w] = Append(@, g)]
           /\ mailbox' = mailbox
    BY DEF Accept
  <1> QED
    BY <1>1, QueueGains DEF Accept

(* A refused driver changes the cancellation of its lane only.             *)
LEMMA Refusing ==
    ASSUME Books, NEW g \in Gens, NEW w \in Workers, Refuse(g, w)
    PROVE  /\ TokensSame /\ references' = references
           /\ cancelled' = [cancelled EXCEPT ![<<g, w>>] = TRUE]
  BY QueuesStay DEF Refuse

(* Without its only element a sequence is empty.                           *)
LEMMA FrontOfOne == \A p : Front(<<p>>) = << >>
  <1>1. ASSUME NEW p PROVE Front(<<p>>) = << >>
    <2>1. Len(<<p>>) = 1
      OBVIOUS
    <2>2. Front(<<p>>) = SubSeq(<<p>>, 1, 0)
      BY <2>1 DEF Front
    <2>3. SubSeq(<<p>>, 1, 0) = << >>
      OBVIOUS
    <2> QED
      BY <2>2, <2>3
  <1> QED
    BY <1>1

(* Filling the batch of a lane that holds packets moves them and loses     *)
(* none.                                                                   *)
LEMMA BatchFilled ==
    ASSUME LaneType, NEW l \in Lanes, FillBatch(l),
           batch[l] # << >> \/ buffers[l] # << >>
    PROVE  /\ batch'[l] # << >>
           /\ Range(batch'[l]) \cup Range(buffers'[l])
                = Range(batch[l]) \cup Range(buffers[l])
  <1>1. CASE batch[l] # << >>
    BY <1>1 DEF FillBatch
  <1>2. CASE batch[l] = << >>
    <2> DEFINE s == buffers[l]
               n == IF Len(s) < BatchMax THEN Len(s) ELSE BatchMax
    <2>1. /\ batch'[l] = SubSeq(s, 1, n)
          /\ buffers'[l] = SubSeq(s, n + 1, Len(s))
      BY <1>2 DEF FillBatch, LaneType
    <2>2. s \in Seq(Packets) /\ s # << >>
      BY <1>2 DEF LaneType
    <2> HIDE DEF s
    <2>3. Len(s) \in Nat /\ Len(s) > 0
      BY <2>2
    <2>4. n \in 0 .. Len(s) /\ n > 0
      BY <2>3, RawWriterAssumption
    <2> HIDE DEF n
    <2>5. Len(SubSeq(s, 1, n)) = n
      BY <2>2, <2>4, Cut
    <2>6. SubSeq(s, 1, n) # << >>
      BY <2>4, <2>5
    <2>7. Range(s) = Range(SubSeq(s, 1, n)) \cup Range(SubSeq(s, n + 1, Len(s)))
      BY <2>2, <2>4, CutRange
    <2>8. Range(batch[l]) = {}
      BY <1>2 DEF Range
    <2> QED
      BY <2>1, <2>6, <2>7, <2>8 DEF s
  <1> QED
    BY <1>1, <1>2

(* Where a write leads its worker.                                         *)
LEMMA WriteGoesWhere ==
    ASSUME Books, NEW w \in Workers, NEW n \in 0 .. BatchMax,
           NEW status \in {"continue", "blocked", "failed"},
           Write(w, n, status)
    PROVE  /\ pc'[w].at \in {"leaveFailed", "leaveDrain", "retry", "again"}
           /\ pc'[w].g = pc[w].g
           /\ pc'[w].at \in {"retry", "again"} <=>
                 /\ status # "failed" /\ ~(status = "blocked" /\ delay = 0)
                 /\ n < Len(batch[Lane(w)]) \/ buffers[Lane(w)] # << >>
  <1> DEFINE more == n < Len(batch[Lane(w)]) \/ buffers[Lane(w)] # << >>
             a == CASE status = "failed" /\ ~failed[pc[w].g] -> "leaveFailed"
                    [] status = "failed" /\ failed[pc[w].g] -> "leaveDrain"
                    [] /\ status # "failed" /\ more
                       /\ ~(status = "blocked" /\ delay = 0) ->
                          IF status = "blocked" THEN "retry" ELSE "again"
                    [] OTHER -> "leaveDrain"
  <1>1. pc' = [pc EXCEPT ![w].at = a]
    BY DEF Write
  <1> HIDE DEF more
  <1>2. /\ a \in {"leaveFailed", "leaveDrain", "retry", "again"}
        /\ a \in {"retry", "again"} <=>
              status # "failed" /\ ~(status = "blocked" /\ delay = 0) /\ more
    <2>1. CASE status = "failed" /\ ~failed[pc[w].g]
      BY <2>1
    <2>2. CASE status = "failed" /\ failed[pc[w].g]
      BY <2>2
    <2>3. CASE /\ status # "failed" /\ more
               /\ ~(status = "blocked" /\ delay = 0)
      BY <2>3
    <2>4. CASE ~(/\ status # "failed" /\ more
                 /\ ~(status = "blocked" /\ delay = 0)) /\ status # "failed"
      BY <2>4
    <2> QED
      BY <2>1, <2>2, <2>3, <2>4
  <1> HIDE DEF a
  <1>3. pc'[w].at = a /\ pc'[w].g = pc[w].g
    BY <1>1, Facts1 DEF PlaceType
  <1> QED
    BY <1>2, <1>3 DEF more

(* The lanes.                                                              *)
LEMMA LanesKept ==
    ASSUME Books, Next, ~Over,
           LanesGood, NativeGood, StoresGood
    PROVE  LanesGood'
  <1>0. /\ PlaceType /\ FlagType /\ MailType /\ GenType /\ LaneType /\ OwnerType
        /\ OwnerBooks /\ LanesGood /\ NativeGood /\ StoresGood
        /\ \A v \in Workers : PlaceBooks(v) /\ TokenBooks(v)
        /\ \A g \in Gens, v \in Workers : DriverBooks(g, v)
        /\ \A g \in Gens : GateBooks(g)
    BY Facts1
  <1>1. ASSUME NEW w \in Workers, SelectGeneration(w) PROVE LanesGood'
    <2>1. /\ UNCHANGED <<batch, buffers, scheduled, cancelled, notifier, borrowed>>
          /\ UNCHANGED <<failed, open>>
      BY <1>1 DEF SelectGeneration, laneVars, native, genVars
    <2>2. TokensSame
      <3>1. mailbox' = mailbox /\ timed' = timed
        BY <1>1 DEF SelectGeneration, queueVars
      <3> QED
        BY <3>1, QueuesStay
    <2>3. /\ \A v \in Workers : v # w => pc'[v] = pc[v] /\ sent'[v] = sent[v]
          /\ pc[w].at \notin Telling \cup {"drain"} /\ pc'[w].at \notin Telling
      BY <1>0, <1>1 DEF SelectGeneration, PlaceType, Idle, Telling
    <2>4. \A h \in Gens, v \in Workers : LaneSame(h, v)
      BY <2>1, <2>2 DEF LaneSame, TokensSame
    <2>5. \A h \in Gens : LaneBooks(h, w)'
      BY <1>0, <2>3, <2>4, LanePlain DEF LanesGood
    <2>6. \A h \in Gens, v \in Workers : v # w => LaneBooks(h, v)'
      BY <1>0, <2>3, <2>4, LaneFrame DEF LanesGood, Away
    <2> QED
      BY <2>5, <2>6 DEF LanesGood
  <1>2. ASSUME NEW w \in Workers, EnterToSend(w) PROVE LanesGood'
    <2>1. /\ UNCHANGED <<batch, buffers, scheduled, cancelled, notifier, borrowed>>
          /\ UNCHANGED <<failed, open>>
      BY <1>2 DEF EnterToSend, laneVars, native, genVars
    <2>2. TokensSame
      <3>1. mailbox' = mailbox /\ timed' = timed
        BY <1>2 DEF EnterToSend, queueVars
      <3> QED
        BY <3>1, QueuesStay
    <2>3. /\ \A v \in Workers : v # w => pc'[v] = pc[v] /\ sent'[v] = sent[v]
          /\ pc[w].at \notin Telling \cup {"drain"} /\ pc'[w].at \notin Telling
      BY <1>0, <1>2 DEF EnterToSend, PlaceType, Idle, Telling
    <2>4. \A h \in Gens, v \in Workers : LaneSame(h, v)
      BY <2>1, <2>2 DEF LaneSame, TokensSame
    <2>5. \A h \in Gens : LaneBooks(h, w)'
      BY <1>0, <2>3, <2>4, LanePlain DEF LanesGood
    <2>6. \A h \in Gens, v \in Workers : v # w => LaneBooks(h, v)'
      BY <1>0, <2>3, <2>4, LaneFrame DEF LanesGood, Away
    <2> QED
      BY <2>5, <2>6 DEF LanesGood
  <1>3. ASSUME NEW w \in Workers, CheckLane(w) PROVE LanesGood'
    <2>1. PICK g \in Gens : g = pc[w].g /\ <<g, w>> \in Lanes
      BY <1>3, InGens DEF CheckLane
    <2>2. OtherLanes(g, w)
      <3>1. \A k \in Lanes : k # <<g, w>> =>
               batch'[k] = batch[k] /\ buffers'[k] = buffers[k]
        BY <1>0, <1>3, <2>1 DEF CheckLane, LaneType, laneVars
      <3>2. \A k \in Lanes : k # <<g, w>> =>
               scheduled'[k] = scheduled[k] /\ cancelled'[k] = cancelled[k]
        BY <1>0, <1>3, <2>1 DEF CheckLane, FlagType, laneVars
      <3>3. \A k \in Lanes : k # <<g, w>> => notifier'[k] = notifier[k]
        BY <1>0, <1>3, <2>1 DEF CheckLane, FlagType, native
      <3>4. \A k \in Lanes : k # <<g, w>> => (k \in borrowed' <=> k \in borrowed)
        BY <1>0, <1>3, <2>1 DEF CheckLane, native
      <3>5. open' = open /\ sent' = sent
        BY <1>3 DEF CheckLane, genVars
      <3>6. \A h \in Gens : failed[h] => failed'[h]
        BY <1>0, <1>3, <2>1 DEF CheckLane, GenType, genVars
      <3>7. /\ \A v \in Workers : v # w => pc'[v] = pc[v]
            /\ pc' = pc \/ (pc[w].g \in {g, 0} /\ pc'[w].g \in {g, 0})
        BY <1>0, <1>3, <2>1 DEF CheckLane, PlaceType, PlaceBooks
      <3> QED
        BY <3>1, <3>2, <3>3, <3>4, <3>5, <3>6, <3>7 DEF OtherLanes
    <2>3. TokensSame
      <3>1. mailbox' = mailbox /\ timed' = timed
        BY <1>3 DEF CheckLane, queueVars
      <3> QED
        BY <3>1, QueuesStay
    <2>4. LaneBooks(g, w) /\ DriverBooks(g, w)
      BY <1>0, <2>1 DEF LanesGood
    <2>5. LaneBooks(g, w)'
      <3>1. /\ UNCHANGED <<batch, buffers, scheduled, cancelled, notifier, borrowed>>
            /\ UNCHANGED <<failed, open>>
        BY <1>3 DEF CheckLane, laneVars, native, genVars
      <3>2. /\ pc[w].at = "check" /\ pc'[w].at \in {"leaveSend", "reserve"}
            /\ pc'[w].at = "reserve" => ~failed[g] /\ ~cancelled[<<g, w>>]
        BY <1>0, <1>3, <2>1 DEF CheckLane, PlaceType
      <3>3. CASE pc'[w].at = "leaveSend"
        <4>1. LaneSame(g, w)
          BY <2>3, <3>1 DEF LaneSame, TokensSame
        <4> QED
          BY <2>4, <3>2, <3>3, <4>1, LanePlain DEF Telling
      <3>4. CASE pc'[w].at = "reserve"
        <4>1. HasDriver(g, w)' <=> HasDriver(g, w)
          BY <2>3, <3>1, <3>2, <3>4 DEF HasDriver, Stands, Notifying, TokensSame
        <4> QED
          BY <2>4, <3>1, <3>2, <3>4, <4>1 DEF LaneBooks, Stands, Holds
      <3> QED
        BY <3>2, <3>3, <3>4
    <2> QED
      BY <1>0, <2>1, <2>2, <2>3, <2>5, OneLane
  <1>4. ASSUME NEW w \in Workers, Reserve(w) PROVE LanesGood'
    <2>1. PICK g \in Gens : g = pc[w].g /\ <<g, w>> \in Lanes
      BY <1>4, InGens DEF Reserve
    <2>2. OtherLanes(g, w)
      <3>1. \A k \in Lanes : k # <<g, w>> =>
               batch'[k] = batch[k] /\ buffers'[k] = buffers[k]
        BY <1>0, <1>4, <2>1 DEF Reserve, LaneType, laneVars
      <3>2. \A k \in Lanes : k # <<g, w>> =>
               scheduled'[k] = scheduled[k] /\ cancelled'[k] = cancelled[k]
        BY <1>0, <1>4, <2>1 DEF Reserve, FlagType, laneVars
      <3>3. \A k \in Lanes : k # <<g, w>> => notifier'[k] = notifier[k]
        BY <1>0, <1>4, <2>1 DEF Reserve, FlagType, native
      <3>4. \A k \in Lanes : k # <<g, w>> => (k \in borrowed' <=> k \in borrowed)
        BY <1>0, <1>4, <2>1 DEF Reserve, native
      <3>5. open' = open /\ sent' = sent
        BY <1>4 DEF Reserve, genVars
      <3>6. \A h \in Gens : failed[h] => failed'[h]
        BY <1>0, <1>4, <2>1 DEF Reserve, GenType, genVars
      <3>7. /\ \A v \in Workers : v # w => pc'[v] = pc[v]
            /\ pc' = pc \/ (pc[w].g \in {g, 0} /\ pc'[w].g \in {g, 0})
        BY <1>0, <1>4, <2>1 DEF Reserve, PlaceType, PlaceBooks
      <3> QED
        BY <3>1, <3>2, <3>3, <3>4, <3>5, <3>6, <3>7 DEF OtherLanes
    <2>3. TokensSame
      <3>1. mailbox' = mailbox /\ timed' = timed
        BY <1>4 DEF Reserve, queueVars
      <3> QED
        BY <3>1, QueuesStay
    <2>4. LaneBooks(g, w) /\ DriverBooks(g, w)
      BY <1>0, <2>1 DEF LanesGood
    <2>5. LaneBooks(g, w)'
      <3>1. /\ UNCHANGED <<batch, scheduled, cancelled, notifier, borrowed, failed>>
            /\ UNCHANGED <<open, sent>>
        BY <1>4 DEF Reserve, native
      <3>2. /\ pc[w].at = "reserve" /\ pc'[w].at \in {"leaveSend", "schedule"}
            /\ \/ buffers' = buffers /\ pc'[w].at = "leaveSend"
               \/ /\ buffers'[<<g, w>>] = Append(buffers[<<g, w>>], Packet(w))
                  /\ pc'[w].at = "leaveSend" <=> scheduled[<<g, w>>]
        <4>1. CASE packets[g] >= PacketLimit
          BY <1>0, <1>4, <2>1, <4>1 DEF Reserve, PlaceType
        <4>2. CASE ~(packets[g] >= PacketLimit)
          <5>1. /\ pc[w].at = "reserve"
                /\ buffers' = [buffers EXCEPT ![<<g, w>>] = Append(@, Packet(w))]
                /\ pc' = [pc EXCEPT ![w].at =
                            IF scheduled[<<g, w>>] THEN "leaveSend" ELSE "schedule"]
            BY <1>4, <2>1, <4>2 DEF Reserve
          <5>2. buffers'[<<g, w>>] = Append(buffers[<<g, w>>], Packet(w))
            BY <1>0, <2>1, <5>1 DEF LaneType
          <5>3. pc'[w].at = IF scheduled[<<g, w>>] THEN "leaveSend" ELSE "schedule"
            BY <1>0, <5>1 DEF PlaceType
          <5> QED
            BY <5>1, <5>2, <5>3
        <4> QED
          BY <4>1, <4>2
      <3>3. HasDriver(g, w)' <=> HasDriver(g, w)
        BY <2>3, <3>1, <3>2 DEF HasDriver, Stands, Notifying, TokensSame
      <3>4. CASE buffers' = buffers /\ pc'[w].at = "leaveSend"
        BY <2>1, <2>4, <3>1, <3>2, <3>3, <3>4 DEF LaneBooks, Stands, Holds
      <3>5. CASE /\ buffers'[<<g, w>>] = Append(buffers[<<g, w>>], Packet(w))
                 /\ pc'[w].at = "leaveSend" <=> scheduled[<<g, w>>]
        <4>1. buffers[<<g, w>>] \in Seq(Packets) /\ Packet(w) \in Packets
          BY <1>0, <1>4, <2>1, PacketIs DEF LaneType, Reserve, Sending
        <4>2. Range(buffers'[<<g, w>>]) = Range(buffers[<<g, w>>]) \cup {Packet(w)}
          BY <3>5, <4>1, AppendRange
        <4>3. Packet(w)[1] = w /\ Packet(w)' = Packet(w)
          BY <3>1 DEF Packet
        <4>4. \A p \in Range(batch'[<<g, w>>]) \cup Range(buffers'[<<g, w>>]) : p[1] = w
          BY <2>4, <3>1, <4>2, <4>3 DEF LaneBooks
        <4>5. CASE scheduled[<<g, w>>]
          BY <2>1, <2>4, <3>1, <3>2, <3>3, <3>5, <4>4, <4>5 DEF LaneBooks, Stands
        <4>6. CASE ~scheduled[<<g, w>>]
          <5>1. batch[<<g, w>>] = << >> /\ buffers[<<g, w>>] = << >>
            BY <2>1, <2>4, <3>2, <4>6 DEF LaneBooks, Stands, Holds
          <5>2. buffers'[<<g, w>>] = <<Packet(w)>>
            BY <3>5, <5>1
          <5>3. pc'[w].at = "schedule" /\ pc'[w].g = g
            BY <1>0, <1>4, <2>1, <3>2, <3>5, <4>6 DEF Reserve, PlaceType
          <5> QED
            BY <2>4, <3>1, <4>3, <4>4, <4>6, <5>1, <5>2, <5>3
               DEF LaneBooks, Stands
        <4> QED
          BY <4>5, <4>6
      <3> QED
        BY <3>2, <3>4, <3>5
    <2> QED
      BY <1>0, <2>1, <2>2, <2>3, <2>5, OneLane
  <1>5. ASSUME NEW w \in Workers, ScheduleSend(w) PROVE LanesGood'
    <2>1. PICK g \in Gens : g = pc[w].g /\ <<g, w>> \in Lanes
      BY <1>5, InGens DEF ScheduleSend
    <2>2. OtherLanes(g, w)
      <3>1. \A k \in Lanes : k # <<g, w>> =>
               batch'[k] = batch[k] /\ buffers'[k] = buffers[k]
        BY <1>0, <1>5, <2>1
           DEF ScheduleSend, Accept, Refuse, LaneType, laneVars
      <3>2. \A k \in Lanes : k # <<g, w>> =>
               scheduled'[k] = scheduled[k] /\ cancelled'[k] = cancelled[k]
        BY <1>0, <1>5, <2>1
           DEF ScheduleSend, Accept, Refuse, FlagType, laneVars
      <3>3. \A k \in Lanes : k # <<g, w>> => notifier'[k] = notifier[k]
        BY <1>0, <1>5, <2>1 DEF ScheduleSend, Accept, Refuse, FlagType, native
      <3>4. \A k \in Lanes : k # <<g, w>> => (k \in borrowed' <=> k \in borrowed)
        BY <1>0, <1>5, <2>1 DEF ScheduleSend, Accept, Refuse, native
      <3>5. open' = open /\ sent' = sent
        BY <1>5 DEF ScheduleSend, Accept, Refuse, genVars
      <3>6. \A h \in Gens : failed[h] => failed'[h]
        BY <1>0, <1>5, <2>1 DEF ScheduleSend, Accept, Refuse, GenType, genVars
      <3>7. /\ \A v \in Workers : v # w => pc'[v] = pc[v]
            /\ pc' = pc \/ (pc[w].g \in {g, 0} /\ pc'[w].g \in {g, 0})
        BY <1>0, <1>5, <2>1
           DEF ScheduleSend, Accept, Refuse, PlaceType, PlaceBooks
      <3> QED
        BY <3>1, <3>2, <3>3, <3>4, <3>5, <3>6, <3>7 DEF OtherLanes
    <2>3. DriverBooks(g, w) /\ LaneBooks(g, w) /\ ~scheduled[<<g, w>>]
      BY <1>0, <1>5, <2>1 DEF DriverBooks, LanesGood, ScheduleSend
    <2>4. ~HasToken(g, w) /\ ~Notifying(<<g, w>>)
      BY <2>3 DEF DriverBooks
    <2>5. /\ UNCHANGED <<batch, buffers, notifier, borrowed, failed, open, sent>>
          /\ pc[w].at \in {"schedule"}
      BY <1>5 DEF ScheduleSend, native
    <2>6. CASE /\ Accept(g, w, 0)
               /\ scheduled' = [scheduled EXCEPT ![<<g, w>>] = TRUE]
               /\ Goto(w, "leaveSend")
      <3>1. TokenAdded(g, w) /\ cancelled' = cancelled
        BY <2>4, <2>6, Accepting
      <3>2. scheduled'[<<g, w>>] /\ pc'[w].at = "leaveSend"
        BY <1>0, <2>1, <2>6 DEF FlagType, PlaceType
      <3>3. HasDriver(g, w)'
        BY <3>1 DEF HasDriver, TokenAdded
      <3>4. LaneBooks(g, w)'
        BY <2>3, <2>5, <3>1, <3>2, <3>3 DEF LaneBooks, Stands, Holds
      <3> QED
        BY <1>0, <2>2, <3>1, <3>4, OneLane
    <2>7. CASE /\ Refuse(g, w) /\ scheduled' = scheduled
               /\ Goto(w, "undo")
      <3>1. TokensSame /\ cancelled' = [cancelled EXCEPT ![<<g, w>>] = TRUE]
        BY <2>7, Refusing
      <3>2. cancelled'[<<g, w>>] /\ pc'[w].at = "undo" /\ ~scheduled'[<<g, w>>]
        BY <1>0, <2>1, <2>3, <2>7, <3>1 DEF FlagType, PlaceType
      <3>4. LaneBooks(g, w)'
        BY <2>1, <2>3, <2>5, <3>2 DEF LaneBooks, Stands, Holds, Packet
      <3> QED
        BY <1>0, <2>2, <3>1, <3>4, OneLane
    <2> QED
      BY <1>5, <2>1, <2>6, <2>7 DEF ScheduleSend
  <1>6. ASSUME NEW w \in Workers, UndoSend(w) PROVE LanesGood'
    <2>1. PICK g \in Gens : g = pc[w].g /\ <<g, w>> \in Lanes
      BY <1>6, InGens DEF UndoSend
    <2>2. OtherLanes(g, w)
      <3>1. \A k \in Lanes : k # <<g, w>> =>
               batch'[k] = batch[k] /\ buffers'[k] = buffers[k]
        BY <1>0, <1>6, <2>1 DEF UndoSend, LaneType, laneVars
      <3>2. \A k \in Lanes : k # <<g, w>> =>
               scheduled'[k] = scheduled[k] /\ cancelled'[k] = cancelled[k]
        BY <1>0, <1>6, <2>1 DEF UndoSend, FlagType, laneVars
      <3>3. \A k \in Lanes : k # <<g, w>> => notifier'[k] = notifier[k]
        BY <1>0, <1>6, <2>1 DEF UndoSend, FlagType, native
      <3>4. \A k \in Lanes : k # <<g, w>> => (k \in borrowed' <=> k \in borrowed)
        BY <1>0, <1>6, <2>1 DEF UndoSend, native
      <3>5. open' = open /\ sent' = sent
        BY <1>6 DEF UndoSend, genVars
      <3>6. \A h \in Gens : failed[h] => failed'[h]
        BY <1>0, <1>6, <2>1 DEF UndoSend, GenType, genVars
      <3>7. /\ \A v \in Workers : v # w => pc'[v] = pc[v]
            /\ pc' = pc \/ (pc[w].g \in {g, 0} /\ pc'[w].g \in {g, 0})
        BY <1>0, <1>6, <2>1 DEF UndoSend, PlaceType, PlaceBooks
      <3> QED
        BY <3>1, <3>2, <3>3, <3>4, <3>5, <3>6, <3>7 DEF OtherLanes
    <2>3. TokensSame
      <3>1. mailbox' = mailbox /\ timed' = timed
        BY <1>6 DEF UndoSend, queueVars
      <3> QED
        BY <3>1, QueuesStay
    <2>4. LaneBooks(g, w) /\ DriverBooks(g, w)
      BY <1>0, <2>1 DEF LanesGood
    <2>5. LaneBooks(g, w)'
      <3>1. /\ UNCHANGED <<batch, scheduled, notifier, borrowed>>
            /\ pc[w].at = "undo" /\ pc'[w].at = "leaveSend"
            /\ buffers'[<<g, w>>] = Front(buffers[<<g, w>>])
        BY <1>0, <1>6, <2>1 DEF UndoSend, native, PlaceType, LaneType
      <3>2. /\ batch[<<g, w>>] = << >> /\ ~scheduled[<<g, w>>]
            /\ buffers[<<g, w>>] = <<Packet(w)>>
        BY <2>1, <2>4, <3>1 DEF LaneBooks, Stands
      <3>3. buffers'[<<g, w>>] = << >>
        BY <3>1, <3>2, FrontOfOne
      <3>4. Range(<< >>) = {}
        BY DEF Range
      <3> QED
        BY <2>4, <3>1, <3>2, <3>3, <3>4 DEF LaneBooks, Stands, Holds
    <2> QED
      BY <1>0, <2>1, <2>2, <2>3, <2>5, OneLane
  <1>7. ASSUME NEW w \in Workers, Leave(w) PROVE LanesGood'
    <2>1. /\ UNCHANGED <<batch, buffers, scheduled, cancelled, notifier, borrowed>>
          /\ UNCHANGED <<failed, open>>
      BY <1>7 DEF Leave, laneVars, native, genVars
    <2>2. TokensSame
      <3>1. mailbox' = mailbox /\ timed' = timed
        BY <1>7 DEF Leave, queueVars
      <3> QED
        BY <3>1, QueuesStay
    <2>3. /\ \A v \in Workers : v # w => pc'[v] = pc[v] /\ sent'[v] = sent[v]
          /\ pc[w].at \notin Telling \cup {"drain"} /\ pc'[w].at \notin Telling
      BY <1>0, <1>7 DEF Leave, PlaceType, Idle, Telling
    <2>4. \A h \in Gens, v \in Workers : LaneSame(h, v)
      BY <2>1, <2>2 DEF LaneSame, TokensSame
    <2>5. \A h \in Gens : LaneBooks(h, w)'
      BY <1>0, <2>3, <2>4, LanePlain DEF LanesGood
    <2>6. \A h \in Gens, v \in Workers : v # w => LaneBooks(h, v)'
      BY <1>0, <2>3, <2>4, LaneFrame DEF LanesGood, Away
    <2> QED
      BY <2>5, <2>6 DEF LanesGood
  <1>8. ASSUME NEW w \in Workers, Expire(w) PROVE LanesGood'
    <2>1. /\ UNCHANGED <<batch, buffers, scheduled, cancelled, notifier, borrowed>>
          /\ UNCHANGED <<pc, sent, failed>>
          /\ \A h \in Gens : open'[h] => open[h]
      BY <1>0, <1>8 DEF Expire, laneVars, native, genVars, GenType
    <2>2. TokensSame
      BY <1>8, TokenExpires
    <2>3. \A h \in Gens, v \in Workers : LaneSame(h, v) /\ Away(h, v)
      BY <2>1, <2>2 DEF LaneSame, Away, TokensSame
    <2> QED
      BY <1>0, <2>3, LaneFrame DEF LanesGood
  <1>9. ASSUME NEW w \in Workers, BeginDrain(w) PROVE LanesGood'
    <2>1. PICK g \in Gens :
             g = Head(mailbox[w]) /\ mailbox[w] # << >> /\ <<g, w>> \in Lanes
      BY <1>0, <1>9 DEF BeginDrain, MailType, Lanes
    <2>2. OtherLanes(g, w)
      <3>1. \A k \in Lanes : k # <<g, w>> =>
               batch'[k] = batch[k] /\ buffers'[k] = buffers[k]
        BY <1>0, <1>9, <2>1 DEF BeginDrain, LaneType, laneVars
      <3>2. \A k \in Lanes : k # <<g, w>> =>
               scheduled'[k] = scheduled[k] /\ cancelled'[k] = cancelled[k]
        BY <1>0, <1>9, <2>1 DEF BeginDrain, FlagType, laneVars
      <3>3. \A k \in Lanes : k # <<g, w>> => notifier'[k] = notifier[k]
        BY <1>0, <1>9, <2>1 DEF BeginDrain, FlagType, native
      <3>4. \A k \in Lanes : k # <<g, w>> => (k \in borrowed' <=> k \in borrowed)
        BY <1>0, <1>9, <2>1 DEF BeginDrain, native
      <3>5. open' = open /\ sent' = sent
        BY <1>9 DEF BeginDrain, genVars
      <3>6. \A h \in Gens : failed[h] => failed'[h]
        BY <1>0, <1>9, <2>1 DEF BeginDrain, GenType, genVars
      <3>7. /\ \A v \in Workers : v # w => pc'[v] = pc[v]
            /\ pc' = pc \/ (pc[w].g \in {g, 0} /\ pc'[w].g \in {g, 0})
        BY <1>0, <1>9, <2>1 DEF BeginDrain, PlaceType, PlaceBooks
      <3> QED
        BY <3>1, <3>2, <3>3, <3>4, <3>5, <3>6, <3>7 DEF OtherLanes
    <2>3. TokenTaken(g, w)
      <3>1. mailbox' = [mailbox EXCEPT ![w] = Tail(@)] /\ timed' = timed
        BY <1>9 DEF BeginDrain
      <3> QED
        BY <2>1, <3>1, QueueLoses
    <2>4. LaneBooks(g, w) /\ DriverBooks(g, w)
      BY <1>0, <2>1 DEF LanesGood
    <2>5. LaneBooks(g, w)'
      <3>1. /\ UNCHANGED <<batch, buffers, scheduled, cancelled, notifier, borrowed>>
            /\ UNCHANGED <<failed, open>> /\ pc[w].at = "idle" /\ pc'[w].g = g
            /\ pc'[w].at \in {"drain", "unref"}
            /\ open[g] => pc'[w].at = "drain"
        BY <1>0, <1>9, <2>1 DEF BeginDrain, laneVars, native, PlaceType
      <3>2. open[g] => HasDriver(g, w)'
        BY <3>1 DEF HasDriver, Stands
      <3> QED
        BY <2>4, <3>1, <3>2 DEF LaneBooks, Stands, Holds
    <2> QED
      BY <1>0, <2>1, <2>2, <2>3, <2>5, OneLane
  <1>10. ASSUME NEW w \in Workers, PrepareDrain(w) PROVE LanesGood'
    <2>1. PICK g \in Gens : g = pc[w].g /\ <<g, w>> \in Lanes
      BY <1>10, InGens DEF PrepareDrain
    <2>2. OtherLanes(g, w)
      <3>1. \A k \in Lanes : k # <<g, w>> =>
               batch'[k] = batch[k] /\ buffers'[k] = buffers[k]
        BY <1>0, <1>10, <2>1 DEF PrepareDrain, FillBatch, LaneType, laneVars
      <3>2. \A k \in Lanes : k # <<g, w>> =>
               scheduled'[k] = scheduled[k] /\ cancelled'[k] = cancelled[k]
        BY <1>0, <1>10, <2>1 DEF PrepareDrain, FillBatch, FlagType, laneVars
      <3>3. \A k \in Lanes : k # <<g, w>> => notifier'[k] = notifier[k]
        BY <1>0, <1>10, <2>1 DEF PrepareDrain, FillBatch, FlagType, native
      <3>4. \A k \in Lanes : k # <<g, w>> => (k \in borrowed' <=> k \in borrowed)
        BY <1>0, <1>10, <2>1 DEF PrepareDrain, FillBatch, native
      <3>5. open' = open /\ sent' = sent
        BY <1>10 DEF PrepareDrain, FillBatch, genVars
      <3>6. \A h \in Gens : failed[h] => failed'[h]
        BY <1>0, <1>10, <2>1 DEF PrepareDrain, FillBatch, GenType, genVars
      <3>7. /\ \A v \in Workers : v # w => pc'[v] = pc[v]
            /\ pc' = pc \/ (pc[w].g \in {g, 0} /\ pc'[w].g \in {g, 0})
        BY <1>0, <1>10, <2>1 DEF PrepareDrain, FillBatch, PlaceType, PlaceBooks
      <3> QED
        BY <3>1, <3>2, <3>3, <3>4, <3>5, <3>6, <3>7 DEF OtherLanes
    <2>3. TokensSame
      <3>1. mailbox' = mailbox /\ timed' = timed
        BY <1>10 DEF PrepareDrain, FillBatch, queueVars
      <3> QED
        BY <3>1, QueuesStay
    <2>4. LaneBooks(g, w) /\ DriverBooks(g, w)
      BY <1>0, <2>1 DEF LanesGood
    <2>5. LaneBooks(g, w)'
      <3>1. /\ UNCHANGED <<cancelled, notifier, borrowed, failed, open>>
            /\ pc[w].at = "drain" /\ pc'[w].g = g
            /\ ~scheduled'[<<g, w>>]
            /\ \/ /\ failed[g] \/ cancelled[<<g, w>>]
                  /\ pc'[w].at = "leaveDrain" /\ UNCHANGED <<batch, buffers>>
               \/ FillBatch(<<g, w>>) /\ pc'[w].at = "write"
        BY <1>0, <1>10, <2>1 DEF PrepareDrain, native, genVars, PlaceType, FlagType
      <3>2. CASE /\ failed[g] \/ cancelled[<<g, w>>]
                 /\ pc'[w].at = "leaveDrain" /\ UNCHANGED <<batch, buffers>>
        BY <2>4, <3>1, <3>2 DEF LaneBooks, Stands, Holds
      <3>3. CASE FillBatch(<<g, w>>) /\ pc'[w].at = "write"
        <4>1. HasDriver(g, w) /\ g = current
          BY <1>10, <2>1, <3>1, InsideIsCurrent DEF HasDriver, Stands
        <4>2. batch[<<g, w>>] # << >> \/ buffers[<<g, w>>] # << >>
          BY <1>0, <4>1 DEF NativeGood, NativeBooks, Holds
        <4>3. /\ batch'[<<g, w>>] # << >>
              /\ Range(batch'[<<g, w>>]) \cup Range(buffers'[<<g, w>>])
                   = Range(batch[<<g, w>>]) \cup Range(buffers[<<g, w>>])
          BY <1>0, <2>1, <3>3, <4>2, BatchFilled
        <4> QED
          BY <2>4, <3>1, <3>3, <4>3 DEF LaneBooks, Stands
      <3> QED
        BY <3>1, <3>2, <3>3
    <2> QED
      BY <1>0, <2>1, <2>2, <2>3, <2>5, OneLane
  <1>11. ASSUME NEW w \in Workers, NEW n \in 0 .. BatchMax,
                NEW status \in {"continue", "blocked", "failed"},
                Write(w, n, status)
         PROVE  LanesGood'
    <2>1. PICK g \in Gens : g = pc[w].g /\ <<g, w>> \in Lanes
      BY <1>11, InGens DEF Write
    <2>2. OtherLanes(g, w)
      <3>1. \A k \in Lanes : k # <<g, w>> =>
               batch'[k] = batch[k] /\ buffers'[k] = buffers[k]
        BY <1>0, <1>11, <2>1 DEF Write, LaneType, laneVars
      <3>2. \A k \in Lanes : k # <<g, w>> =>
               scheduled'[k] = scheduled[k] /\ cancelled'[k] = cancelled[k]
        BY <1>0, <1>11, <2>1 DEF Write, FlagType, laneVars
      <3>3. \A k \in Lanes : k # <<g, w>> => notifier'[k] = notifier[k]
        BY <1>0, <1>11, <2>1 DEF Write, FlagType, native
      <3>4. \A k \in Lanes : k # <<g, w>> => (k \in borrowed' <=> k \in borrowed)
        BY <1>0, <1>11, <2>1 DEF Write, native
      <3>5. open' = open /\ sent' = sent
        BY <1>11 DEF Write, genVars
      <3>6. \A h \in Gens : failed[h] => failed'[h]
        BY <1>0, <1>11, <2>1 DEF Write, GenType, genVars
      <3>7. /\ \A v \in Workers : v # w => pc'[v] = pc[v]
            /\ pc' = pc \/ (pc[w].g \in {g, 0} /\ pc'[w].g \in {g, 0})
        BY <1>0, <1>11, <2>1 DEF Write, PlaceType, PlaceBooks
      <3> QED
        BY <3>1, <3>2, <3>3, <3>4, <3>5, <3>6, <3>7 DEF OtherLanes
    <2>3. TokensSame
      <3>1. mailbox' = mailbox /\ timed' = timed
        BY <1>11 DEF Write, queueVars
      <3> QED
        BY <3>1, QueuesStay
    <2>4. LaneBooks(g, w) /\ DriverBooks(g, w)
      BY <1>0, <2>1 DEF LanesGood
    <2>5. LaneBooks(g, w)'
      <3> DEFINE b == batch[<<g, w>>]
                 awaits == status = "blocked" /\ delay = 0
      <3>1. /\ UNCHANGED <<buffers, cancelled, open>>
            /\ pc[w].at = "write" /\ pc'[w].g = g
            /\ n <= Len(b) /\ (status = "blocked" => n < Len(b))
            /\ batch'[<<g, w>>] = SubSeq(b, n + 1, Len(b))
            /\ <<g, w>> \in borrowed' <=> awaits
            /\ awaits => notifier'[<<g, w>>] = "armed"
            /\ scheduled'[<<g, w>>] <=> awaits
            /\ status = "failed" => failed'[g]
        <4>1. /\ UNCHANGED <<buffers, cancelled, open>> /\ pc[w].at = "write"
              /\ n <= Len(b) /\ (status = "blocked" => n < Len(b))
              /\ batch' = [batch EXCEPT ![<<g, w>>] = SubSeq(@, n + 1, Len(@))]
              /\ borrowed' = IF awaits THEN borrowed \cup {<<g, w>>}
                                       ELSE borrowed \ {<<g, w>>}
              /\ notifier' = [notifier EXCEPT ![<<g, w>>] =
                                IF awaits THEN "armed" ELSE @]
              /\ scheduled' = [scheduled EXCEPT ![<<g, w>>] = awaits]
              /\ failed' = [failed EXCEPT ![g] = @ \/ status = "failed"]
          BY <1>11, <2>1 DEF Write
        <4>2. batch'[<<g, w>>] = SubSeq(b, n + 1, Len(b))
          BY <1>0, <2>1, <4>1 DEF LaneType
        <4>3. <<g, w>> \in borrowed' <=> awaits
          BY <4>1
        <4>4. awaits => notifier'[<<g, w>>] = "armed"
          BY <1>0, <2>1, <4>1 DEF FlagType
        <4>5. scheduled'[<<g, w>>] <=> awaits
          BY <1>0, <2>1, <4>1, Zenon DEF FlagType
        <4>6. status = "failed" => failed'[g]
          BY <1>0, <2>1, <4>1 DEF GenType
        <4>7. pc'[w].g = g
          BY <1>11, <2>1, WriteGoesWhere
        <4> QED
          BY <4>1, <4>2, <4>3, <4>4, <4>5, <4>6, <4>7
      <3>2. b \in Seq(Packets) /\ n \in 0 .. Len(b) /\ Len(b) \in Nat
        BY <1>0, <2>1, <3>1, RawWriterAssumption DEF LaneType
      <3> HIDE DEF b
      <3>3. /\ Len(batch'[<<g, w>>]) = Len(b) - n
            /\ Range(batch'[<<g, w>>]) \subseteq Range(b)
        BY <3>1, <3>2, Cut, CutRange
      <3>4. batch'[<<g, w>>] # << >> <=> n < Len(b)
        <4>1. batch'[<<g, w>>] \in Seq(Packets)
          BY <3>1, <3>2, Cut
        <4>2. batch'[<<g, w>>] = << >> <=> Len(batch'[<<g, w>>]) = 0
          BY <4>1
        <4> QED
          BY <3>2, <3>3, <4>2
      <3>5. /\ pc'[w].at \in {"leaveFailed", "leaveDrain", "retry", "again"}
            /\ pc'[w].at \in {"retry", "again"} <=>
                  /\ status # "failed" /\ ~awaits
                  /\ n < Len(b) \/ buffers[<<g, w>>] # << >>
        BY <1>11, <2>1, WriteGoesWhere DEF b
      <3>6. awaits => HasDriver(g, w)'
        BY <3>1 DEF HasDriver, Notifying
      <3>7. \A p \in Range(batch'[<<g, w>>]) \cup Range(buffers'[<<g, w>>]) : p[1] = w
        BY <2>4, <3>1, <3>3 DEF LaneBooks, b
      <3> QED
        BY <3>1, <3>4, <3>5, <3>6, <3>7 DEF LaneBooks, Stands, Holds
    <2> QED
      BY <1>0, <2>1, <2>2, <2>3, <2>5, OneLane
  <1>12. ASSUME NEW w \in Workers, ScheduleDrain(w) PROVE LanesGood'
    <2>1. PICK g \in Gens : g = pc[w].g /\ <<g, w>> \in Lanes
      BY <1>12, InGens DEF ScheduleDrain
    <2>2. OtherLanes(g, w)
      <3>1. \A k \in Lanes : k # <<g, w>> =>
               batch'[k] = batch[k] /\ buffers'[k] = buffers[k]
        BY <1>0, <1>12, <2>1
           DEF ScheduleDrain, Accept, Refuse, LaneType, laneVars
      <3>2. \A k \in Lanes : k # <<g, w>> =>
               scheduled'[k] = scheduled[k] /\ cancelled'[k] = cancelled[k]
        BY <1>0, <1>12, <2>1
           DEF ScheduleDrain, Accept, Refuse, FlagType, laneVars
      <3>3. \A k \in Lanes : k # <<g, w>> => notifier'[k] = notifier[k]
        BY <1>0, <1>12, <2>1
           DEF ScheduleDrain, Accept, Refuse, FlagType, native
      <3>4. \A k \in Lanes : k # <<g, w>> => (k \in borrowed' <=> k \in borrowed)
        BY <1>0, <1>12, <2>1 DEF ScheduleDrain, Accept, Refuse, native
      <3>5. open' = open /\ sent' = sent
        BY <1>12 DEF ScheduleDrain, Accept, Refuse, genVars
      <3>6. \A h \in Gens : failed[h] => failed'[h]
        BY <1>0, <1>12, <2>1
           DEF ScheduleDrain, Accept, Refuse, GenType, genVars
      <3>7. /\ \A v \in Workers : v # w => pc'[v] = pc[v]
            /\ pc' = pc \/ (pc[w].g \in {g, 0} /\ pc'[w].g \in {g, 0})
        BY <1>0, <1>12, <2>1
           DEF ScheduleDrain, Accept, Refuse, PlaceType, PlaceBooks
      <3> QED
        BY <3>1, <3>2, <3>3, <3>4, <3>5, <3>6, <3>7 DEF OtherLanes
    <2>3. DriverBooks(g, w) /\ LaneBooks(g, w) /\ ~scheduled[<<g, w>>]
      BY <1>0, <1>12, <2>1 DEF DriverBooks, LanesGood, ScheduleDrain
    <2>4. ~HasToken(g, w) /\ ~Notifying(<<g, w>>)
      BY <2>3 DEF DriverBooks
    <2>5. /\ UNCHANGED <<batch, buffers, notifier, borrowed, failed, open, sent>>
          /\ pc[w].at \in {"again", "retry"}
      BY <1>12 DEF ScheduleDrain, native
    <2>6. CASE /\ Accept(g, w, IF pc[w].at = "retry" THEN delay ELSE 0)
               /\ scheduled' = [scheduled EXCEPT ![<<g, w>>] = TRUE]
               /\ Goto(w, "leaveDrain")
      <3>1. TokenAdded(g, w) /\ cancelled' = cancelled
        BY <2>4, <2>6, Accepting
      <3>2. scheduled'[<<g, w>>] /\ pc'[w].at = "leaveDrain"
        BY <1>0, <2>1, <2>6 DEF FlagType, PlaceType
      <3>3. HasDriver(g, w)'
        BY <3>1 DEF HasDriver, TokenAdded
      <3>4. LaneBooks(g, w)'
        BY <2>3, <2>5, <3>1, <3>2, <3>3 DEF LaneBooks, Stands, Holds
      <3> QED
        BY <1>0, <2>2, <3>1, <3>4, OneLane
    <2>7. CASE /\ Refuse(g, w) /\ scheduled' = scheduled
               /\ Goto(w, "leaveDrain")
      <3>1. TokensSame /\ cancelled' = [cancelled EXCEPT ![<<g, w>>] = TRUE]
        BY <2>7, Refusing
      <3>2. cancelled'[<<g, w>>] /\ pc'[w].at = "leaveDrain" /\ ~scheduled'[<<g, w>>]
        BY <1>0, <2>1, <2>3, <2>7, <3>1 DEF FlagType, PlaceType
      <3>4. LaneBooks(g, w)'
        BY <2>1, <2>3, <2>5, <3>2 DEF LaneBooks, Stands, Holds, Packet
      <3> QED
        BY <1>0, <2>2, <3>1, <3>4, OneLane
    <2> QED
      BY <1>12, <2>1, <2>6, <2>7 DEF ScheduleDrain
  <1>13. ASSUME NEW w \in Workers, FailDrain(w) PROVE LanesGood'
    <2>1. /\ UNCHANGED <<batch, buffers, scheduled, cancelled, notifier, borrowed>>
          /\ UNCHANGED <<failed, open>>
      BY <1>13 DEF FailDrain, laneVars, native, genVars
    <2>2. TokensSame
      <3>1. mailbox' = mailbox /\ timed' = timed
        BY <1>13 DEF FailDrain, queueVars
      <3> QED
        BY <3>1, QueuesStay
    <2>3. /\ \A v \in Workers : v # w => pc'[v] = pc[v] /\ sent'[v] = sent[v]
          /\ pc[w].at \notin Telling \cup {"drain"} /\ pc'[w].at \notin Telling
      BY <1>0, <1>13 DEF FailDrain, PlaceType, Idle, Telling
    <2>4. \A h \in Gens, v \in Workers : LaneSame(h, v)
      BY <2>1, <2>2 DEF LaneSame, TokensSame
    <2>5. \A h \in Gens : LaneBooks(h, w)'
      BY <1>0, <2>3, <2>4, LanePlain DEF LanesGood
    <2>6. \A h \in Gens, v \in Workers : v # w => LaneBooks(h, v)'
      BY <1>0, <2>3, <2>4, LaneFrame DEF LanesGood, Away
    <2> QED
      BY <2>5, <2>6 DEF LanesGood
  <1>14. ASSUME NEW w \in Workers, EndDrain(w) PROVE LanesGood'
    <2>1. /\ UNCHANGED <<batch, buffers, scheduled, cancelled, notifier, borrowed>>
          /\ UNCHANGED <<failed, open>>
      BY <1>14 DEF EndDrain, Unref, laneVars, native, genVars
    <2>2. TokensSame
      <3>1. mailbox' = mailbox /\ timed' = timed
        BY <1>14 DEF EndDrain, Unref, queueVars
      <3> QED
        BY <3>1, QueuesStay
    <2>3. /\ \A v \in Workers : v # w => pc'[v] = pc[v] /\ sent'[v] = sent[v]
          /\ pc[w].at \notin Telling \cup {"drain"} /\ pc'[w].at \notin Telling
      BY <1>0, <1>14 DEF EndDrain, Unref, PlaceType, Idle, Telling
    <2>4. \A h \in Gens, v \in Workers : LaneSame(h, v)
      BY <2>1, <2>2 DEF LaneSame, TokensSame
    <2>5. \A h \in Gens : LaneBooks(h, w)'
      BY <1>0, <2>3, <2>4, LanePlain DEF LanesGood
    <2>6. \A h \in Gens, v \in Workers : v # w => LaneBooks(h, v)'
      BY <1>0, <2>3, <2>4, LaneFrame DEF LanesGood, Away
    <2> QED
      BY <2>5, <2>6 DEF LanesGood
  <1>15. ASSUME NEW w \in Workers, CloseMailbox(w) PROVE LanesGood'
    <2>1. /\ UNCHANGED <<batch, buffers, scheduled, cancelled, notifier, borrowed>>
          /\ UNCHANGED <<pc, sent, failed>>
          /\ \A h \in Gens : open'[h] => open[h]
      BY <1>0, <1>15 DEF CloseMailbox, laneVars, native, genVars, GenType
    <2>2. TokensSame
      <3>1. mailbox' = mailbox /\ timed' = timed
        BY <1>15 DEF CloseMailbox, queueVars
      <3> QED
        BY <3>1, QueuesStay
    <2>3. \A h \in Gens, v \in Workers : LaneSame(h, v) /\ Away(h, v)
      BY <2>1, <2>2 DEF LaneSame, Away, TokensSame
    <2> QED
      BY <1>0, <2>3, LaneFrame DEF LanesGood
  <1>16. ASSUME NEW w \in Workers, CancelToken(w) PROVE LanesGood'
    <2>1. PICK g \in Gens :
             /\ \/ /\ mailbox[w] # << >> /\ g = Head(mailbox[w])
                   /\ mailbox' = [mailbox EXCEPT ![w] = Tail(@)]
                   /\ timed' = timed
                \/ /\ timed[w] # << >> /\ g = Head(timed[w])
                   /\ timed' = [timed EXCEPT ![w] = Tail(@)]
                   /\ mailbox' = mailbox
             /\ cancelled' = [cancelled EXCEPT ![<<g, w>>] = TRUE]
             /\ <<g, w>> \in Lanes
      BY <1>16 DEF CancelToken, Lanes
    <2>2. OtherLanes(g, w)
      <3>1. /\ UNCHANGED <<batch, buffers, scheduled, notifier, borrowed>>
            /\ UNCHANGED <<failed, open, pc, sent>>
        BY <1>16 DEF CancelToken, native
      <3> QED
        BY <1>0, <2>1, <3>1 DEF OtherLanes, FlagType
    <2>3. TokenTaken(g, w)
      BY <2>1, QueueLoses
    <2>4. LaneBooks(g, w) /\ DriverBooks(g, w)
      BY <1>0, <2>1 DEF LanesGood
    <2>5. LaneBooks(g, w)'
      <3>1. /\ UNCHANGED <<batch, buffers, scheduled, notifier, borrowed>>
            /\ UNCHANGED <<failed, open>> /\ pc' = pc /\ pc[w].at = "idle"
        BY <1>16 DEF CancelToken, laneVars, native
      <3>2. cancelled'[<<g, w>>]
        BY <1>0, <2>1 DEF FlagType
      <3> QED
        BY <2>4, <3>1, <3>2 DEF LaneBooks, Stands, Holds
    <2> QED
      BY <1>0, <2>1, <2>2, <2>3, <2>5, OneLane
  <1>17. ASSUME NEW l \in Lanes, EnterToNotify(l) PROVE LanesGood'
    <2>1. PICK g \in Gens, w \in Workers : l = <<g, w>>
      BY DEF Lanes
    <2>2. OtherLanes(g, w)
      <3>1. \A k \in Lanes : k # <<g, w>> =>
               batch'[k] = batch[k] /\ buffers'[k] = buffers[k]
        BY <1>0, <1>17, <2>1 DEF EnterToNotify, LaneType, laneVars
      <3>2. \A k \in Lanes : k # <<g, w>> =>
               scheduled'[k] = scheduled[k] /\ cancelled'[k] = cancelled[k]
        BY <1>0, <1>17, <2>1 DEF EnterToNotify, FlagType, laneVars
      <3>3. \A k \in Lanes : k # <<g, w>> => notifier'[k] = notifier[k]
        BY <1>0, <1>17, <2>1 DEF EnterToNotify, FlagType, native
      <3>4. \A k \in Lanes : k # <<g, w>> => (k \in borrowed' <=> k \in borrowed)
        BY <1>0, <1>17, <2>1 DEF EnterToNotify, native
      <3>5. open' = open /\ sent' = sent
        BY <1>17 DEF EnterToNotify, genVars
      <3>6. \A h \in Gens : failed[h] => failed'[h]
        BY <1>0, <1>17, <2>1 DEF EnterToNotify, GenType, genVars
      <3>7. /\ \A v \in Workers : v # w => pc'[v] = pc[v]
            /\ pc' = pc \/ (pc[w].g \in {g, 0} /\ pc'[w].g \in {g, 0})
        BY <1>0, <1>17, <2>1 DEF EnterToNotify, PlaceType, PlaceBooks
      <3> QED
        BY <3>1, <3>2, <3>3, <3>4, <3>5, <3>6, <3>7 DEF OtherLanes
    <2>3. TokensSame
      <3>1. mailbox' = mailbox /\ timed' = timed
        BY <1>17 DEF EnterToNotify, queueVars
      <3> QED
        BY <3>1, QueuesStay
    <2>4. LaneBooks(g, w) /\ DriverBooks(g, w)
      BY <1>0, <2>1 DEF LanesGood
    <2>5. LaneBooks(g, w)'
      <3>1. /\ UNCHANGED <<batch, buffers, scheduled, cancelled, borrowed>>
            /\ UNCHANGED <<failed, open, pc, sent>>
            /\ notifier[<<g, w>>] = "armed"
            /\ open[g] => notifier'[<<g, w>>] = "inside"
        BY <1>0, <1>17, <2>1 DEF EnterToNotify, laneVars, FlagType
      <3>2. open[g] => HasDriver(g, w)'
        BY <3>1 DEF HasDriver, Notifying
      <3> QED
        BY <2>4, <3>1, <3>2 DEF LaneBooks, Stands, Holds, Packet
    <2> QED
      BY <1>0, <2>1, <2>2, <2>3, <2>5, OneLane
  <1>18. ASSUME NEW l \in Lanes, PostNotification(l) PROVE LanesGood'
    <2>1. PICK g \in Gens, w \in Workers : l = <<g, w>>
      BY DEF Lanes
    <2>2. /\ UNCHANGED <<batch, buffers, scheduled, borrowed, failed, open, pc, sent>>
          /\ notifier' = [notifier EXCEPT ![<<g, w>>] = "none"]
          /\ notifier[<<g, w>>] = "inside"
      BY <1>18, <2>1 DEF PostNotification
    <2>3. DriverBooks(g, w) /\ LaneBooks(g, w) /\ Notifying(<<g, w>>)
      BY <1>0, <2>1, <2>2 DEF Notifying, LanesGood
    <2>4. ~HasToken(g, w) /\ scheduled[<<g, w>>]
      BY <2>3 DEF DriverBooks
    <2>5. CASE Accept(g, w, 0)
      <3>1. TokenAdded(g, w) /\ cancelled' = cancelled
        BY <2>4, <2>5, Accepting
      <3>2. OtherLanes(g, w)
        BY <1>0, <2>1, <2>2, <3>1 DEF OtherLanes, FlagType
      <3>3. HasDriver(g, w)'
        BY <3>1 DEF HasDriver, TokenAdded
      <3>4. LaneBooks(g, w)'
        BY <2>2, <2>3, <3>1, <3>3 DEF LaneBooks, Stands, Holds, Packet
      <3> QED
        BY <1>0, <3>1, <3>2, <3>4, OneLane
    <2>6. CASE Refuse(g, w)
      <3>1. TokensSame /\ cancelled' = [cancelled EXCEPT ![<<g, w>>] = TRUE]
        BY <2>6, Refusing
      <3>2. OtherLanes(g, w)
        BY <1>0, <2>1, <2>2, <3>1 DEF OtherLanes, FlagType
      <3>3. cancelled'[<<g, w>>]
        BY <1>0, <2>1, <3>1 DEF FlagType
      <3>4. LaneBooks(g, w)'
        BY <2>2, <2>3, <3>3 DEF LaneBooks, Stands, Holds, Packet
      <3> QED
        BY <1>0, <3>1, <3>2, <3>4, OneLane
    <2>7. CASE /\ failed[g] \/ cancelled[<<g, w>>]
               /\ UNCHANGED <<references, mailbox, timed, cancelled, refusals>>
      <3>1. TokensSame
        BY <2>7, QueuesStay
      <3>2. OtherLanes(g, w)
        BY <1>0, <2>1, <2>2, <2>7 DEF OtherLanes, FlagType
      <3>3. LaneBooks(g, w)'
        BY <2>2, <2>3, <2>7 DEF LaneBooks, Stands, Holds, Packet
      <3> QED
        BY <1>0, <3>1, <3>2, <3>3, OneLane
    <2> QED
      BY <1>18, <2>1, <2>5, <2>6, <2>7 DEF PostNotification
  <1>19. ASSUME NEW l \in Lanes, LeaveNotify(l) PROVE LanesGood'
    <2>1. /\ UNCHANGED <<batch, buffers, scheduled, cancelled, notifier, borrowed>>
          /\ UNCHANGED <<pc, sent, failed>>
          /\ \A h \in Gens : open'[h] => open[h]
      BY <1>0, <1>19 DEF LeaveNotify, laneVars, native, genVars, GenType
    <2>2. TokensSame
      <3>1. mailbox' = mailbox /\ timed' = timed
        BY <1>19 DEF LeaveNotify, queueVars
      <3> QED
        BY <3>1, QueuesStay
    <2>3. \A h \in Gens, v \in Workers : LaneSame(h, v) /\ Away(h, v)
      BY <2>1, <2>2 DEF LaneSame, Away, TokensSame
    <2> QED
      BY <1>0, <2>3, LaneFrame DEF LanesGood
  <1>20. ASSUME Open PROVE LanesGood'
    <2>1. PICK g \in Gens :
             g > opened /\ open' = [open EXCEPT ![g] = TRUE]
      <3>1. opened + 1 \in Gens /\ opened + 1 > opened
        BY <1>0, <1>20, RawWriterAssumption DEF Open, OwnerType, Gens
      <3>2. open' = [open EXCEPT ![opened + 1] = TRUE]
        BY <1>20 DEF Open
      <3> QED
        BY <3>1, <3>2
    <2>2. /\ UNCHANGED <<batch, buffers, scheduled, cancelled, notifier, borrowed>>
          /\ UNCHANGED <<pc, sent, failed>>
      BY <1>20 DEF Open, laneVars, native
    <2>3. TokensSame
      <3>1. mailbox' = mailbox /\ timed' = timed
        BY <1>20 DEF Open, queueVars
      <3> QED
        BY <3>1, QueuesStay
    <2>4. \A h \in Gens : h # g => open'[h] = open[h]
      BY <1>0, <2>1 DEF GenType
    <2>5. ASSUME NEW h \in Gens, NEW v \in Workers, h # g PROVE LaneBooks(h, v)'
      <3>1. LaneSame(h, v) /\ Away(h, v)
        BY <2>2, <2>3, <2>4, <2>5 DEF LaneSame, Away, TokensSame
      <3> QED
        BY <1>0, <3>1, LaneFrame DEF LanesGood
    <2>6. ASSUME NEW v \in Workers PROVE LaneBooks(g, v)'
      <3>1. ~scheduled[<<g, v>>] /\ LaneBooks(g, v)
        BY <1>0, <2>1 DEF StoresGood, StoreBooks, LanesGood
      <3> QED
        BY <2>2, <3>1 DEF LaneBooks, Stands, Holds, Packet
    <2> QED
      BY <2>5, <2>6 DEF LanesGood
  <1>21. ASSUME Unpublish PROVE LanesGood'
    <2>1. /\ UNCHANGED <<batch, buffers, scheduled, cancelled, notifier, borrowed>>
          /\ UNCHANGED <<pc, sent, failed>>
          /\ \A h \in Gens : open'[h] => open[h]
      BY <1>0, <1>21 DEF Unpublish, laneVars, native, genVars, GenType
    <2>2. TokensSame
      <3>1. mailbox' = mailbox /\ timed' = timed
        BY <1>21 DEF Unpublish, queueVars
      <3> QED
        BY <3>1, QueuesStay
    <2>3. \A h \in Gens, v \in Workers : LaneSame(h, v) /\ Away(h, v)
      BY <2>1, <2>2 DEF LaneSame, Away, TokensSame
    <2> QED
      BY <1>0, <2>3, LaneFrame DEF LanesGood
  <1>22. ASSUME CloseGate PROVE LanesGood'
    <2>1. /\ UNCHANGED <<batch, buffers, scheduled, cancelled, notifier, borrowed>>
          /\ UNCHANGED <<pc, sent, failed>>
          /\ \A h \in Gens : open'[h] => open[h]
      BY <1>0, <1>22 DEF CloseGate, laneVars, native, genVars, GenType
    <2>2. TokensSame
      <3>1. mailbox' = mailbox /\ timed' = timed
        BY <1>22 DEF CloseGate, queueVars
      <3> QED
        BY <3>1, QueuesStay
    <2>3. \A h \in Gens, v \in Workers : LaneSame(h, v) /\ Away(h, v)
      BY <2>1, <2>2 DEF LaneSame, Away, TokensSame
    <2> QED
      BY <1>0, <2>3, LaneFrame DEF LanesGood
  <1>23. ASSUME StopNative PROVE LanesGood'
    <2>1. PICK c \in Gens : c = current /\ ~open[c]
      BY <1>0, <1>23 DEF StopNative, OwnerBooks, OwnerType, GateBooks, Gens
    <2>2. /\ UNCHANGED <<batch, buffers, scheduled, cancelled>>
          /\ UNCHANGED <<pc, sent, failed, open>>
          /\ borrowed' \subseteq borrowed
          /\ \A h \in Gens, v \in Workers : h # c =>
                /\ notifier'[<<h, v>>] = notifier[<<h, v>>]
                /\ <<h, v>> \in borrowed' <=> <<h, v>> \in borrowed
      BY <1>23, <2>1 DEF StopNative, laneVars, genVars, CurrentLanes, Lanes
    <2>3. TokensSame
      <3>1. mailbox' = mailbox /\ timed' = timed
        BY <1>23 DEF StopNative, queueVars
      <3> QED
        BY <3>1, QueuesStay
    <2>4. ASSUME NEW h \in Gens, NEW v \in Workers, h # c PROVE LaneBooks(h, v)'
      <3>1. LaneSame(h, v) /\ Away(h, v)
        BY <2>2, <2>3, <2>4 DEF LaneSame, Away, TokensSame
      <3> QED
        BY <1>0, <3>1, LaneFrame DEF LanesGood
    <2>5. ASSUME NEW v \in Workers PROVE LaneBooks(c, v)'
      <3>1. LaneBooks(c, v)
        BY <1>0 DEF LanesGood
      <3> QED
        BY <2>1, <2>2, <3>1 DEF LaneBooks, Stands, Holds, Packet
    <2> QED
      BY <2>4, <2>5 DEF LanesGood
  <1>24. ASSUME Discard PROVE LanesGood'
    <2>1. PICK c \in Gens : c = current /\ owner = "discard"
      BY <1>0, <1>24 DEF Discard, OwnerBooks, OwnerType, Gens
    <2>2. /\ UNCHANGED <<scheduled, cancelled, notifier, borrowed>>
          /\ UNCHANGED <<pc, sent, failed, open>>
          /\ \A h \in Gens, v \in Workers : h # c =>
                /\ batch'[<<h, v>>] = batch[<<h, v>>]
                /\ buffers'[<<h, v>>] = buffers[<<h, v>>]
          /\ \A v \in Workers :
                batch'[<<c, v>>] = << >> /\ buffers'[<<c, v>>] = << >>
      BY <1>24, <2>1 DEF Discard, native, CurrentLanes, Lanes
    <2>3. TokensSame
      <3>1. mailbox' = mailbox /\ timed' = timed
        BY <1>24 DEF Discard, queueVars
      <3> QED
        BY <3>1, QueuesStay
    <2>4. ASSUME NEW h \in Gens, NEW v \in Workers, h # c PROVE LaneBooks(h, v)'
      <3>1. LaneSame(h, v) /\ Away(h, v)
        BY <2>2, <2>3, <2>4 DEF LaneSame, Away, TokensSame
      <3> QED
        BY <1>0, <3>1, LaneFrame DEF LanesGood
    <2>5. ASSUME NEW v \in Workers PROVE LaneBooks(c, v)'
      <3>1. LaneBooks(c, v) /\ <<c, v>> \notin borrowed
        BY <1>0, <2>1 DEF LanesGood, NativeGood, NativeBooks
      <3>2. pc[v].g = c => pc[v].at \in {"idle", "enter", "unref"}
        BY <2>1, InsideIsCurrent
      <3>3. HasDriver(c, v)' <=> HasDriver(c, v)
        BY <2>2, <2>3 DEF HasDriver, Stands, Notifying, TokensSame
      <3>4. Range(<< >>) = {}
        BY DEF Range
      <3> QED
        BY <2>2, <3>1, <3>2, <3>3, <3>4 DEF LaneBooks, Stands, Holds
    <2> QED
      BY <2>4, <2>5 DEF LanesGood
  <1>25. ASSUME BeginDestroy PROVE LanesGood'
    <2>1. /\ UNCHANGED <<batch, buffers, scheduled, cancelled, notifier, borrowed>>
          /\ UNCHANGED <<pc, sent, failed>>
          /\ \A h \in Gens : open'[h] => open[h]
      BY <1>0, <1>25 DEF BeginDestroy, laneVars, native, genVars, GenType
    <2>2. TokensSame
      <3>1. mailbox' = mailbox /\ timed' = timed
        BY <1>25 DEF BeginDestroy, queueVars
      <3> QED
        BY <3>1, QueuesStay
    <2>3. \A h \in Gens, v \in Workers : LaneSame(h, v) /\ Away(h, v)
      BY <2>1, <2>2 DEF LaneSame, Away, TokensSame
    <2> QED
      BY <1>0, <2>3, LaneFrame DEF LanesGood
  <1>26. ASSUME NEW g \in Gens, DestroyOne(g) PROVE LanesGood'
    <2>1. /\ UNCHANGED <<batch, buffers, scheduled, cancelled, notifier, borrowed>>
          /\ UNCHANGED <<pc, sent, failed>>
          /\ \A h \in Gens : open'[h] => open[h]
      BY <1>0, <1>26 DEF DestroyOne, Unref, laneVars, native, genVars, GenType
    <2>2. TokensSame
      <3>1. mailbox' = mailbox /\ timed' = timed
        BY <1>26 DEF DestroyOne, Unref, queueVars
      <3> QED
        BY <3>1, QueuesStay
    <2>3. \A h \in Gens, v \in Workers : LaneSame(h, v) /\ Away(h, v)
      BY <2>1, <2>2 DEF LaneSame, Away, TokensSame
    <2> QED
      BY <1>0, <2>3, LaneFrame DEF LanesGood
  <1> QED
    BY <1>1, <1>2, <1>3, <1>4, <1>5, <1>6, <1>7, <1>8, <1>9, <1>10, <1>11,
       <1>12, <1>13, <1>14, <1>15, <1>16, <1>17, <1>18, <1>19, <1>20, <1>21,
       <1>22, <1>23, <1>24, <1>25, <1>26
       DEF Next, SendStep, DrainStep, NotifyStep, CloseStep, DestroyStep

-----------------------------------------------------------------------------
(* The native calls, when no lane gets a driver and none is emptied.       *)
LEMMA NativeFrame ==
    ASSUME NativeGood, NoNewToken, borrowed' \subseteq borrowed,
           \A h \in Gens, v \in Workers :
              Notifying(<<h, v>>)' => Notifying(<<h, v>>),
           \A h \in Gens, v \in Workers : Holds(<<h, v>>) => Holds(<<h, v>>)',
           \A v \in Workers : pc'[v] = pc[v] \/ pc'[v].at # "drain",
           current' = current, owner' = owner \/ owner' # "discard"
    PROVE  NativeGood'
  <1>1. ASSUME NEW h \in Gens, NEW v \in Workers PROVE NativeBooks(h, v)'
    <2>1. HasDriver(h, v)' => HasDriver(h, v)
      BY DEF HasDriver, Stands, NoNewToken
    <2>2. NativeBooks(h, v)
      BY DEF NativeGood
    <2> QED
      BY <2>1, <2>2 DEF NativeBooks
  <1> QED
    BY <1>1 DEF NativeGood

(* The same when only one lane is concerned.                               *)
LEMMA NativeOne ==
    ASSUME NativeGood, NEW g \in Gens, NEW w \in Workers,
           \A h \in Gens, v \in Workers : <<h, v>> # <<g, w>> =>
              /\ Notifying(<<h, v>>)' => Notifying(<<h, v>>)
              /\ <<h, v>> \in borrowed' => <<h, v>> \in borrowed
              /\ Holds(<<h, v>>) => Holds(<<h, v>>)'
              /\ HasToken(h, v)' => HasToken(h, v),
           \A v \in Workers : pc'[v] = pc[v] \/ pc'[v].at # "drain"
                                 \/ (v = w /\ pc'[v].g = g),
           current' = current, owner' = owner, NativeBooks(g, w)'
    PROVE  NativeGood'
  <1>1. ASSUME NEW h \in Gens, NEW v \in Workers, <<h, v>> # <<g, w>>
        PROVE  NativeBooks(h, v)'
    <2>1. /\ Notifying(<<h, v>>)' => Notifying(<<h, v>>)
          /\ <<h, v>> \in borrowed' => <<h, v>> \in borrowed
          /\ Holds(<<h, v>>) => Holds(<<h, v>>)'
          /\ HasToken(h, v)' => HasToken(h, v)
      BY <1>1
    <2>2. Stands(v, h, {"drain"})' => Stands(v, h, {"drain"})
      BY <1>1 DEF Stands
    <2>3. HasDriver(h, v)' => HasDriver(h, v)
      BY <2>1, <2>2 DEF HasDriver
    <2>4. NativeBooks(h, v)
      BY DEF NativeGood
    <2> QED
      BY <2>1, <2>3, <2>4 DEF NativeBooks
  <1> QED
    BY <1>1 DEF NativeGood

(* An appended sequence is not empty.                                      *)
LEMMA NeverEmpty ==
    ASSUME NEW S, NEW q \in Seq(S), NEW x \in S PROVE Append(q, x) # << >>
  <1>1. Len(Append(q, x)) = Len(q) + 1 /\ Len(q) \in Nat
    OBVIOUS
  <1>2. Len(Append(q, x)) # 0 /\ Len(<< >>) = 0
    BY <1>1
  <1> QED
    BY <1>2, Zenon

(* An unmarked lane has no driver.                                         *)
LEMMA Undriven ==
    ASSUME Books, NEW h \in Gens, NEW v \in Workers, ~scheduled[<<h, v>>]
    PROVE  ~HasToken(h, v) /\ ~Notifying(<<h, v>>) /\ ~HasDriver(h, v)
  BY Facts1 DEF DriverBooks, HasDriver, Stands

(* The native calls.                                                       *)
LEMMA NativeKept ==
    ASSUME Books, Next, ~Over,
           LanesGood, NativeGood, StoresGood
    PROVE  NativeGood'
  <1>0. /\ PlaceType /\ FlagType /\ MailType /\ GenType /\ LaneType /\ OwnerType
        /\ OwnerBooks /\ LanesGood /\ NativeGood /\ StoresGood
        /\ \A v \in Workers : PlaceBooks(v) /\ TokenBooks(v)
        /\ \A g \in Gens, v \in Workers : DriverBooks(g, v)
        /\ \A g \in Gens : GateBooks(g)
    BY Facts1
  <1>1. ASSUME NEW w \in Workers, SelectGeneration(w) PROVE NativeGood'
    <2>1. /\ borrowed' = borrowed /\ current' = current
          /\ owner' = owner \/ owner' # "discard"
      BY <1>1 DEF SelectGeneration, native, writerVars
    <2>2. NoNewToken
      <3>1. mailbox' = mailbox /\ timed' = timed
        BY <1>1 DEF SelectGeneration, queueVars
      <3> QED
        BY <3>1, QueuesStay
    <2>3. \A v \in Workers : pc'[v] = pc[v] \/ pc'[v].at # "drain"
      BY <1>0, <1>1 DEF SelectGeneration, PlaceType, Idle
    <2>4. \A h \in Gens, v \in Workers :
             Notifying(<<h, v>>)' => Notifying(<<h, v>>)
      <3>1. notifier' = notifier
        BY <1>1 DEF SelectGeneration, native
      <3> QED
        BY <3>1 DEF Notifying
    <2>5. \A h \in Gens, v \in Workers : Holds(<<h, v>>) => Holds(<<h, v>>)'
      <3>1. batch' = batch /\ buffers' = buffers
        BY <1>1 DEF SelectGeneration, laneVars
      <3> QED
        BY <3>1 DEF Holds
    <2> QED
      BY <1>0, <2>1, <2>2, <2>3, <2>4, <2>5, NativeFrame
  <1>2. ASSUME NEW w \in Workers, EnterToSend(w) PROVE NativeGood'
    <2>1. /\ borrowed' = borrowed /\ current' = current
          /\ owner' = owner \/ owner' # "discard"
      BY <1>2 DEF EnterToSend, native, writerVars
    <2>2. NoNewToken
      <3>1. mailbox' = mailbox /\ timed' = timed
        BY <1>2 DEF EnterToSend, queueVars
      <3> QED
        BY <3>1, QueuesStay
    <2>3. \A v \in Workers : pc'[v] = pc[v] \/ pc'[v].at # "drain"
      BY <1>0, <1>2 DEF EnterToSend, PlaceType, Idle
    <2>4. \A h \in Gens, v \in Workers :
             Notifying(<<h, v>>)' => Notifying(<<h, v>>)
      <3>1. notifier' = notifier
        BY <1>2 DEF EnterToSend, native
      <3> QED
        BY <3>1 DEF Notifying
    <2>5. \A h \in Gens, v \in Workers : Holds(<<h, v>>) => Holds(<<h, v>>)'
      <3>1. batch' = batch /\ buffers' = buffers
        BY <1>2 DEF EnterToSend, laneVars
      <3> QED
        BY <3>1 DEF Holds
    <2> QED
      BY <1>0, <2>1, <2>2, <2>3, <2>4, <2>5, NativeFrame
  <1>3. ASSUME NEW w \in Workers, CheckLane(w) PROVE NativeGood'
    <2>1. /\ borrowed' = borrowed /\ current' = current
          /\ owner' = owner \/ owner' # "discard"
      BY <1>3 DEF CheckLane, native, writerVars
    <2>2. NoNewToken
      <3>1. mailbox' = mailbox /\ timed' = timed
        BY <1>3 DEF CheckLane, queueVars
      <3> QED
        BY <3>1, QueuesStay
    <2>3. \A v \in Workers : pc'[v] = pc[v] \/ pc'[v].at # "drain"
      BY <1>0, <1>3 DEF CheckLane, PlaceType, Idle
    <2>4. \A h \in Gens, v \in Workers :
             Notifying(<<h, v>>)' => Notifying(<<h, v>>)
      <3>1. notifier' = notifier
        BY <1>3 DEF CheckLane, native
      <3> QED
        BY <3>1 DEF Notifying
    <2>5. \A h \in Gens, v \in Workers : Holds(<<h, v>>) => Holds(<<h, v>>)'
      <3>1. batch' = batch /\ buffers' = buffers
        BY <1>3 DEF CheckLane, laneVars
      <3> QED
        BY <3>1 DEF Holds
    <2> QED
      BY <1>0, <2>1, <2>2, <2>3, <2>4, <2>5, NativeFrame
  <1>4. ASSUME NEW w \in Workers, Reserve(w) PROVE NativeGood'
    <2>1. /\ borrowed' = borrowed /\ current' = current
          /\ owner' = owner \/ owner' # "discard"
      BY <1>4 DEF Reserve, native, writerVars
    <2>2. NoNewToken
      <3>1. mailbox' = mailbox /\ timed' = timed
        BY <1>4 DEF Reserve, queueVars
      <3> QED
        BY <3>1, QueuesStay
    <2>3. \A v \in Workers : pc'[v] = pc[v] \/ pc'[v].at # "drain"
      BY <1>0, <1>4 DEF Reserve, PlaceType, Idle
    <2>4. \A h \in Gens, v \in Workers :
             Notifying(<<h, v>>)' => Notifying(<<h, v>>)
      <3>1. notifier' = notifier
        BY <1>4 DEF Reserve, native
      <3> QED
        BY <3>1 DEF Notifying
    <2>5. \A h \in Gens, v \in Workers : Holds(<<h, v>>) => Holds(<<h, v>>)'
      <3>1. PICK g \in Gens : g = pc[w].g /\ <<g, w>> \in Lanes
        BY <1>4, InGens DEF Reserve
      <3>2. /\ batch' = batch
            /\ \/ buffers' = buffers
               \/ buffers' = [buffers EXCEPT ![<<g, w>>] = Append(@, Packet(w))]
        BY <1>4, <3>1 DEF Reserve
      <3>3. ASSUME NEW h \in Gens, NEW v \in Workers, buffers[<<h, v>>] # << >>
            PROVE  buffers'[<<h, v>>] # << >>
        <4>1. CASE buffers' = buffers
          BY <3>3, <4>1
        <4>2. CASE buffers' = [buffers EXCEPT ![<<g, w>>] = Append(@, Packet(w))]
          <5>1. <<h, v>> \in Lanes
            BY DEF Lanes
          <5>2. CASE <<h, v>> = <<g, w>>
            <6>1. buffers'[<<g, w>>] = Append(buffers[<<g, w>>], Packet(w))
              BY <1>0, <3>1, <4>2 DEF LaneType
            <6>2. buffers[<<g, w>>] \in Seq(Packets) /\ Packet(w) \in Packets
              BY <1>0, <1>4, <3>1, PacketIs DEF LaneType, Reserve, Sending
            <6>3. Append(buffers[<<g, w>>], Packet(w)) # << >>
              BY <6>2, NeverEmpty
            <6> QED
              BY <5>2, <6>1, <6>3
          <5>3. CASE <<h, v>> # <<g, w>>
            BY <1>0, <3>1, <3>3, <4>2, <5>1, <5>3 DEF LaneType
          <5> QED
            BY <5>2, <5>3
        <4> QED
          BY <3>2, <4>1, <4>2
      <3> QED
        BY <3>2, <3>3 DEF Holds
    <2> QED
      BY <1>0, <2>1, <2>2, <2>3, <2>4, <2>5, NativeFrame
  <1>5. ASSUME NEW w \in Workers, ScheduleSend(w) PROVE NativeGood'
    <2>1. PICK g \in Gens : g = pc[w].g /\ <<g, w>> \in Lanes
      BY <1>5, InGens DEF ScheduleSend
    <2>2. /\ UNCHANGED <<batch, buffers, notifier, borrowed, current, owner>>
          /\ \A v \in Workers : pc'[v] = pc[v] \/ pc'[v].at # "drain"
      <3>1. UNCHANGED <<batch, buffers, notifier, borrowed, current, owner>>
        BY <1>5 DEF ScheduleSend, native, writerVars
      <3>2. \A v \in Workers : pc'[v] = pc[v] \/ pc'[v].at # "drain"
        BY <1>0, <1>5 DEF ScheduleSend, PlaceType
      <3> QED
        BY <3>1, <3>2
    <2>3. ~scheduled[<<g, w>>] /\ Holds(<<g, w>>)
      BY <1>0, <1>5, <2>1 DEF ScheduleSend, DriverBooks, LanesGood, LaneBooks, Stands, Holds
    <2>5. TokensSame \/ TokenAdded(g, w)
      <3>1. ~HasToken(g, w)
        BY <2>3, Undriven
      <3>2. Refuse(g, w) \/ \E after \in {0, delay} : Accept(g, w, after)
        BY <1>5, <2>1 DEF ScheduleSend
      <3> QED
        BY <3>1, <3>2, Accepting, Refusing
    <2>6. NativeBooks(g, w)'
      <3>1. NativeBooks(g, w)
        BY <1>0 DEF NativeGood
      <3> QED
        BY <2>2, <2>3, <3>1 DEF NativeBooks, Notifying, Holds
    <2> QED
      BY <1>0, <2>2, <2>5, <2>6, NativeOne DEF TokensSame, TokenAdded, Holds, Notifying
  <1>6. ASSUME NEW w \in Workers, UndoSend(w) PROVE NativeGood'
    <2>1. PICK g \in Gens : g = pc[w].g /\ <<g, w>> \in Lanes
      BY <1>6, InGens DEF UndoSend
    <2>2. UNCHANGED <<batch, notifier, borrowed, current, owner, mailbox, timed>>
      BY <1>6 DEF UndoSend, native, writerVars, queueVars
    <2>3. /\ \A v \in Workers : pc'[v] = pc[v] \/ pc'[v].at # "drain"
          /\ pc'[w].at = "leaveSend"
      BY <1>0, <1>6 DEF UndoSend, PlaceType
    <2>4. \A k \in Lanes : k # <<g, w>> => buffers'[k] = buffers[k]
      BY <1>0, <1>6, <2>1 DEF UndoSend, LaneType
    <2>5. ~scheduled[<<g, w>>]
      BY <1>0, <1>6, <2>1 DEF UndoSend, LanesGood, LaneBooks, Stands
    <2>6. TokensSame /\ ~HasDriver(g, w)
      BY <2>2, <2>5, QueuesStay, Undriven
    <2>7. ~HasDriver(g, w)'
      BY <2>2, <2>3, <2>6 DEF HasDriver, Stands, Notifying, TokensSame
    <2>8. NativeBooks(g, w)'
      <3>1. NativeBooks(g, w)
        BY <1>0 DEF NativeGood
      <3> QED
        BY <2>2, <2>7, <3>1 DEF NativeBooks, Notifying
    <2>9. ASSUME NEW h \in Gens, NEW v \in Workers, <<h, v>> # <<g, w>>
          PROVE  Holds(<<h, v>>) => Holds(<<h, v>>)'
      BY <2>2, <2>4, <2>9 DEF Holds, Lanes
    <2> QED
      BY <1>0, <2>2, <2>3, <2>6, <2>8, <2>9, NativeOne DEF TokensSame, Notifying
  <1>7. ASSUME NEW w \in Workers, Leave(w) PROVE NativeGood'
    <2>1. /\ borrowed' = borrowed /\ current' = current
          /\ owner' = owner \/ owner' # "discard"
      BY <1>7 DEF Leave, native, writerVars
    <2>2. NoNewToken
      <3>1. mailbox' = mailbox /\ timed' = timed
        BY <1>7 DEF Leave, queueVars
      <3> QED
        BY <3>1, QueuesStay
    <2>3. \A v \in Workers : pc'[v] = pc[v] \/ pc'[v].at # "drain"
      BY <1>0, <1>7 DEF Leave, PlaceType, Idle
    <2>4. \A h \in Gens, v \in Workers :
             Notifying(<<h, v>>)' => Notifying(<<h, v>>)
      <3>1. notifier' = notifier
        BY <1>7 DEF Leave, native
      <3> QED
        BY <3>1 DEF Notifying
    <2>5. \A h \in Gens, v \in Workers : Holds(<<h, v>>) => Holds(<<h, v>>)'
      <3>1. batch' = batch /\ buffers' = buffers
        BY <1>7 DEF Leave, laneVars
      <3> QED
        BY <3>1 DEF Holds
    <2> QED
      BY <1>0, <2>1, <2>2, <2>3, <2>4, <2>5, NativeFrame
  <1>8. ASSUME NEW w \in Workers, Expire(w) PROVE NativeGood'
    <2>1. /\ borrowed' = borrowed /\ current' = current
          /\ owner' = owner \/ owner' # "discard"
      BY <1>8 DEF Expire, native, writerVars
    <2>2. NoNewToken
      BY <1>8, TokenExpires
    <2>3. \A v \in Workers : pc'[v] = pc[v] \/ pc'[v].at # "drain"
      BY <1>0, <1>8 DEF Expire, PlaceType, Idle
    <2>4. \A h \in Gens, v \in Workers :
             Notifying(<<h, v>>)' => Notifying(<<h, v>>)
      <3>1. notifier' = notifier
        BY <1>8 DEF Expire, native
      <3> QED
        BY <3>1 DEF Notifying
    <2>5. \A h \in Gens, v \in Workers : Holds(<<h, v>>) => Holds(<<h, v>>)'
      <3>1. batch' = batch /\ buffers' = buffers
        BY <1>8 DEF Expire, laneVars
      <3> QED
        BY <3>1 DEF Holds
    <2> QED
      BY <1>0, <2>1, <2>2, <2>3, <2>4, <2>5, NativeFrame
  <1>9. ASSUME NEW w \in Workers, BeginDrain(w) PROVE NativeGood'
    <2>1. PICK g \in Gens :
             g = Head(mailbox[w]) /\ mailbox[w] # << >> /\ <<g, w>> \in Lanes
      BY <1>0, <1>9 DEF BeginDrain, MailType, Lanes
    <2>2. UNCHANGED <<batch, buffers, notifier, borrowed, current, owner>>
      BY <1>9 DEF BeginDrain, native, writerVars, laneVars
    <2>3. /\ \A v \in Workers : v # w => pc'[v] = pc[v]
          /\ pc'[w].g = g
      BY <1>0, <1>9, <2>1 DEF BeginDrain, PlaceType
    <2>4. TokenTaken(g, w)
      <3>1. mailbox' = [mailbox EXCEPT ![w] = Tail(@)] /\ timed' = timed
        BY <1>9 DEF BeginDrain
      <3> QED
        BY <2>1, <3>1, QueueLoses
    <2>5. HasDriver(g, w)
      BY <2>4 DEF HasDriver, TokenTaken
    <2>6. NativeBooks(g, w)'
      <3>1. NativeBooks(g, w)
        BY <1>0 DEF NativeGood
      <3> QED
        BY <2>2, <2>5, <3>1 DEF NativeBooks, Notifying, Holds
    <2> QED
      BY <1>0, <2>2, <2>3, <2>4, <2>6, NativeOne DEF TokenTaken, Notifying, Holds
  <1>10. ASSUME NEW w \in Workers, PrepareDrain(w) PROVE NativeGood'
    <2>1. /\ borrowed' = borrowed /\ current' = current
          /\ owner' = owner \/ owner' # "discard"
      BY <1>10 DEF PrepareDrain, FillBatch, native, writerVars
    <2>2. NoNewToken
      <3>1. mailbox' = mailbox /\ timed' = timed
        BY <1>10 DEF PrepareDrain, FillBatch, queueVars
      <3> QED
        BY <3>1, QueuesStay
    <2>3. \A v \in Workers : pc'[v] = pc[v] \/ pc'[v].at # "drain"
      BY <1>0, <1>10 DEF PrepareDrain, FillBatch, PlaceType, Idle
    <2>4. \A h \in Gens, v \in Workers :
             Notifying(<<h, v>>)' => Notifying(<<h, v>>)
      <3>1. notifier' = notifier
        BY <1>10 DEF PrepareDrain, FillBatch, native
      <3> QED
        BY <3>1 DEF Notifying
    <2>5. \A h \in Gens, v \in Workers : Holds(<<h, v>>) => Holds(<<h, v>>)'
      <3>1. PICK g \in Gens : g = pc[w].g /\ <<g, w>> \in Lanes
        BY <1>10, InGens DEF PrepareDrain
      <3>2. UNCHANGED <<batch, buffers>> \/ FillBatch(<<g, w>>)
        BY <1>10, <3>1 DEF PrepareDrain
      <3>3. CASE UNCHANGED <<batch, buffers>>
        BY <3>3 DEF Holds
      <3>4. CASE FillBatch(<<g, w>>)
        <4>1. Holds(<<g, w>>) => Holds(<<g, w>>)'
          BY <1>0, <3>1, <3>4, BatchFilled DEF Holds
        <4>2. \A k \in Lanes : k # <<g, w>> =>
                 batch'[k] = batch[k] /\ buffers'[k] = buffers[k]
          BY <1>0, <3>1, <3>4 DEF FillBatch, LaneType
        <4>3. ASSUME NEW h \in Gens, NEW v \in Workers, <<h, v>> # <<g, w>>
              PROVE  Holds(<<h, v>>) => Holds(<<h, v>>)'
          BY <4>2, <4>3 DEF Holds, Lanes
        <4> QED
          BY <4>1, <4>3
      <3> QED
        BY <3>2, <3>3, <3>4
    <2> QED
      BY <1>0, <2>1, <2>2, <2>3, <2>4, <2>5, NativeFrame
  <1>11. ASSUME NEW w \in Workers, NEW n \in 0 .. BatchMax,
                NEW status \in {"continue", "blocked", "failed"},
                Write(w, n, status)
         PROVE  NativeGood'
    <2>1. PICK g \in Gens : g = pc[w].g /\ <<g, w>> \in Lanes
      BY <1>11, InGens DEF Write
    <2> DEFINE awaits == status = "blocked" /\ delay = 0
    <2>2. /\ UNCHANGED <<buffers, current, owner, mailbox, timed>>
          /\ pc[w].at = "write"
          /\ status = "blocked" => n < Len(batch[<<g, w>>])
          /\ batch' = [batch EXCEPT ![<<g, w>>] = SubSeq(@, n + 1, Len(@))]
          /\ notifier' = [notifier EXCEPT ![<<g, w>>] =
                            IF awaits THEN "armed" ELSE @]
          /\ borrowed' = IF awaits THEN borrowed \cup {<<g, w>>}
                                   ELSE borrowed \ {<<g, w>>}
      BY <1>11, <2>1 DEF Write, writerVars, queueVars
    <2>3. \A v \in Workers : pc'[v] = pc[v] \/ pc'[v].at # "drain"
      <3>1. \A v \in Workers : v # w => pc'[v] = pc[v]
        BY <1>0, <1>11 DEF Write, PlaceType
      <3> QED
        BY <1>11, <3>1, WriteGoesOn
    <2>4. /\ ~scheduled[<<g, w>>] /\ g = current /\ owner # "discard"
          /\ pc'[w].at # "drain"
      BY <1>0, <1>11, <2>1, <2>2, InsideIsCurrent, WriteGoesOn DEF DriverBooks
    <2>5. TokensSame /\ ~HasToken(g, w) /\ ~Notifying(<<g, w>>)
      BY <2>2, <2>4, QueuesStay, Undriven
    <2>6. ~awaits => ~HasDriver(g, w)'
      <3>1. ~awaits => ~Notifying(<<g, w>>)'
        BY <1>0, <2>1, <2>2, <2>5 DEF Notifying, FlagType
      <3> QED
        BY <2>4, <2>5, <3>1 DEF HasDriver, Stands, TokensSame
    <2>7. awaits => Holds(<<g, w>>)'
      <3>1. awaits => n < Len(batch[<<g, w>>]) /\ n \in Nat
        BY <2>2, RawWriterAssumption
      <3>2. batch[<<g, w>>] \in Seq(Packets)
        BY <1>0, <2>1 DEF LaneType
      <3>3. batch'[<<g, w>>] = SubSeq(batch[<<g, w>>], n + 1, Len(batch[<<g, w>>]))
        BY <1>0, <2>1, <2>2 DEF LaneType
      <3>4. awaits => SubSeq(batch[<<g, w>>], n + 1, Len(batch[<<g, w>>])) # << >>
        <4> DEFINE b == batch[<<g, w>>]
        <4>1. b \in Seq(Packets) /\ Len(b) \in Nat
          BY <3>2
        <4>2. awaits => n \in 0 .. Len(b) /\ Len(b) - n # 0
          BY <3>1, <4>1
        <4> HIDE DEF b
        <4>3. awaits => Len(SubSeq(b, n + 1, Len(b))) = Len(b) - n
          BY <4>1, <4>2, Cut
        <4>4. awaits => SubSeq(b, n + 1, Len(b)) # << >>
          BY <4>2, <4>3
        <4> QED
          BY <4>4 DEF b
      <3> QED
        BY <3>3, <3>4 DEF Holds
    <2>8. NativeBooks(g, w)'
      BY <2>2, <2>4, <2>6, <2>7 DEF NativeBooks
    <2>9. ASSUME NEW h \in Gens, NEW v \in Workers, <<h, v>> # <<g, w>>
          PROVE  /\ Notifying(<<h, v>>)' => Notifying(<<h, v>>)
                 /\ <<h, v>> \in borrowed' => <<h, v>> \in borrowed
                 /\ Holds(<<h, v>>) => Holds(<<h, v>>)'
      <3>1. <<h, v>> \in Lanes
        BY DEF Lanes
      <3>2. notifier'[<<h, v>>] = notifier[<<h, v>>]
        BY <1>0, <2>2, <2>9, <3>1 DEF FlagType
      <3>3. batch'[<<h, v>>] = batch[<<h, v>>] /\ buffers'[<<h, v>>] = buffers[<<h, v>>]
        BY <1>0, <2>2, <2>9, <3>1 DEF LaneType
      <3>4. <<h, v>> \in borrowed' => <<h, v>> \in borrowed
        BY <2>2, <2>9
      <3> QED
        BY <3>2, <3>3, <3>4 DEF Notifying, Holds
    <2> QED
      BY <1>0, <2>2, <2>3, <2>5, <2>8, <2>9, NativeOne DEF TokensSame
  <1>12. ASSUME NEW w \in Workers, ScheduleDrain(w) PROVE NativeGood'
    <2>1. PICK g \in Gens : g = pc[w].g /\ <<g, w>> \in Lanes
      BY <1>12, InGens DEF ScheduleDrain
    <2>2. /\ UNCHANGED <<batch, buffers, notifier, borrowed, current, owner>>
          /\ \A v \in Workers : pc'[v] = pc[v] \/ pc'[v].at # "drain"
      <3>1. UNCHANGED <<batch, buffers, notifier, borrowed, current, owner>>
        BY <1>12 DEF ScheduleDrain, native, writerVars
      <3>2. \A v \in Workers : pc'[v] = pc[v] \/ pc'[v].at # "drain"
        BY <1>0, <1>12 DEF ScheduleDrain, PlaceType
      <3> QED
        BY <3>1, <3>2
    <2>3. ~scheduled[<<g, w>>] /\ Holds(<<g, w>>)
      BY <1>0, <1>12, <2>1 DEF ScheduleDrain, DriverBooks, LanesGood, LaneBooks, Stands, Holds
    <2>5. TokensSame \/ TokenAdded(g, w)
      <3>1. ~HasToken(g, w)
        BY <2>3, Undriven
      <3>2. Refuse(g, w) \/ \E after \in {0, delay} : Accept(g, w, after)
        BY <1>12, <2>1 DEF ScheduleDrain
      <3> QED
        BY <3>1, <3>2, Accepting, Refusing
    <2>6. NativeBooks(g, w)'
      <3>1. NativeBooks(g, w)
        BY <1>0 DEF NativeGood
      <3> QED
        BY <2>2, <2>3, <3>1 DEF NativeBooks, Notifying, Holds
    <2> QED
      BY <1>0, <2>2, <2>5, <2>6, NativeOne DEF TokensSame, TokenAdded, Holds, Notifying
  <1>13. ASSUME NEW w \in Workers, FailDrain(w) PROVE NativeGood'
    <2>1. /\ borrowed' = borrowed /\ current' = current
          /\ owner' = owner \/ owner' # "discard"
      BY <1>13 DEF FailDrain, native, writerVars
    <2>2. NoNewToken
      <3>1. mailbox' = mailbox /\ timed' = timed
        BY <1>13 DEF FailDrain, queueVars
      <3> QED
        BY <3>1, QueuesStay
    <2>3. \A v \in Workers : pc'[v] = pc[v] \/ pc'[v].at # "drain"
      BY <1>0, <1>13 DEF FailDrain, PlaceType, Idle
    <2>4. \A h \in Gens, v \in Workers :
             Notifying(<<h, v>>)' => Notifying(<<h, v>>)
      <3>1. notifier' = notifier
        BY <1>13 DEF FailDrain, native
      <3> QED
        BY <3>1 DEF Notifying
    <2>5. \A h \in Gens, v \in Workers : Holds(<<h, v>>) => Holds(<<h, v>>)'
      <3>1. batch' = batch /\ buffers' = buffers
        BY <1>13 DEF FailDrain, laneVars
      <3> QED
        BY <3>1 DEF Holds
    <2> QED
      BY <1>0, <2>1, <2>2, <2>3, <2>4, <2>5, NativeFrame
  <1>14. ASSUME NEW w \in Workers, EndDrain(w) PROVE NativeGood'
    <2>1. /\ borrowed' = borrowed /\ current' = current
          /\ owner' = owner \/ owner' # "discard"
      BY <1>14 DEF EndDrain, Unref, native, writerVars
    <2>2. NoNewToken
      <3>1. mailbox' = mailbox /\ timed' = timed
        BY <1>14 DEF EndDrain, Unref, queueVars
      <3> QED
        BY <3>1, QueuesStay
    <2>3. \A v \in Workers : pc'[v] = pc[v] \/ pc'[v].at # "drain"
      BY <1>0, <1>14 DEF EndDrain, Unref, PlaceType, Idle
    <2>4. \A h \in Gens, v \in Workers :
             Notifying(<<h, v>>)' => Notifying(<<h, v>>)
      <3>1. notifier' = notifier
        BY <1>14 DEF EndDrain, Unref, native
      <3> QED
        BY <3>1 DEF Notifying
    <2>5. \A h \in Gens, v \in Workers : Holds(<<h, v>>) => Holds(<<h, v>>)'
      <3>1. batch' = batch /\ buffers' = buffers
        BY <1>14 DEF EndDrain, Unref, laneVars
      <3> QED
        BY <3>1 DEF Holds
    <2> QED
      BY <1>0, <2>1, <2>2, <2>3, <2>4, <2>5, NativeFrame
  <1>15. ASSUME NEW w \in Workers, CloseMailbox(w) PROVE NativeGood'
    <2>1. /\ borrowed' = borrowed /\ current' = current
          /\ owner' = owner \/ owner' # "discard"
      BY <1>15 DEF CloseMailbox, native, writerVars
    <2>2. NoNewToken
      <3>1. mailbox' = mailbox /\ timed' = timed
        BY <1>15 DEF CloseMailbox, queueVars
      <3> QED
        BY <3>1, QueuesStay
    <2>3. \A v \in Workers : pc'[v] = pc[v] \/ pc'[v].at # "drain"
      BY <1>0, <1>15 DEF CloseMailbox, PlaceType, Idle
    <2>4. \A h \in Gens, v \in Workers :
             Notifying(<<h, v>>)' => Notifying(<<h, v>>)
      <3>1. notifier' = notifier
        BY <1>15 DEF CloseMailbox, native
      <3> QED
        BY <3>1 DEF Notifying
    <2>5. \A h \in Gens, v \in Workers : Holds(<<h, v>>) => Holds(<<h, v>>)'
      <3>1. batch' = batch /\ buffers' = buffers
        BY <1>15 DEF CloseMailbox, laneVars
      <3> QED
        BY <3>1 DEF Holds
    <2> QED
      BY <1>0, <2>1, <2>2, <2>3, <2>4, <2>5, NativeFrame
  <1>16. ASSUME NEW w \in Workers, CancelToken(w) PROVE NativeGood'
    <2>1. /\ borrowed' = borrowed /\ current' = current
          /\ owner' = owner \/ owner' # "discard"
      BY <1>16 DEF CancelToken, Unref, native, writerVars
    <2>2. NoNewToken
      <3>1. PICK g \in Gens :
               \/ /\ mailbox[w] # << >> /\ g = Head(mailbox[w])
                  /\ mailbox' = [mailbox EXCEPT ![w] = Tail(@)]
                  /\ timed' = timed
               \/ /\ timed[w] # << >> /\ g = Head(timed[w])
                  /\ timed' = [timed EXCEPT ![w] = Tail(@)]
                  /\ mailbox' = mailbox
        BY <1>16 DEF CancelToken
      <3> QED
        BY <3>1, QueueLoses
    <2>3. \A v \in Workers : pc'[v] = pc[v] \/ pc'[v].at # "drain"
      BY <1>0, <1>16 DEF CancelToken, Unref, PlaceType, Idle
    <2>4. \A h \in Gens, v \in Workers :
             Notifying(<<h, v>>)' => Notifying(<<h, v>>)
      <3>1. notifier' = notifier
        BY <1>16 DEF CancelToken, Unref, native
      <3> QED
        BY <3>1 DEF Notifying
    <2>5. \A h \in Gens, v \in Workers : Holds(<<h, v>>) => Holds(<<h, v>>)'
      <3>1. batch' = batch /\ buffers' = buffers
        BY <1>16 DEF CancelToken, Unref, laneVars
      <3> QED
        BY <3>1 DEF Holds
    <2> QED
      BY <1>0, <2>1, <2>2, <2>3, <2>4, <2>5, NativeFrame
  <1>17. ASSUME NEW l \in Lanes, EnterToNotify(l) PROVE NativeGood'
    <2>1. /\ borrowed' = borrowed /\ current' = current
          /\ owner' = owner \/ owner' # "discard"
      BY <1>17 DEF EnterToNotify, native, writerVars
    <2>2. NoNewToken
      <3>1. mailbox' = mailbox /\ timed' = timed
        BY <1>17 DEF EnterToNotify, queueVars
      <3> QED
        BY <3>1, QueuesStay
    <2>3. \A v \in Workers : pc'[v] = pc[v] \/ pc'[v].at # "drain"
      BY <1>0, <1>17 DEF EnterToNotify, PlaceType, Idle
    <2>4. \A h \in Gens, v \in Workers :
             Notifying(<<h, v>>)' => Notifying(<<h, v>>)
      <3>1. /\ notifier[l] = "armed"
            /\ \A k \in Lanes : k # l => notifier'[k] = notifier[k]
        BY <1>0, <1>17 DEF EnterToNotify, FlagType
      <3> QED
        BY <3>1 DEF Notifying, Lanes
    <2>5. \A h \in Gens, v \in Workers : Holds(<<h, v>>) => Holds(<<h, v>>)'
      <3>1. batch' = batch /\ buffers' = buffers
        BY <1>17 DEF EnterToNotify, laneVars
      <3> QED
        BY <3>1 DEF Holds
    <2> QED
      BY <1>0, <2>1, <2>2, <2>3, <2>4, <2>5, NativeFrame
  <1>18. ASSUME NEW l \in Lanes, PostNotification(l) PROVE NativeGood'
    <2>1. PICK g \in Gens, w \in Workers : l = <<g, w>>
      BY DEF Lanes
    <2>2. /\ UNCHANGED <<batch, buffers, borrowed, pc, current, owner>>
          /\ notifier' = [notifier EXCEPT ![<<g, w>>] = "none"]
          /\ notifier[<<g, w>>] = "inside"
      BY <1>18, <2>1 DEF PostNotification, writerVars
    <2>3. HasDriver(g, w) /\ ~HasToken(g, w)
      BY <1>0, <2>2 DEF HasDriver, DriverBooks, Notifying
    <2>4. TokensSame \/ TokenAdded(g, w)
      <3>1. Refuse(g, w) \/ Accept(g, w, 0) \/ UNCHANGED <<mailbox, timed>>
        BY <1>18, <2>1 DEF PostNotification
      <3> QED
        BY <2>3, <3>1, Accepting, Refusing, QueuesStay
    <2>5. \A k \in Lanes : Notifying(k)' => Notifying(k)
      BY <1>0, <2>2 DEF Notifying, FlagType
    <2>6. NativeBooks(g, w)'
      <3>1. NativeBooks(g, w) /\ (Notifying(<<g, w>>)' => Notifying(<<g, w>>))
        BY <1>0, <2>5 DEF NativeGood, Lanes
      <3> QED
        BY <2>2, <2>3, <3>1 DEF NativeBooks, Holds
    <2> QED
      BY <1>0, <2>2, <2>4, <2>5, <2>6, NativeOne
         DEF TokensSame, TokenAdded, Holds, Lanes
  <1>19. ASSUME NEW l \in Lanes, LeaveNotify(l) PROVE NativeGood'
    <2>1. /\ borrowed' = borrowed /\ current' = current
          /\ owner' = owner \/ owner' # "discard"
      BY <1>19 DEF LeaveNotify, native, writerVars
    <2>2. NoNewToken
      <3>1. mailbox' = mailbox /\ timed' = timed
        BY <1>19 DEF LeaveNotify, queueVars
      <3> QED
        BY <3>1, QueuesStay
    <2>3. \A v \in Workers : pc'[v] = pc[v] \/ pc'[v].at # "drain"
      BY <1>0, <1>19 DEF LeaveNotify, PlaceType, Idle
    <2>4. \A h \in Gens, v \in Workers :
             Notifying(<<h, v>>)' => Notifying(<<h, v>>)
      <3>1. notifier' = notifier
        BY <1>19 DEF LeaveNotify, native
      <3> QED
        BY <3>1 DEF Notifying
    <2>5. \A h \in Gens, v \in Workers : Holds(<<h, v>>) => Holds(<<h, v>>)'
      <3>1. batch' = batch /\ buffers' = buffers
        BY <1>19 DEF LeaveNotify, laneVars
      <3> QED
        BY <3>1 DEF Holds
    <2> QED
      BY <1>0, <2>1, <2>2, <2>3, <2>4, <2>5, NativeFrame
  <1>20. ASSUME Open PROVE NativeGood'
    <2>1. PICK g \in Gens : g > opened /\ current' = g
      <3>1. opened + 1 \in Gens /\ opened + 1 > opened
        BY <1>0, <1>20, RawWriterAssumption DEF Open, OwnerType, Gens
      <3>2. current' = opened + 1
        BY <1>20 DEF Open
      <3> QED
        BY <3>1, <3>2
    <2>2. /\ UNCHANGED <<batch, buffers, notifier, borrowed, pc, owner>>
          /\ UNCHANGED <<mailbox, timed>> /\ current = 0
      BY <1>20 DEF Open, laneVars, native, queueVars
    <2>3. TokensSame
      BY <2>2, QueuesStay
    <2>4. ASSUME NEW h \in Gens, NEW v \in Workers PROVE NativeBooks(h, v)'
      <3>1. NativeBooks(h, v) /\ h # 0
        BY <1>0 DEF NativeGood, Gens
      <3>2. HasDriver(h, v)' <=> HasDriver(h, v)
        BY <2>2, <2>3 DEF HasDriver, Stands, Notifying, TokensSame
      <3>3. h = g => ~HasDriver(h, v)
        BY <1>0, <2>1, Undriven DEF StoresGood, StoreBooks
      <3> QED
        BY <2>1, <2>2, <3>1, <3>2, <3>3 DEF NativeBooks, Notifying
    <2> QED
      BY <2>4 DEF NativeGood
  <1>21. ASSUME Unpublish PROVE NativeGood'
    <2>1. /\ borrowed' = borrowed /\ current' = current
          /\ owner' = owner \/ owner' # "discard"
      BY <1>21 DEF Unpublish, native, writerVars
    <2>2. NoNewToken
      <3>1. mailbox' = mailbox /\ timed' = timed
        BY <1>21 DEF Unpublish, queueVars
      <3> QED
        BY <3>1, QueuesStay
    <2>3. \A v \in Workers : pc'[v] = pc[v] \/ pc'[v].at # "drain"
      BY <1>0, <1>21 DEF Unpublish, PlaceType, Idle
    <2>4. \A h \in Gens, v \in Workers :
             Notifying(<<h, v>>)' => Notifying(<<h, v>>)
      <3>1. notifier' = notifier
        BY <1>21 DEF Unpublish, native
      <3> QED
        BY <3>1 DEF Notifying
    <2>5. \A h \in Gens, v \in Workers : Holds(<<h, v>>) => Holds(<<h, v>>)'
      <3>1. batch' = batch /\ buffers' = buffers
        BY <1>21 DEF Unpublish, laneVars
      <3> QED
        BY <3>1 DEF Holds
    <2> QED
      BY <1>0, <2>1, <2>2, <2>3, <2>4, <2>5, NativeFrame
  <1>22. ASSUME CloseGate PROVE NativeGood'
    <2>1. /\ borrowed' = borrowed /\ current' = current
          /\ owner' = owner \/ owner' # "discard"
      BY <1>22 DEF CloseGate, native, writerVars
    <2>2. NoNewToken
      <3>1. mailbox' = mailbox /\ timed' = timed
        BY <1>22 DEF CloseGate, queueVars
      <3> QED
        BY <3>1, QueuesStay
    <2>3. \A v \in Workers : pc'[v] = pc[v] \/ pc'[v].at # "drain"
      BY <1>0, <1>22 DEF CloseGate, PlaceType, Idle
    <2>4. \A h \in Gens, v \in Workers :
             Notifying(<<h, v>>)' => Notifying(<<h, v>>)
      <3>1. notifier' = notifier
        BY <1>22 DEF CloseGate, native
      <3> QED
        BY <3>1 DEF Notifying
    <2>5. \A h \in Gens, v \in Workers : Holds(<<h, v>>) => Holds(<<h, v>>)'
      <3>1. batch' = batch /\ buffers' = buffers
        BY <1>22 DEF CloseGate, laneVars
      <3> QED
        BY <3>1 DEF Holds
    <2> QED
      BY <1>0, <2>1, <2>2, <2>3, <2>4, <2>5, NativeFrame
  <1>23. ASSUME StopNative PROVE NativeGood'
    <2>1. /\ UNCHANGED <<batch, buffers, pc, current, mailbox, timed>>
          /\ borrowed' = borrowed \ CurrentLanes
          /\ \A k \in Lanes : notifier'[k] = IF k \in CurrentLanes THEN "none"
                                                               ELSE notifier[k]
      BY <1>23 DEF StopNative, laneVars, queueVars
    <2>2. TokensSame
      BY <2>1, QueuesStay
    <2>3. ASSUME NEW h \in Gens, NEW v \in Workers PROVE NativeBooks(h, v)'
      <3>1. NativeBooks(h, v) /\ LaneBooks(h, v) /\ GateBooks(h)
        BY <1>0 DEF NativeGood, LanesGood
      <3>2. Notifying(<<h, v>>)' => Notifying(<<h, v>>) /\ h # current
        BY <2>1 DEF Notifying, CurrentLanes, Lanes
      <3>3. ~Notifying(<<h, v>>)'
        BY <3>1, <3>2 DEF NativeBooks
      <3>4. <<h, v>> \notin borrowed'
        <4>1. <<h, v>> \in borrowed' => <<h, v>> \in borrowed /\ h # current
          BY <2>1 DEF CurrentLanes
        <4>2. <<h, v>> \in borrowed => batch[<<h, v>>] # << >>
          BY <3>1 DEF LaneBooks
        <4> QED
          BY <3>1, <4>1, <4>2 DEF GateBooks
      <3>5. HasDriver(h, v)' => HasDriver(h, v)
        BY <2>1, <2>2, <3>3 DEF HasDriver, Stands, TokensSame
      <3> QED
        BY <2>1, <3>1, <3>3, <3>4, <3>5 DEF NativeBooks, Holds
    <2> QED
      BY <2>3 DEF NativeGood
  <1>24. ASSUME Discard PROVE NativeGood'
    <2>1. /\ UNCHANGED <<notifier, borrowed>> /\ owner = "discard"
          /\ owner' = "idle" /\ current' = 0
      BY <1>24 DEF Discard, native
    <2>2. ASSUME NEW h \in Gens, NEW v \in Workers PROVE NativeBooks(h, v)'
      <3>1. NativeBooks(h, v) /\ h # 0
        BY <1>0 DEF NativeGood, Gens
      <3> QED
        BY <2>1, <3>1 DEF NativeBooks, Notifying
    <2> QED
      BY <2>2 DEF NativeGood
  <1>25. ASSUME BeginDestroy PROVE NativeGood'
    <2>1. /\ borrowed' = borrowed /\ current' = current
          /\ owner' = owner \/ owner' # "discard"
      BY <1>25 DEF BeginDestroy, native, writerVars
    <2>2. NoNewToken
      <3>1. mailbox' = mailbox /\ timed' = timed
        BY <1>25 DEF BeginDestroy, queueVars
      <3> QED
        BY <3>1, QueuesStay
    <2>3. \A v \in Workers : pc'[v] = pc[v] \/ pc'[v].at # "drain"
      BY <1>0, <1>25 DEF BeginDestroy, PlaceType, Idle
    <2>4. \A h \in Gens, v \in Workers :
             Notifying(<<h, v>>)' => Notifying(<<h, v>>)
      <3>1. notifier' = notifier
        BY <1>25 DEF BeginDestroy, native
      <3> QED
        BY <3>1 DEF Notifying
    <2>5. \A h \in Gens, v \in Workers : Holds(<<h, v>>) => Holds(<<h, v>>)'
      <3>1. batch' = batch /\ buffers' = buffers
        BY <1>25 DEF BeginDestroy, laneVars
      <3> QED
        BY <3>1 DEF Holds
    <2> QED
      BY <1>0, <2>1, <2>2, <2>3, <2>4, <2>5, NativeFrame
  <1>26. ASSUME NEW g \in Gens, DestroyOne(g) PROVE NativeGood'
    <2>1. /\ borrowed' = borrowed /\ current' = current
          /\ owner' = owner \/ owner' # "discard"
      BY <1>26 DEF DestroyOne, Unref, native, writerVars
    <2>2. NoNewToken
      <3>1. mailbox' = mailbox /\ timed' = timed
        BY <1>26 DEF DestroyOne, Unref, queueVars
      <3> QED
        BY <3>1, QueuesStay
    <2>3. \A v \in Workers : pc'[v] = pc[v] \/ pc'[v].at # "drain"
      BY <1>0, <1>26 DEF DestroyOne, Unref, PlaceType, Idle
    <2>4. \A h \in Gens, v \in Workers :
             Notifying(<<h, v>>)' => Notifying(<<h, v>>)
      <3>1. notifier' = notifier
        BY <1>26 DEF DestroyOne, Unref, native
      <3> QED
        BY <3>1 DEF Notifying
    <2>5. \A h \in Gens, v \in Workers : Holds(<<h, v>>) => Holds(<<h, v>>)'
      <3>1. batch' = batch /\ buffers' = buffers
        BY <1>26 DEF DestroyOne, Unref, laneVars
      <3> QED
        BY <3>1 DEF Holds
    <2> QED
      BY <1>0, <2>1, <2>2, <2>3, <2>4, <2>5, NativeFrame
  <1> QED
    BY <1>1, <1>2, <1>3, <1>4, <1>5, <1>6, <1>7, <1>8, <1>9, <1>10, <1>11,
       <1>12, <1>13, <1>14, <1>15, <1>16, <1>17, <1>18, <1>19, <1>20, <1>21,
       <1>22, <1>23, <1>24, <1>25, <1>26
       DEF Next, SendStep, DrainStep, NotifyStep, CloseStep, DestroyStep

-----------------------------------------------------------------------------
(* The tokens of a generation are as many as the workers that have one.    *)
TokenSet(mb, tm, g, w) ==
    {n \in DOMAIN mb[w] : mb[w][n] = g} \X {"mailbox"}
      \cup {n \in DOMAIN tm[w] : tm[w][n] = g} \X {"timed"}
AllTokens(mb, tm, g) == UNION {TokenSet(mb, tm, g, w) \X {w} : w \in Workers}
HoldersIn(mb, tm, g) ==
    {w \in Workers : g \in Range(mb[w]) \/ g \in Range(tm[w])}
Holders(g) == {w \in Workers : HasToken(g, w)}

(* A worker has one token of a generation at most.                         *)
LEMMA OneTokenEach ==
    ASSUME NEW mb, NEW tm, NEW g, NEW w, IsInjective(mb[w]), IsInjective(tm[w]),
           Range(mb[w]) \cap Range(tm[w]) = {}
    PROVE  /\ \A x, y \in TokenSet(mb, tm, g, w) : x = y
           /\ TokenSet(mb, tm, g, w) # {} <=>
                 g \in Range(mb[w]) \/ g \in Range(tm[w])
  <1> DEFINE M == {n \in DOMAIN mb[w] : mb[w][n] = g}
             T == {n \in DOMAIN tm[w] : tm[w][n] = g}
  <1>1. (\A m, n \in M : m = n) /\ (\A m, n \in T : m = n)
    BY DEF IsInjective
  <1>2. (M # {} <=> g \in Range(mb[w])) /\ (T # {} <=> g \in Range(tm[w]))
    BY DEF Range
  <1>3. M = {} \/ T = {}
    BY <1>2
  <1>4. TokenSet(mb, tm, g, w) = (M \X {"mailbox"}) \cup (T \X {"timed"})
    BY DEF TokenSet
  <1> HIDE DEF M, T
  <1>5. \A x \in TokenSet(mb, tm, g, w) :
           \/ \E m \in M : x = <<m, "mailbox">>
           \/ \E m \in T : x = <<m, "timed">>
    BY <1>4
  <1>6. \A x, y \in TokenSet(mb, tm, g, w) : x = y
    BY <1>1, <1>3, <1>5
  <1>7. TokenSet(mb, tm, g, w) # {} <=> M # {} \/ T # {}
    <2>1. \A m \in M : <<m, "mailbox">> \in TokenSet(mb, tm, g, w)
      BY <1>4
    <2>2. \A m \in T : <<m, "timed">> \in TokenSet(mb, tm, g, w)
      BY <1>4
    <2> QED
      BY <1>5, <2>1, <2>2
  <1> QED
    BY <1>2, <1>6, <1>7

(* Tokens are as many as the workers that have one.                        *)
LEMMA TokenCount ==
    ASSUME NEW mb, NEW tm, NEW g,
           \A w \in Workers : IsInjective(mb[w]) /\ IsInjective(tm[w])
                                /\ Range(mb[w]) \cap Range(tm[w]) = {}
    PROVE  Cardinality(AllTokens(mb, tm, g)) = Cardinality(HoldersIn(mb, tm, g))
  <1> DEFINE T(w) == TokenSet(mb, tm, g, w)
             A == AllTokens(mb, tm, g)
             H == HoldersIn(mb, tm, g)
             f == [w \in H |-> <<CHOOSE x \in T(w) : TRUE, w>>]
  <1>1. \A w \in Workers : /\ \A x, y \in T(w) : x = y
                           /\ T(w) # {} <=> w \in H
    BY OneTokenEach DEF HoldersIn
  <1>2. \A z : z \in A <=> \E w \in Workers : \E x \in T(w) : z = <<x, w>>
    BY DEF AllTokens
  <1>3. H \subseteq Workers /\ IsFiniteSet(H)
    <2>1. H \subseteq Workers
      BY DEF HoldersIn
    <2> QED
      BY <2>1, FS_Subset, RawWriterAssumption
  <1> HIDE DEF T, A, H
  <1>4. \A w \in H : (CHOOSE x \in T(w) : TRUE) \in T(w)
    BY <1>1, <1>3
  <1>5. f \in [H -> A]
    BY <1>2, <1>3, <1>4
  <1>6. \A w \in H : f[w][2] = w
    OBVIOUS
  <1>7. IsInjective(f)
    <2>1. \A u, v \in H : f[u] = f[v] => u = v
      BY <1>6
    <2>2. DOMAIN f = H
      OBVIOUS
    <2> HIDE DEF f
    <2> QED
      BY <2>1, <2>2 DEF IsInjective
  <1>8. ASSUME NEW z \in A PROVE \E w \in H : f[w] = z
    <2>1. PICK w \in Workers : \E x \in T(w) : z = <<x, w>>
      BY <1>2
    <2>2. PICK x \in T(w) : z = <<x, w>>
      BY <2>1
    <2>3. w \in H
      BY <1>1
    <2>4. (CHOOSE y \in T(w) : TRUE) = x
      BY <1>1, <1>4, <2>3
    <2> QED
      BY <2>2, <2>3, <2>4
  <1> HIDE DEF f
  <1>9. f \in Bijection(H, A)
    BY <1>5, <1>7, <1>8 DEF Bijection, Injection, Surjection
  <1>10. Cardinality(A) = Cardinality(H)
    BY <1>3, <1>9, FS_Bijection DEF ExistsBijection
  <1> QED
    BY <1>10 DEF A, H

(* The tokens of a generation, counted by their workers.                   *)
LEMMA TokensCounted ==
    ASSUME Books, NEW g \in Gens
    PROVE  Cardinality(TokensOf(g)) = Cardinality(Holders(g))
  <1>1. Cardinality(AllTokens(mailbox, timed, g))
           = Cardinality(HoldersIn(mailbox, timed, g))
    BY Facts1, TokenCount DEF TokenBooks
  <1>2. TokensOf(g) = AllTokens(mailbox, timed, g)
    BY DEF TokensOf, AllTokens, TokensAt, TokenSet
  <1>3. Holders(g) = HoldersIn(mailbox, timed, g)
    BY DEF Holders, HoldersIn, HasToken
  <1> QED
    BY <1>1, <1>2, <1>3

(* The same of the next state.                                             *)
LEMMA TokensCountedNext ==
    ASSUME Books', NEW g \in Gens
    PROVE  Cardinality(TokensOf(g)') = Cardinality(Holders(g)')
  <1>1. \A w \in Workers : /\ IsInjective(mailbox'[w]) /\ IsInjective(timed'[w])
                           /\ Range(mailbox'[w]) \cap Range(timed'[w]) = {}
    BY DEF Books, TokenBooks
  <1>2. Cardinality(AllTokens(mailbox', timed', g))
           = Cardinality(HoldersIn(mailbox', timed', g))
    BY <1>1, TokenCount
  <1>3. TokensOf(g)' = AllTokens(mailbox', timed', g)
    BY DEF TokensOf, AllTokens, TokensAt, TokenSet
  <1>4. Holders(g)' = HoldersIn(mailbox', timed', g)
    BY DEF Holders, HoldersIn, HasToken
  <1> QED
    BY <1>2, <1>3, <1>4

(* What keeps a generation: tokens, drains, and the owner of the device.   *)
Owned(g) == IF g = current \/ g \in retired THEN 1 ELSE 0
Users(g) == Cardinality(Holders(g)) + Cardinality(Draining(g)) + Owned(g)
RefsGood == \A g \in Gens : references[g] = Users(g)
LiveGood == \A g \in Gens : mem[g] = "live" <=> references[g] > 0
FreshGood ==
    \A g \in Gens : g > opened =>
       references[g] = 0 /\ \A v \in Workers : ~scheduled[<<g, v>>]

(* The books of the storage, with the tokens counted by their workers.     *)
LEMMA StoreParts ==
    ASSUME Books PROVE StoresGood <=> RefsGood /\ LiveGood /\ FreshGood
  <1>1. \A g \in Gens : Cardinality(TokensOf(g)) = Cardinality(Holders(g))
    BY TokensCounted
  <1> QED
    BY <1>1 DEF StoresGood, StoreBooks, RefsGood, LiveGood, FreshGood, Users,
                Owned

(* The same of the next state.                                             *)
LEMMA StorePartsNext ==
    ASSUME Books', RefsGood', LiveGood', FreshGood' PROVE StoresGood'
  <1>1. \A g \in Gens : Cardinality(TokensOf(g)') = Cardinality(Holders(g)')
    BY TokensCountedNext
  <1> QED
    BY <1>1 DEF StoresGood, StoreBooks, RefsGood, LiveGood, FreshGood, Users,
                Owned

(* Two sets of workers that differ in one worker at most.                  *)
LEMMA SetMoves ==
    ASSUME NEW A \in SUBSET Workers, NEW B \in SUBSET Workers, NEW w \in Workers,
           \A v \in Workers : v # w => (v \in B <=> v \in A)
    PROVE  /\ Cardinality(A) \in Nat /\ Cardinality(B) \in Nat
           /\ (w \in A <=> w \in B) => Cardinality(B) = Cardinality(A)
           /\ w \notin A /\ w \in B => Cardinality(B) = Cardinality(A) + 1
           /\ w \in A /\ w \notin B => Cardinality(B) = Cardinality(A) - 1
  <1>1. IsFiniteSet(A) /\ IsFiniteSet(B)
    BY FS_Subset, RawWriterAssumption
  <1>2. Cardinality(A) \in Nat /\ Cardinality(B) \in Nat
    BY <1>1, FS_CardinalityType
  <1>3. (w \in A <=> w \in B) => B = A
    OBVIOUS
  <1>4. w \notin A /\ w \in B => B = A \cup {w}
    OBVIOUS
  <1>5. w \in A /\ w \notin B => B = A \ {w}
    OBVIOUS
  <1>6. w \notin A /\ w \in B => Cardinality(B) = Cardinality(A) + 1
    BY <1>1, <1>4, FS_AddElement
  <1>7. w \in A /\ w \notin B => Cardinality(B) = Cardinality(A) - 1
    BY <1>1, <1>5, FS_RemoveElement
  <1> QED
    BY <1>2, <1>3, <1>6, <1>7

(* Those who use a generation are finitely many.                           *)
LEMMA UserTypes ==
    ASSUME NEW g
    PROVE  /\ Holders(g) \in SUBSET Workers /\ Draining(g) \in SUBSET Workers
           /\ Cardinality(Holders(g)) \in Nat /\ Cardinality(Draining(g)) \in Nat
           /\ Holders(g)' \in SUBSET Workers /\ Draining(g)' \in SUBSET Workers
           /\ Cardinality(Holders(g)') \in Nat
           /\ Cardinality(Draining(g)') \in Nat
           /\ Owned(g) \in {0, 1}
  <1>1. /\ Holders(g) \in SUBSET Workers /\ Draining(g) \in SUBSET Workers
        /\ Holders(g)' \in SUBSET Workers /\ Draining(g)' \in SUBSET Workers
    BY DEF Holders, Draining
  <1>2. \A S \in SUBSET Workers : Cardinality(S) \in Nat
    BY FS_Subset, FS_CardinalityType, RawWriterAssumption
  <1>3. Owned(g) \in {0, 1}
    BY DEF Owned
  <1> QED
    BY <1>1, <1>2, <1>3

(* A token comes or goes.                                                  *)
LEMMA HoldersSame ==
    ASSUME TokensSame, NEW h \in Gens PROVE Holders(h)' = Holders(h)
  BY DEF TokensSame, Holders

(* A token more or less is a holder more or less.                          *)
LEMMA HoldersMove ==
    ASSUME NEW g \in Gens, NEW w \in Workers
    PROVE  /\ TokenAdded(g, w) /\ ~HasToken(g, w) =>
                 /\ Cardinality(Holders(g)') = Cardinality(Holders(g)) + 1
                 /\ \A h \in Gens : h # g => Holders(h)' = Holders(h)
           /\ TokenTaken(g, w) =>
                 /\ Cardinality(Holders(g)') = Cardinality(Holders(g)) - 1
                 /\ \A h \in Gens : h # g => Holders(h)' = Holders(h)
  <1> DEFINE A == Holders(g)  B == Holders(g)'
  <1>1. A \in SUBSET Workers /\ B \in SUBSET Workers
    BY UserTypes
  <1>2. ASSUME TokenAdded(g, w), ~HasToken(g, w)
        PROVE  /\ Cardinality(B) = Cardinality(A) + 1
               /\ \A h \in Gens : h # g => Holders(h)' = Holders(h)
    <2>1. /\ \A v \in Workers : v # w => (v \in B <=> v \in A)
          /\ w \notin A /\ w \in B
      BY <1>2 DEF TokenAdded, Holders
    <2>2. \A h \in Gens : h # g => Holders(h)' = Holders(h)
      BY <1>2 DEF TokenAdded, Holders
    <2> HIDE DEF A, B
    <2> QED
      BY <1>1, <2>1, <2>2, SetMoves
  <1>3. ASSUME TokenTaken(g, w)
        PROVE  /\ Cardinality(B) = Cardinality(A) - 1
               /\ \A h \in Gens : h # g => Holders(h)' = Holders(h)
    <2>1. /\ \A v \in Workers : v # w => (v \in B <=> v \in A)
          /\ w \in A /\ w \notin B
      BY <1>3 DEF TokenTaken, Holders
    <2>2. \A h \in Gens : h # g => Holders(h)' = Holders(h)
      BY <1>3 DEF TokenTaken, Holders
    <2> HIDE DEF A, B
    <2> QED
      BY <1>1, <2>1, <2>2, SetMoves
  <1> QED
    BY <1>2, <1>3

(* A worker begins a drain, ends one, or does neither.                     *)
SameDrains ==
    \A v \in Workers :
       \/ pc'[v] = pc[v]
       \/ pc'[v].at \notin DrainStates /\ pc[v].at \notin DrainStates
       \/ /\ pc'[v].at \in DrainStates /\ pc[v].at \in DrainStates
          /\ pc'[v].g = pc[v].g

(* A step that starts and ends no drain,                                   *)
LEMMA DrainsSame ==
    ASSUME SameDrains, NEW h PROVE Draining(h)' = Draining(h)
  BY DEF SameDrains, Draining

(* and one that starts or ends one.                                        *)
LEMMA DrainsMove ==
    ASSUME NEW g \in Gens, NEW w \in Workers,
           \A v \in Workers : v # w => pc'[v] = pc[v]
    PROVE  /\ pc[w].at \notin DrainStates /\ pc'[w].at \in DrainStates
                /\ pc'[w].g = g =>
                 /\ Cardinality(Draining(g)') = Cardinality(Draining(g)) + 1
                 /\ \A h \in Gens : h # g => Draining(h)' = Draining(h)
           /\ pc'[w].at \notin DrainStates /\ pc[w].at \in DrainStates
                /\ pc[w].g = g =>
                 /\ Cardinality(Draining(g)') = Cardinality(Draining(g)) - 1
                 /\ \A h \in Gens : h # g => Draining(h)' = Draining(h)
  <1> DEFINE A == Draining(g)  B == Draining(g)'
  <1>1. A \in SUBSET Workers /\ B \in SUBSET Workers
    BY UserTypes
  <1>2. \A v \in Workers : v # w => (v \in B <=> v \in A)
    BY DEF Draining
  <1>3. ASSUME pc[w].at \notin DrainStates, pc'[w].at \in DrainStates, pc'[w].g = g
        PROVE  /\ Cardinality(B) = Cardinality(A) + 1
               /\ \A h \in Gens : h # g => Draining(h)' = Draining(h)
    <2>1. w \notin A /\ w \in B
      BY <1>3 DEF Draining
    <2>2. \A h \in Gens : h # g => Draining(h)' = Draining(h)
      BY <1>3 DEF Draining
    <2> HIDE DEF A, B
    <2> QED
      BY <1>1, <1>2, <2>1, <2>2, SetMoves
  <1>4. ASSUME pc'[w].at \notin DrainStates, pc[w].at \in DrainStates, pc[w].g = g
        PROVE  /\ Cardinality(B) = Cardinality(A) - 1
               /\ \A h \in Gens : h # g => Draining(h)' = Draining(h)
    <2>1. w \in A /\ w \notin B
      BY <1>4 DEF Draining
    <2>2. \A h \in Gens : h # g => Draining(h)' = Draining(h)
      BY <1>4 DEF Draining
    <2> HIDE DEF A, B
    <2> QED
      BY <1>1, <1>2, <2>1, <2>2, SetMoves
  <1> QED
    BY <1>3, <1>4

(* Steps that leave the references alone, take one or give one back.       *)
Stored == RefsGood /\ LiveGood /\ FreshGood
MarksOfCurrent ==
    \A h \in Gens, v \in Workers :
       h # current => scheduled'[<<h, v>>] = scheduled[<<h, v>>]

(* Nobody starts or ends using a generation.                               *)
LEMMA UsersSame ==
    ASSUME TokensSame, SameDrains, UNCHANGED <<current, retired>>, NEW h \in Gens
    PROVE  Users(h)' = Users(h)
  <1>1. Holders(h)' = Holders(h) /\ Draining(h)' = Draining(h)
    BY HoldersSame, DrainsSame
  <1> QED
    BY <1>1 DEF Users, Owned

(* Then the books of the storage stay.                                     *)
LEMMA StoreFrame ==
    ASSUME Books, Stored, \A h \in Gens : Users(h)' = Users(h),
           UNCHANGED <<references, mem, opened>>, MarksOfCurrent
    PROVE  Stored'
  <1>1. RefsGood' /\ LiveGood'
    BY DEF Stored, RefsGood, LiveGood
  <1>2. ASSUME NEW h \in Gens, h > opened PROVE h # current
    BY <1>2, Facts1, RawWriterAssumption DEF OwnerBooks, OwnerType, Gens
  <1>3. FreshGood'
    BY <1>2 DEF Stored, FreshGood, MarksOfCurrent
  <1> QED
    BY <1>1, <1>3 DEF Stored

(* A reference taken for a new token.                                      *)
LEMMA StoreGains ==
    ASSUME Books, Stored, NEW g \in Gens, NEW w \in Workers, g = current,
           TokenAdded(g, w), ~HasToken(g, w), SameDrains,
           UNCHANGED <<current, retired, mem, opened>>, MarksOfCurrent,
           references' = [references EXCEPT ![g] = @ + 1]
    PROVE  Stored'
  <1>1. /\ references'[g] = references[g] + 1
        /\ \A h \in Gens : h # g => references'[h] = references[h]
    BY Facts1 DEF GenType
  <1>2. Users(g)' = Users(g) + 1 /\ \A h \in Gens : h # g => Users(h)' = Users(h)
    <2>1. /\ Cardinality(Holders(g)') = Cardinality(Holders(g)) + 1
          /\ \A h \in Gens : h # g => Holders(h)' = Holders(h)
      BY HoldersMove
    <2>2. \A h \in Gens : Draining(h)' = Draining(h) /\ Owned(h)' = Owned(h)
      BY DrainsSame DEF Owned
    <2>3. /\ Cardinality(Holders(g)) \in Nat /\ Cardinality(Draining(g)) \in Nat
          /\ Owned(g) \in {0, 1}
      BY UserTypes
    <2>4. Users(g)' = Users(g) + 1
      BY <2>1, <2>2, <2>3 DEF Users
    <2>5. \A h \in Gens : h # g => Users(h)' = Users(h)
      BY <2>1, <2>2 DEF Users
    <2> QED
      BY <2>4, <2>5
  <1>3. RefsGood'
    BY <1>1, <1>2 DEF Stored, RefsGood
  <1>4. references[g] > 0
    <2>1. /\ Cardinality(Holders(g)) \in Nat /\ Cardinality(Draining(g)) \in Nat
      BY UserTypes
    <2>2. Owned(g) = 1
      BY DEF Owned
    <2> QED
      BY <2>1, <2>2 DEF Stored, RefsGood, Users
  <1>5. LiveGood'
    <2>1. references[g] \in Int
      BY Facts1 DEF GenType
    <2>2. references'[g] > 0
      BY <1>1, <1>4, <2>1
    <2> QED
      BY <1>1, <1>4, <2>2 DEF Stored, LiveGood
  <1>6. ASSUME NEW h \in Gens, h > opened PROVE h # current
    BY <1>6, Facts1, RawWriterAssumption DEF OwnerBooks, OwnerType, Gens
  <1>7. FreshGood'
    BY <1>1, <1>6 DEF Stored, FreshGood, MarksOfCurrent
  <1> QED
    BY <1>3, <1>5, <1>7 DEF Stored

(* A reference given back: the last one frees the generation.              *)
LEMMA StoreLoses ==
    ASSUME Books, Stored, NEW g \in Gens, Users(g) > 0, Unref(g),
           Users(g)' = Users(g) - 1,
           \A h \in Gens : h # g => Users(h)' = Users(h),
           UNCHANGED <<opened, scheduled>>
    PROVE  Stored'
  <1>1. /\ references'[g] = references[g] - 1
        /\ \A h \in Gens : h # g => references'[h] = references[h]
    BY Facts1 DEF GenType, Unref
  <1>2. /\ mem'[g] = IF references[g] = 1 THEN "freed" ELSE mem[g]
        /\ \A h \in Gens : h # g => mem'[h] = mem[h]
    BY Facts1 DEF GenType, Unref
  <1>3. references[g] = Users(g) /\ references[g] > 0 /\ references[g] \in Int
    BY Facts1 DEF Stored, RefsGood, GenType
  <1>4. RefsGood'
    BY <1>1, <1>3 DEF Stored, RefsGood
  <1>5. mem[g] = "live"
    BY <1>3 DEF Stored, LiveGood
  <1>6. mem'[g] = "live" <=> references'[g] > 0
    <2>1. CASE references[g] = 1
      BY <1>1, <1>2, <2>1
    <2>2. CASE references[g] # 1
      <3>1. references'[g] > 0
        BY <1>1, <1>3, <2>2
      <3> QED
        BY <1>2, <1>5, <2>2, <3>1
    <2> QED
      BY <2>1, <2>2
  <1>7. LiveGood'
    BY <1>1, <1>2, <1>6 DEF Stored, LiveGood
  <1>8. ~(g > opened)
    BY <1>3 DEF Stored, FreshGood
  <1>9. FreshGood'
    BY <1>1, <1>8 DEF Stored, FreshGood
  <1> QED
    BY <1>4, <1>7, <1>9 DEF Stored

(* The references.                                                         *)
LEMMA StoredKept ==
    ASSUME Books, Next, ~Over,
           LanesGood, NativeGood, StoresGood
    PROVE  Stored'
  <1>0. /\ PlaceType /\ FlagType /\ MailType /\ GenType /\ LaneType /\ OwnerType
        /\ OwnerBooks /\ LanesGood /\ NativeGood /\ StoresGood
        /\ Stored
        /\ \A v \in Workers : PlaceBooks(v) /\ TokenBooks(v)
        /\ \A g \in Gens, v \in Workers : DriverBooks(g, v)
        /\ \A g \in Gens : GateBooks(g)
    BY Facts1, StoreParts DEF Stored
  <1>1. ASSUME NEW w \in Workers, SelectGeneration(w) PROVE Stored'
    <2>1. UNCHANGED <<references, mem, opened, current, retired>>
      BY <1>1 DEF SelectGeneration, genVars, writerVars
    <2>2. TokensSame
      <3>1. mailbox' = mailbox /\ timed' = timed
        BY <1>1 DEF SelectGeneration, queueVars
      <3> QED
        BY <3>1, QueuesStay
    <2>3. SameDrains
      BY <1>0, <1>1
         DEF SelectGeneration, SameDrains, DrainStates, PlaceType, Idle
    <2>4. MarksOfCurrent
      <3>1. scheduled' = scheduled
        BY <1>1 DEF SelectGeneration, laneVars
      <3> QED
        BY <3>1 DEF MarksOfCurrent
    <2>5. \A h \in Gens : Users(h)' = Users(h)
      BY <2>1, <2>2, <2>3, UsersSame
    <2> QED
      BY <1>0, <2>1, <2>4, <2>5, StoreFrame
  <1>2. ASSUME NEW w \in Workers, EnterToSend(w) PROVE Stored'
    <2>1. UNCHANGED <<references, mem, opened, current, retired>>
      BY <1>2 DEF EnterToSend, genVars, writerVars
    <2>2. TokensSame
      <3>1. mailbox' = mailbox /\ timed' = timed
        BY <1>2 DEF EnterToSend, queueVars
      <3> QED
        BY <3>1, QueuesStay
    <2>3. SameDrains
      BY <1>0, <1>2 DEF EnterToSend, SameDrains, DrainStates, PlaceType, Idle
    <2>4. MarksOfCurrent
      <3>1. scheduled' = scheduled
        BY <1>2 DEF EnterToSend, laneVars
      <3> QED
        BY <3>1 DEF MarksOfCurrent
    <2>5. \A h \in Gens : Users(h)' = Users(h)
      BY <2>1, <2>2, <2>3, UsersSame
    <2> QED
      BY <1>0, <2>1, <2>4, <2>5, StoreFrame
  <1>3. ASSUME NEW w \in Workers, CheckLane(w) PROVE Stored'
    <2>1. UNCHANGED <<references, mem, opened, current, retired>>
      BY <1>3 DEF CheckLane, genVars, writerVars
    <2>2. TokensSame
      <3>1. mailbox' = mailbox /\ timed' = timed
        BY <1>3 DEF CheckLane, queueVars
      <3> QED
        BY <3>1, QueuesStay
    <2>3. SameDrains
      BY <1>0, <1>3 DEF CheckLane, SameDrains, DrainStates, PlaceType, Idle
    <2>4. MarksOfCurrent
      <3>1. scheduled' = scheduled
        BY <1>3 DEF CheckLane, laneVars
      <3> QED
        BY <3>1 DEF MarksOfCurrent
    <2>5. \A h \in Gens : Users(h)' = Users(h)
      BY <2>1, <2>2, <2>3, UsersSame
    <2> QED
      BY <1>0, <2>1, <2>4, <2>5, StoreFrame
  <1>4. ASSUME NEW w \in Workers, Reserve(w) PROVE Stored'
    <2>1. UNCHANGED <<references, mem, opened, current, retired>>
      BY <1>4 DEF Reserve, genVars, writerVars
    <2>2. TokensSame
      <3>1. mailbox' = mailbox /\ timed' = timed
        BY <1>4 DEF Reserve, queueVars
      <3> QED
        BY <3>1, QueuesStay
    <2>3. SameDrains
      BY <1>0, <1>4 DEF Reserve, SameDrains, DrainStates, PlaceType, Idle
    <2>4. MarksOfCurrent
      <3>1. scheduled' = scheduled
        BY <1>4 DEF Reserve, laneVars
      <3> QED
        BY <3>1 DEF MarksOfCurrent
    <2>5. \A h \in Gens : Users(h)' = Users(h)
      BY <2>1, <2>2, <2>3, UsersSame
    <2> QED
      BY <1>0, <2>1, <2>4, <2>5, StoreFrame
  <1>5. ASSUME NEW w \in Workers, ScheduleSend(w) PROVE Stored'
    <2>1. PICK g \in Gens : g = pc[w].g /\ <<g, w>> \in Lanes
      BY <1>5, InGens DEF ScheduleSend
    <2>2. UNCHANGED <<mem, opened, current, retired>>
      BY <1>5 DEF ScheduleSend, writerVars
    <2>3. SameDrains
      BY <1>0, <1>5
         DEF ScheduleSend, Accept, Refuse, SameDrains, DrainStates, PlaceType,
             Idle
    <2>4. MarksOfCurrent
      <3>1. PICK c \in Gens : c = pc[w].g /\ <<c, w>> \in Lanes
        BY <1>5, InGens DEF ScheduleSend
      <3>2. c = current
        BY <1>5, <3>1, InsideIsCurrent DEF ScheduleSend
      <3>3. \A k \in Lanes : k # <<c, w>> => scheduled'[k] = scheduled[k]
        BY <1>0, <1>5, <3>1 DEF ScheduleSend, Accept, Refuse, FlagType
      <3> QED
        BY <3>2, <3>3 DEF MarksOfCurrent, Lanes
    <2>5. g = current /\ ~scheduled[<<g, w>>]
      BY <1>0, <1>5, <2>1, InsideIsCurrent DEF ScheduleSend, DriverBooks
    <2>6. ~HasToken(g, w)
      BY <2>5, Undriven
    <2>7. CASE \E after \in {0, delay} : Accept(g, w, after)
      <3>1. PICK after : Accept(g, w, after)
        BY <2>7
      <3>2. /\ TokenAdded(g, w)
            /\ references' = [references EXCEPT ![g] = @ + 1]
        BY <2>6, <3>1, Accepting
      <3> QED
        BY <1>0, <2>2, <2>3, <2>4, <2>5, <2>6, <3>2, StoreGains
    <2>8. CASE Refuse(g, w)
      <3>1. TokensSame /\ references' = references
        BY <2>8, Refusing
      <3>2. \A h \in Gens : Users(h)' = Users(h)
        BY <2>2, <2>3, <3>1, UsersSame
      <3> QED
        BY <1>0, <2>2, <2>4, <3>1, <3>2, StoreFrame
    <2> QED
      BY <1>5, <2>1, <2>7, <2>8 DEF ScheduleSend
  <1>6. ASSUME NEW w \in Workers, UndoSend(w) PROVE Stored'
    <2>1. UNCHANGED <<references, mem, opened, current, retired>>
      BY <1>6 DEF UndoSend, genVars, writerVars
    <2>2. TokensSame
      <3>1. mailbox' = mailbox /\ timed' = timed
        BY <1>6 DEF UndoSend, queueVars
      <3> QED
        BY <3>1, QueuesStay
    <2>3. SameDrains
      BY <1>0, <1>6 DEF UndoSend, SameDrains, DrainStates, PlaceType, Idle
    <2>4. MarksOfCurrent
      <3>1. scheduled' = scheduled
        BY <1>6 DEF UndoSend, laneVars
      <3> QED
        BY <3>1 DEF MarksOfCurrent
    <2>5. \A h \in Gens : Users(h)' = Users(h)
      BY <2>1, <2>2, <2>3, UsersSame
    <2> QED
      BY <1>0, <2>1, <2>4, <2>5, StoreFrame
  <1>7. ASSUME NEW w \in Workers, Leave(w) PROVE Stored'
    <2>1. UNCHANGED <<references, mem, opened, current, retired>>
      BY <1>7 DEF Leave, genVars, writerVars
    <2>2. TokensSame
      <3>1. mailbox' = mailbox /\ timed' = timed
        BY <1>7 DEF Leave, queueVars
      <3> QED
        BY <3>1, QueuesStay
    <2>3. SameDrains
      BY <1>0, <1>7 DEF Leave, SameDrains, DrainStates, PlaceType, Idle
    <2>4. MarksOfCurrent
      <3>1. scheduled' = scheduled
        BY <1>7 DEF Leave, laneVars
      <3> QED
        BY <3>1 DEF MarksOfCurrent
    <2>5. \A h \in Gens : Users(h)' = Users(h)
      BY <2>1, <2>2, <2>3, UsersSame
    <2> QED
      BY <1>0, <2>1, <2>4, <2>5, StoreFrame
  <1>8. ASSUME NEW w \in Workers, Expire(w) PROVE Stored'
    <2>1. UNCHANGED <<references, mem, opened, current, retired>>
      BY <1>8 DEF Expire, genVars, writerVars
    <2>2. TokensSame
      BY <1>8, TokenExpires
    <2>3. SameDrains
      BY <1>0, <1>8 DEF Expire, SameDrains, DrainStates, PlaceType, Idle
    <2>4. MarksOfCurrent
      <3>1. scheduled' = scheduled
        BY <1>8 DEF Expire, laneVars
      <3> QED
        BY <3>1 DEF MarksOfCurrent
    <2>5. \A h \in Gens : Users(h)' = Users(h)
      BY <2>1, <2>2, <2>3, UsersSame
    <2> QED
      BY <1>0, <2>1, <2>4, <2>5, StoreFrame
  <1>9. ASSUME NEW w \in Workers, BeginDrain(w) PROVE Stored'
    <2>1. PICK g \in Gens :
             g = Head(mailbox[w]) /\ mailbox[w] # << >> /\ <<g, w>> \in Lanes
      BY <1>0, <1>9 DEF BeginDrain, MailType, Lanes
    <2>2. UNCHANGED <<references, mem, opened, current, retired, scheduled>>
      BY <1>9 DEF BeginDrain, writerVars, laneVars
    <2>3. TokenTaken(g, w)
      <3>1. mailbox' = [mailbox EXCEPT ![w] = Tail(@)] /\ timed' = timed
        BY <1>9 DEF BeginDrain
      <3> QED
        BY <2>1, <3>1, QueueLoses
    <2>4. /\ \A v \in Workers : v # w => pc'[v] = pc[v]
          /\ pc'[w].g = g /\ pc'[w].at \in DrainStates /\ pc[w].at \notin DrainStates
      BY <1>0, <1>9, <2>1 DEF BeginDrain, PlaceType, DrainStates
    <2>5. /\ Cardinality(Holders(g)') = Cardinality(Holders(g)) - 1
          /\ \A h \in Gens : h # g => Holders(h)' = Holders(h)
      BY <2>3, HoldersMove
    <2>6. /\ Cardinality(Draining(g)') = Cardinality(Draining(g)) + 1
          /\ \A h \in Gens : h # g => Draining(h)' = Draining(h)
      BY <2>4, DrainsMove
    <2>7. \A h \in Gens : Owned(h)' = Owned(h)
      BY <2>2 DEF Owned
    <2>8. Users(g)' = Users(g)
      <3>1. /\ Cardinality(Holders(g)) \in Nat /\ Cardinality(Draining(g)) \in Nat
            /\ Owned(g) \in {0, 1}
        BY UserTypes
      <3> QED
        BY <2>5, <2>6, <2>7, <3>1 DEF Users
    <2>9. \A h \in Gens : h # g => Users(h)' = Users(h)
      BY <2>5, <2>6, <2>7 DEF Users
    <2>10. MarksOfCurrent
      BY <2>2 DEF MarksOfCurrent
    <2> QED
      BY <1>0, <2>2, <2>8, <2>9, <2>10, StoreFrame
  <1>10. ASSUME NEW w \in Workers, PrepareDrain(w) PROVE Stored'
    <2>1. UNCHANGED <<references, mem, opened, current, retired>>
      BY <1>10 DEF PrepareDrain, FillBatch, genVars, writerVars
    <2>2. TokensSame
      <3>1. mailbox' = mailbox /\ timed' = timed
        BY <1>10 DEF PrepareDrain, FillBatch, queueVars
      <3> QED
        BY <3>1, QueuesStay
    <2>3. SameDrains
      BY <1>0, <1>10
         DEF PrepareDrain, FillBatch, SameDrains, DrainStates, PlaceType, Idle
    <2>4. MarksOfCurrent
      <3>1. PICK c \in Gens : c = pc[w].g /\ <<c, w>> \in Lanes
        BY <1>10, InGens DEF PrepareDrain
      <3>2. c = current
        BY <1>10, <3>1, InsideIsCurrent DEF PrepareDrain
      <3>3. \A k \in Lanes : k # <<c, w>> => scheduled'[k] = scheduled[k]
        BY <1>0, <1>10, <3>1 DEF PrepareDrain, FillBatch, FlagType
      <3> QED
        BY <3>2, <3>3 DEF MarksOfCurrent, Lanes
    <2>5. \A h \in Gens : Users(h)' = Users(h)
      BY <2>1, <2>2, <2>3, UsersSame
    <2> QED
      BY <1>0, <2>1, <2>4, <2>5, StoreFrame
  <1>11. ASSUME NEW w \in Workers, NEW n \in 0 .. BatchMax,
                NEW status \in {"continue", "blocked", "failed"},
                Write(w, n, status)
         PROVE  Stored'
    <2>1. UNCHANGED <<references, mem, opened, current, retired>>
      BY <1>11 DEF Write, genVars, writerVars
    <2>2. TokensSame
      <3>1. mailbox' = mailbox /\ timed' = timed
        BY <1>11 DEF Write, queueVars
      <3> QED
        BY <3>1, QueuesStay
    <2>3. SameDrains
      <3>1. \A v \in Workers : v # w => pc'[v] = pc[v]
        BY <1>0, <1>11 DEF Write, PlaceType
      <3>2. pc[w].at = "write"
        BY <1>11 DEF Write
      <3>3. /\ pc'[w].at \in {"leaveFailed", "leaveDrain", "retry", "again"}
            /\ pc'[w].g = pc[w].g
        BY <1>11, WriteGoesWhere
      <3> QED
        BY <3>1, <3>2, <3>3 DEF SameDrains, DrainStates
    <2>4. MarksOfCurrent
      <3>1. PICK c \in Gens : c = pc[w].g /\ <<c, w>> \in Lanes
        BY <1>11, InGens DEF Write
      <3>2. c = current
        BY <1>11, <3>1, InsideIsCurrent DEF Write
      <3>3. \A k \in Lanes : k # <<c, w>> => scheduled'[k] = scheduled[k]
        BY <1>0, <1>11, <3>1 DEF Write, FlagType
      <3> QED
        BY <3>2, <3>3 DEF MarksOfCurrent, Lanes
    <2>5. \A h \in Gens : Users(h)' = Users(h)
      BY <2>1, <2>2, <2>3, UsersSame
    <2> QED
      BY <1>0, <2>1, <2>4, <2>5, StoreFrame
  <1>12. ASSUME NEW w \in Workers, ScheduleDrain(w) PROVE Stored'
    <2>1. PICK g \in Gens : g = pc[w].g /\ <<g, w>> \in Lanes
      BY <1>12, InGens DEF ScheduleDrain
    <2>2. UNCHANGED <<mem, opened, current, retired>>
      BY <1>12 DEF ScheduleDrain, writerVars
    <2>3. SameDrains
      BY <1>0, <1>12
         DEF ScheduleDrain, Accept, Refuse, SameDrains, DrainStates,
             PlaceType, Idle
    <2>4. MarksOfCurrent
      <3>1. PICK c \in Gens : c = pc[w].g /\ <<c, w>> \in Lanes
        BY <1>12, InGens DEF ScheduleDrain
      <3>2. c = current
        BY <1>12, <3>1, InsideIsCurrent DEF ScheduleDrain
      <3>3. \A k \in Lanes : k # <<c, w>> => scheduled'[k] = scheduled[k]
        BY <1>0, <1>12, <3>1 DEF ScheduleDrain, Accept, Refuse, FlagType
      <3> QED
        BY <3>2, <3>3 DEF MarksOfCurrent, Lanes
    <2>5. g = current /\ ~scheduled[<<g, w>>]
      BY <1>0, <1>12, <2>1, InsideIsCurrent DEF ScheduleDrain, DriverBooks
    <2>6. ~HasToken(g, w)
      BY <2>5, Undriven
    <2>7. CASE \E after \in {0, delay} : Accept(g, w, after)
      <3>1. PICK after : Accept(g, w, after)
        BY <2>7
      <3>2. /\ TokenAdded(g, w)
            /\ references' = [references EXCEPT ![g] = @ + 1]
        BY <2>6, <3>1, Accepting
      <3> QED
        BY <1>0, <2>2, <2>3, <2>4, <2>5, <2>6, <3>2, StoreGains
    <2>8. CASE Refuse(g, w)
      <3>1. TokensSame /\ references' = references
        BY <2>8, Refusing
      <3>2. \A h \in Gens : Users(h)' = Users(h)
        BY <2>2, <2>3, <3>1, UsersSame
      <3> QED
        BY <1>0, <2>2, <2>4, <3>1, <3>2, StoreFrame
    <2> QED
      BY <1>12, <2>1, <2>7, <2>8 DEF ScheduleDrain
  <1>13. ASSUME NEW w \in Workers, FailDrain(w) PROVE Stored'
    <2>1. UNCHANGED <<references, mem, opened, current, retired>>
      BY <1>13 DEF FailDrain, genVars, writerVars
    <2>2. TokensSame
      <3>1. mailbox' = mailbox /\ timed' = timed
        BY <1>13 DEF FailDrain, queueVars
      <3> QED
        BY <3>1, QueuesStay
    <2>3. SameDrains
      BY <1>0, <1>13 DEF FailDrain, SameDrains, DrainStates, PlaceType, Idle
    <2>4. MarksOfCurrent
      <3>1. scheduled' = scheduled
        BY <1>13 DEF FailDrain, laneVars
      <3> QED
        BY <3>1 DEF MarksOfCurrent
    <2>5. \A h \in Gens : Users(h)' = Users(h)
      BY <2>1, <2>2, <2>3, UsersSame
    <2> QED
      BY <1>0, <2>1, <2>4, <2>5, StoreFrame
  <1>14. ASSUME NEW w \in Workers, EndDrain(w) PROVE Stored'
    <2>1. PICK g \in Gens : g = pc[w].g /\ <<g, w>> \in Lanes
      BY <1>14, InGens DEF EndDrain
    <2>2. UNCHANGED <<opened, current, retired, scheduled, mailbox, timed>>
      BY <1>14 DEF EndDrain, writerVars, laneVars, queueVars
    <2>3. TokensSame
      BY <2>2, QueuesStay
    <2>4. /\ \A v \in Workers : v # w => pc'[v] = pc[v]
          /\ pc[w].g = g /\ pc'[w].at \notin DrainStates /\ pc[w].at \in DrainStates
      BY <1>0, <1>14, <2>1 DEF EndDrain, PlaceType, DrainStates, Idle
    <2>5. /\ Cardinality(Draining(g)') = Cardinality(Draining(g)) - 1
          /\ \A h \in Gens : h # g => Draining(h)' = Draining(h)
      BY <2>4, DrainsMove
    <2>6. \A h \in Gens : Holders(h)' = Holders(h) /\ Owned(h)' = Owned(h)
      BY <2>2, <2>3, HoldersSame DEF Owned
    <2>7. Users(g)' = Users(g) - 1 /\ Users(g) > 0
      <3>1. /\ Cardinality(Holders(g)) \in Nat /\ Cardinality(Draining(g)) \in Nat
            /\ Owned(g) \in {0, 1} /\ Cardinality(Draining(g)') \in Nat
        BY UserTypes
      <3>2. Users(g)' = Users(g) - 1
        BY <2>5, <2>6, <3>1 DEF Users
      <3>3. Users(g) > 0
        BY <2>5, <3>1 DEF Users
      <3> QED
        BY <3>2, <3>3
    <2>8. \A h \in Gens : h # g => Users(h)' = Users(h)
      BY <2>5, <2>6 DEF Users
    <2>9. Unref(g)
      BY <1>14, <2>1 DEF EndDrain
    <2> QED
      BY <1>0, <2>2, <2>7, <2>8, <2>9, StoreLoses
  <1>15. ASSUME NEW w \in Workers, CloseMailbox(w) PROVE Stored'
    <2>1. UNCHANGED <<references, mem, opened, current, retired>>
      BY <1>15 DEF CloseMailbox, genVars, writerVars
    <2>2. TokensSame
      <3>1. mailbox' = mailbox /\ timed' = timed
        BY <1>15 DEF CloseMailbox, queueVars
      <3> QED
        BY <3>1, QueuesStay
    <2>3. SameDrains
      BY <1>0, <1>15 DEF CloseMailbox, SameDrains, DrainStates, PlaceType, Idle
    <2>4. MarksOfCurrent
      <3>1. scheduled' = scheduled
        BY <1>15 DEF CloseMailbox, laneVars
      <3> QED
        BY <3>1 DEF MarksOfCurrent
    <2>5. \A h \in Gens : Users(h)' = Users(h)
      BY <2>1, <2>2, <2>3, UsersSame
    <2> QED
      BY <1>0, <2>1, <2>4, <2>5, StoreFrame
  <1>16. ASSUME NEW w \in Workers, CancelToken(w) PROVE Stored'
    <2>1. PICK g \in Gens :
             /\ \/ /\ mailbox[w] # << >> /\ g = Head(mailbox[w])
                   /\ mailbox' = [mailbox EXCEPT ![w] = Tail(@)]
                   /\ timed' = timed
                \/ /\ timed[w] # << >> /\ g = Head(timed[w])
                   /\ timed' = [timed EXCEPT ![w] = Tail(@)]
                   /\ mailbox' = mailbox
             /\ Unref(g)
      BY <1>16 DEF CancelToken
    <2>2. UNCHANGED <<opened, current, retired, scheduled, pc>>
      BY <1>16 DEF CancelToken, writerVars
    <2>3. TokenTaken(g, w)
      BY <2>1, QueueLoses
    <2>4. SameDrains
      BY <2>2 DEF SameDrains
    <2>5. /\ Cardinality(Holders(g)') = Cardinality(Holders(g)) - 1
          /\ \A h \in Gens : h # g => Holders(h)' = Holders(h)
      BY <2>3, HoldersMove
    <2>6. \A h \in Gens : Draining(h)' = Draining(h) /\ Owned(h)' = Owned(h)
      BY <2>2, <2>4, DrainsSame DEF Owned
    <2>7. Users(g)' = Users(g) - 1 /\ Users(g) > 0
      <3>1. /\ Cardinality(Holders(g)) \in Nat /\ Cardinality(Draining(g)) \in Nat
            /\ Owned(g) \in {0, 1} /\ Cardinality(Holders(g)') \in Nat
        BY UserTypes
      <3>2. Users(g)' = Users(g) - 1
        BY <2>5, <2>6, <3>1 DEF Users
      <3>3. Users(g) > 0
        BY <2>5, <3>1 DEF Users
      <3> QED
        BY <3>2, <3>3
    <2>8. \A h \in Gens : h # g => Users(h)' = Users(h)
      BY <2>5, <2>6 DEF Users
    <2> QED
      BY <1>0, <2>1, <2>2, <2>7, <2>8, StoreLoses
  <1>17. ASSUME NEW l \in Lanes, EnterToNotify(l) PROVE Stored'
    <2>1. UNCHANGED <<references, mem, opened, current, retired>>
      BY <1>17 DEF EnterToNotify, genVars, writerVars
    <2>2. TokensSame
      <3>1. mailbox' = mailbox /\ timed' = timed
        BY <1>17 DEF EnterToNotify, queueVars
      <3> QED
        BY <3>1, QueuesStay
    <2>3. SameDrains
      BY <1>0, <1>17
         DEF EnterToNotify, SameDrains, DrainStates, PlaceType, Idle
    <2>4. MarksOfCurrent
      <3>1. scheduled' = scheduled
        BY <1>17 DEF EnterToNotify, laneVars
      <3> QED
        BY <3>1 DEF MarksOfCurrent
    <2>5. \A h \in Gens : Users(h)' = Users(h)
      BY <2>1, <2>2, <2>3, UsersSame
    <2> QED
      BY <1>0, <2>1, <2>4, <2>5, StoreFrame
  <1>18. ASSUME NEW l \in Lanes, PostNotification(l) PROVE Stored'
    <2>1. PICK g \in Gens, w \in Workers : l = <<g, w>>
      BY DEF Lanes
    <2>2. UNCHANGED <<mem, opened, current, retired, pc, scheduled>>
      BY <1>18 DEF PostNotification, writerVars
    <2>3. SameDrains /\ MarksOfCurrent
      BY <2>2 DEF SameDrains, MarksOfCurrent
    <2>4. notifier[<<g, w>>] = "inside"
      BY <1>18, <2>1 DEF PostNotification
    <2>5. g = current /\ ~HasToken(g, w)
      BY <1>0, <2>4 DEF Notifying, DriverBooks, NativeGood, NativeBooks
    <2>6. CASE Accept(g, w, 0)
      <3>1. /\ TokenAdded(g, w)
            /\ references' = [references EXCEPT ![g] = @ + 1]
        BY <2>5, <2>6, Accepting
      <3> QED
        BY <1>0, <2>2, <2>3, <2>5, <3>1, StoreGains
    <2>7. CASE Refuse(g, w) \/ UNCHANGED <<references, mailbox, timed>>
      <3>1. TokensSame /\ references' = references
        BY <2>7, Refusing, QueuesStay
      <3>2. \A h \in Gens : Users(h)' = Users(h)
        BY <2>2, <2>3, <3>1, UsersSame
      <3> QED
        BY <1>0, <2>2, <2>3, <3>1, <3>2, StoreFrame
    <2> QED
      BY <1>18, <2>1, <2>6, <2>7 DEF PostNotification
  <1>19. ASSUME NEW l \in Lanes, LeaveNotify(l) PROVE Stored'
    <2>1. UNCHANGED <<references, mem, opened, current, retired>>
      BY <1>19 DEF LeaveNotify, genVars, writerVars
    <2>2. TokensSame
      <3>1. mailbox' = mailbox /\ timed' = timed
        BY <1>19 DEF LeaveNotify, queueVars
      <3> QED
        BY <3>1, QueuesStay
    <2>3. SameDrains
      BY <1>0, <1>19 DEF LeaveNotify, SameDrains, DrainStates, PlaceType, Idle
    <2>4. MarksOfCurrent
      <3>1. scheduled' = scheduled
        BY <1>19 DEF LeaveNotify, laneVars
      <3> QED
        BY <3>1 DEF MarksOfCurrent
    <2>5. \A h \in Gens : Users(h)' = Users(h)
      BY <2>1, <2>2, <2>3, UsersSame
    <2> QED
      BY <1>0, <2>1, <2>4, <2>5, StoreFrame
  <1>20. ASSUME Open PROVE Stored'
    <2>1. PICK g \in Gens :
             /\ g = opened + 1 /\ opened' = g /\ current' = g /\ opened \in Nat
             /\ mem' = [mem EXCEPT ![g] = "live"]
             /\ references' = [references EXCEPT ![g] = 1]
      <3>1. opened + 1 \in Gens /\ opened \in Nat
        BY <1>0, <1>20, RawWriterAssumption DEF Open, OwnerType, Gens
      <3>2. /\ opened' = opened + 1 /\ current' = opened + 1
            /\ mem' = [mem EXCEPT ![opened + 1] = "live"]
            /\ references' = [references EXCEPT ![opened + 1] = 1]
        BY <1>20 DEF Open
      <3> QED
        BY <3>1, <3>2
    <2>2. /\ UNCHANGED <<retired, scheduled, pc, mailbox, timed>> /\ current = 0
      BY <1>20 DEF Open, laneVars, queueVars
    <2>3. TokensSame /\ SameDrains
      BY <2>2, QueuesStay DEF SameDrains
    <2>4. \A h \in Gens : Holders(h)' = Holders(h) /\ Draining(h)' = Draining(h)
      BY <2>3, HoldersSame, DrainsSame
    <2>5. /\ references'[g] = 1 /\ mem'[g] = "live"
          /\ \A h \in Gens : h # g =>
                references'[h] = references[h] /\ mem'[h] = mem[h]
      BY <1>0, <2>1 DEF GenType
    <2>6. references[g] = 0
      BY <1>0, <2>1 DEF Stored, FreshGood
    <2>7. Users(g)' = 1
      <3>1. /\ Cardinality(Holders(g)) \in Nat /\ Cardinality(Draining(g)) \in Nat
            /\ Owned(g) \in {0, 1}
        BY UserTypes
      <3>2. Users(g) = 0
        BY <1>0, <2>6 DEF Stored, RefsGood
      <3>3. Cardinality(Holders(g)) = 0 /\ Cardinality(Draining(g)) = 0
        BY <3>1, <3>2 DEF Users
      <3>4. Owned(g)' = 1
        BY <2>1 DEF Owned
      <3> QED
        BY <2>4, <3>3, <3>4 DEF Users
    <2>8. ASSUME NEW h \in Gens, h # g PROVE Users(h)' = Users(h)
      <3>1. h # 0
        BY DEF Gens
      <3>2. Owned(h)' = Owned(h)
        BY <2>1, <2>2, <2>8, <3>1 DEF Owned
      <3> QED
        BY <2>4, <3>2 DEF Users
    <2>9. RefsGood' /\ LiveGood'
      BY <1>0, <2>5, <2>7, <2>8 DEF Stored, RefsGood, LiveGood
    <2>10. ASSUME NEW h \in Gens, h > opened' PROVE h > opened /\ h # g
      BY <2>1, <2>10, RawWriterAssumption DEF Gens
    <2>11. FreshGood'
      BY <1>0, <2>2, <2>5, <2>10 DEF Stored, FreshGood
    <2> QED
      BY <2>9, <2>11 DEF Stored
  <1>21. ASSUME Unpublish PROVE Stored'
    <2>1. UNCHANGED <<references, mem, opened, current, retired>>
      BY <1>21 DEF Unpublish, genVars, writerVars
    <2>2. TokensSame
      <3>1. mailbox' = mailbox /\ timed' = timed
        BY <1>21 DEF Unpublish, queueVars
      <3> QED
        BY <3>1, QueuesStay
    <2>3. SameDrains
      BY <1>0, <1>21 DEF Unpublish, SameDrains, DrainStates, PlaceType, Idle
    <2>4. MarksOfCurrent
      <3>1. scheduled' = scheduled
        BY <1>21 DEF Unpublish, laneVars
      <3> QED
        BY <3>1 DEF MarksOfCurrent
    <2>5. \A h \in Gens : Users(h)' = Users(h)
      BY <2>1, <2>2, <2>3, UsersSame
    <2> QED
      BY <1>0, <2>1, <2>4, <2>5, StoreFrame
  <1>22. ASSUME CloseGate PROVE Stored'
    <2>1. UNCHANGED <<references, mem, opened, current, retired>>
      BY <1>22 DEF CloseGate, genVars, writerVars
    <2>2. TokensSame
      <3>1. mailbox' = mailbox /\ timed' = timed
        BY <1>22 DEF CloseGate, queueVars
      <3> QED
        BY <3>1, QueuesStay
    <2>3. SameDrains
      BY <1>0, <1>22 DEF CloseGate, SameDrains, DrainStates, PlaceType, Idle
    <2>4. MarksOfCurrent
      <3>1. scheduled' = scheduled
        BY <1>22 DEF CloseGate, laneVars
      <3> QED
        BY <3>1 DEF MarksOfCurrent
    <2>5. \A h \in Gens : Users(h)' = Users(h)
      BY <2>1, <2>2, <2>3, UsersSame
    <2> QED
      BY <1>0, <2>1, <2>4, <2>5, StoreFrame
  <1>23. ASSUME StopNative PROVE Stored'
    <2>1. UNCHANGED <<references, mem, opened, current, retired>>
      BY <1>23 DEF StopNative, genVars, writerVars
    <2>2. TokensSame
      <3>1. mailbox' = mailbox /\ timed' = timed
        BY <1>23 DEF StopNative, queueVars
      <3> QED
        BY <3>1, QueuesStay
    <2>3. SameDrains
      BY <1>0, <1>23 DEF StopNative, SameDrains, DrainStates, PlaceType, Idle
    <2>4. MarksOfCurrent
      <3>1. scheduled' = scheduled
        BY <1>23 DEF StopNative, laneVars
      <3> QED
        BY <3>1 DEF MarksOfCurrent
    <2>5. \A h \in Gens : Users(h)' = Users(h)
      BY <2>1, <2>2, <2>3, UsersSame
    <2> QED
      BY <1>0, <2>1, <2>4, <2>5, StoreFrame
  <1>24. ASSUME Discard PROVE Stored'
    <2>1. /\ UNCHANGED <<references, mem, opened, scheduled, pc, mailbox, timed>>
          /\ current' = 0 /\ retired' = retired \cup {current}
      BY <1>24 DEF Discard, queueVars
    <2>2. TokensSame /\ SameDrains /\ MarksOfCurrent
      BY <2>1, QueuesStay DEF SameDrains, MarksOfCurrent
    <2>3. ASSUME NEW h \in Gens PROVE Users(h)' = Users(h)
      <3>1. Holders(h)' = Holders(h) /\ Draining(h)' = Draining(h)
        BY <2>2, HoldersSame, DrainsSame
      <3>2. h # 0
        BY DEF Gens
      <3>3. Owned(h)' = Owned(h)
        BY <2>1, <3>2 DEF Owned
      <3> QED
        BY <3>1, <3>3 DEF Users
    <2> QED
      BY <1>0, <2>1, <2>2, <2>3, StoreFrame
  <1>25. ASSUME BeginDestroy PROVE Stored'
    <2>1. UNCHANGED <<references, mem, opened, current, retired>>
      BY <1>25 DEF BeginDestroy, genVars, writerVars
    <2>2. TokensSame
      <3>1. mailbox' = mailbox /\ timed' = timed
        BY <1>25 DEF BeginDestroy, queueVars
      <3> QED
        BY <3>1, QueuesStay
    <2>3. SameDrains
      BY <1>0, <1>25 DEF BeginDestroy, SameDrains, DrainStates, PlaceType, Idle
    <2>4. MarksOfCurrent
      <3>1. scheduled' = scheduled
        BY <1>25 DEF BeginDestroy, laneVars
      <3> QED
        BY <3>1 DEF MarksOfCurrent
    <2>5. \A h \in Gens : Users(h)' = Users(h)
      BY <2>1, <2>2, <2>3, UsersSame
    <2> QED
      BY <1>0, <2>1, <2>4, <2>5, StoreFrame
  <1>26. ASSUME NEW g \in Gens, DestroyOne(g) PROVE Stored'
    <2>1. /\ UNCHANGED <<opened, current, scheduled, pc, mailbox, timed>>
          /\ retired' = retired \ {g} /\ g \in retired /\ owner = "destroy"
          /\ Unref(g)
      BY <1>26 DEF DestroyOne, laneVars, queueVars
    <2>2. TokensSame /\ SameDrains
      BY <2>1, QueuesStay DEF SameDrains
    <2>3. \A h \in Gens : Holders(h)' = Holders(h) /\ Draining(h)' = Draining(h)
      BY <2>2, HoldersSame, DrainsSame
    <2>4. g # current
      BY <1>0, <2>1 DEF OwnerBooks, Gens
    <2>5. /\ Owned(g) = 1 /\ Owned(g)' = 0
          /\ \A h \in Gens : h # g => Owned(h)' = Owned(h)
      BY <2>1, <2>4 DEF Owned
    <2>6. Users(g)' = Users(g) - 1 /\ Users(g) > 0
      <3>1. Cardinality(Holders(g)) \in Nat /\ Cardinality(Draining(g)) \in Nat
        BY UserTypes
      <3> QED
        BY <2>3, <2>5, <3>1 DEF Users
    <2>7. \A h \in Gens : h # g => Users(h)' = Users(h)
      BY <2>3, <2>5 DEF Users
    <2> QED
      BY <1>0, <2>1, <2>6, <2>7, StoreLoses
  <1> QED
    BY <1>1, <1>2, <1>3, <1>4, <1>5, <1>6, <1>7, <1>8, <1>9, <1>10, <1>11,
       <1>12, <1>13, <1>14, <1>15, <1>16, <1>17, <1>18, <1>19, <1>20, <1>21,
       <1>22, <1>23, <1>24, <1>25, <1>26
       DEF Next, SendStep, DrainStep, NotifyStep, CloseStep, DestroyStep

-----------------------------------------------------------------------------
(* The producers, when none of them begins.                                *)
LEMMA SenderFrame ==
    ASSUME SendersGood, UNCHANGED <<current, retired>>,
           owner' = owner \/ owner' \notin {"destroy", "gone"},
           \A v \in Workers : \/ pc'[v] = pc[v]
                              \/ Sending(v) /\ pc'[v].g = pc[v].g
                              \/ ~Sending(v)'
    PROVE  SendersGood'
  <1>1. ASSUME NEW v \in Workers PROVE SenderBooks(v)'
    BY DEF SendersGood, SenderBooks, Sending
  <1> QED
    BY <1>1 DEF SendersGood

(* The producers.                                                          *)
LEMMA SendersKept ==
    ASSUME Books, Next, ~Over, SendersGood
    PROVE  SendersGood'
  <1>0. /\ PlaceType /\ OwnerType /\ OwnerBooks /\ SendersGood
        /\ \A v \in Workers : PlaceBooks(v)
    BY Facts1
  <1>1. ASSUME NEW w \in Workers, SelectGeneration(w) PROVE SendersGood'
    <2>1. UNCHANGED <<current, retired, owner>>
      BY <1>1 DEF SelectGeneration, writerVars
    <2>2. /\ \A v \in Workers : v # w => pc'[v] = pc[v]
          /\ pc'[w].g = published
          /\ published # 0 /\ owner \notin {"destroy", "gone"}
      BY <1>0, <1>1 DEF SelectGeneration, PlaceType
    <2>3. published = current
      BY <1>0, <2>2 DEF OwnerBooks
    <2>4. SenderBooks(w)'
      BY <2>1, <2>2, <2>3 DEF SenderBooks
    <2>5. \A v \in Workers : v # w => SenderBooks(v)'
      BY <1>0, <2>1, <2>2 DEF SendersGood, SenderBooks, Sending
    <2> QED
      BY <2>4, <2>5 DEF SendersGood
  <1>2. ASSUME NEW w \in Workers, EnterToSend(w) PROVE SendersGood'
    <2>1. /\ UNCHANGED <<current, retired>>
          /\ owner' = owner \/ owner' \notin {"destroy", "gone"}
      BY <1>2 DEF EnterToSend, writerVars
    <2>2. \A v \in Workers : \/ pc'[v] = pc[v]
                             \/ Sending(v) /\ pc'[v].g = pc[v].g
                             \/ ~Sending(v)'
      BY <1>0, <1>2 DEF EnterToSend, PlaceType, Idle, Sending
    <2> QED
      BY <1>0, <2>1, <2>2, SenderFrame
  <1>3. ASSUME NEW w \in Workers, CheckLane(w) PROVE SendersGood'
    <2>1. /\ UNCHANGED <<current, retired>>
          /\ owner' = owner \/ owner' \notin {"destroy", "gone"}
      BY <1>3 DEF CheckLane, writerVars
    <2>2. \A v \in Workers : \/ pc'[v] = pc[v]
                             \/ Sending(v) /\ pc'[v].g = pc[v].g
                             \/ ~Sending(v)'
      BY <1>0, <1>3 DEF CheckLane, PlaceType, Idle, Sending
    <2> QED
      BY <1>0, <2>1, <2>2, SenderFrame
  <1>4. ASSUME NEW w \in Workers, Reserve(w) PROVE SendersGood'
    <2>1. /\ UNCHANGED <<current, retired>>
          /\ owner' = owner \/ owner' \notin {"destroy", "gone"}
      BY <1>4 DEF Reserve, writerVars
    <2>2. \A v \in Workers : \/ pc'[v] = pc[v]
                             \/ Sending(v) /\ pc'[v].g = pc[v].g
                             \/ ~Sending(v)'
      BY <1>0, <1>4 DEF Reserve, PlaceType, Idle, Sending
    <2> QED
      BY <1>0, <2>1, <2>2, SenderFrame
  <1>5. ASSUME NEW w \in Workers, ScheduleSend(w) PROVE SendersGood'
    <2>1. /\ UNCHANGED <<current, retired>>
          /\ owner' = owner \/ owner' \notin {"destroy", "gone"}
      BY <1>5 DEF ScheduleSend, Accept, Refuse, writerVars
    <2>2. \A v \in Workers : \/ pc'[v] = pc[v]
                             \/ Sending(v) /\ pc'[v].g = pc[v].g
                             \/ ~Sending(v)'
      BY <1>0, <1>5 DEF ScheduleSend, Accept, Refuse, PlaceType, Idle, Sending
    <2> QED
      BY <1>0, <2>1, <2>2, SenderFrame
  <1>6. ASSUME NEW w \in Workers, UndoSend(w) PROVE SendersGood'
    <2>1. /\ UNCHANGED <<current, retired>>
          /\ owner' = owner \/ owner' \notin {"destroy", "gone"}
      BY <1>6 DEF UndoSend, writerVars
    <2>2. \A v \in Workers : \/ pc'[v] = pc[v]
                             \/ Sending(v) /\ pc'[v].g = pc[v].g
                             \/ ~Sending(v)'
      BY <1>0, <1>6 DEF UndoSend, PlaceType, Idle, Sending
    <2> QED
      BY <1>0, <2>1, <2>2, SenderFrame
  <1>7. ASSUME NEW w \in Workers, Leave(w) PROVE SendersGood'
    <2>1. /\ UNCHANGED <<current, retired>>
          /\ owner' = owner \/ owner' \notin {"destroy", "gone"}
      BY <1>7 DEF Leave, writerVars
    <2>2. \A v \in Workers : \/ pc'[v] = pc[v]
                             \/ Sending(v) /\ pc'[v].g = pc[v].g
                             \/ ~Sending(v)'
      BY <1>0, <1>7 DEF Leave, PlaceType, Idle, Sending
    <2> QED
      BY <1>0, <2>1, <2>2, SenderFrame
  <1>8. ASSUME NEW w \in Workers, Expire(w) PROVE SendersGood'
    <2>1. /\ UNCHANGED <<current, retired>>
          /\ owner' = owner \/ owner' \notin {"destroy", "gone"}
      BY <1>8 DEF Expire, writerVars
    <2>2. \A v \in Workers : \/ pc'[v] = pc[v]
                             \/ Sending(v) /\ pc'[v].g = pc[v].g
                             \/ ~Sending(v)'
      BY <1>0, <1>8 DEF Expire, PlaceType, Idle, Sending
    <2> QED
      BY <1>0, <2>1, <2>2, SenderFrame
  <1>9. ASSUME NEW w \in Workers, BeginDrain(w) PROVE SendersGood'
    <2>1. /\ UNCHANGED <<current, retired>>
          /\ owner' = owner \/ owner' \notin {"destroy", "gone"}
      BY <1>9 DEF BeginDrain, writerVars
    <2>2. \A v \in Workers : \/ pc'[v] = pc[v]
                             \/ Sending(v) /\ pc'[v].g = pc[v].g
                             \/ ~Sending(v)'
      BY <1>0, <1>9 DEF BeginDrain, PlaceType, Idle, Sending
    <2> QED
      BY <1>0, <2>1, <2>2, SenderFrame
  <1>10. ASSUME NEW w \in Workers, PrepareDrain(w) PROVE SendersGood'
    <2>1. /\ UNCHANGED <<current, retired>>
          /\ owner' = owner \/ owner' \notin {"destroy", "gone"}
      BY <1>10 DEF PrepareDrain, FillBatch, writerVars
    <2>2. \A v \in Workers : \/ pc'[v] = pc[v]
                             \/ Sending(v) /\ pc'[v].g = pc[v].g
                             \/ ~Sending(v)'
      BY <1>0, <1>10 DEF PrepareDrain, FillBatch, PlaceType, Idle, Sending
    <2> QED
      BY <1>0, <2>1, <2>2, SenderFrame
  <1>11. ASSUME NEW w \in Workers, NEW n \in 0 .. BatchMax,
                NEW status \in {"continue", "blocked", "failed"},
                Write(w, n, status)
         PROVE  SendersGood'
    <2>1. /\ UNCHANGED <<current, retired>>
          /\ owner' = owner \/ owner' \notin {"destroy", "gone"}
      BY <1>11 DEF Write, writerVars
    <2>2. \A v \in Workers : pc'[v] = pc[v] \/ ~Sending(v)'
      <3>1. \A v \in Workers : v # w => pc'[v] = pc[v]
        BY <1>0, <1>11 DEF Write, PlaceType
      <3>2. pc'[w].at \in {"leaveFailed", "leaveDrain", "retry", "again"}
        BY <1>11, WriteGoesWhere
      <3> QED
        BY <3>1, <3>2 DEF Sending
    <2> QED
      BY <1>0, <2>1, <2>2, SenderFrame
  <1>12. ASSUME NEW w \in Workers, ScheduleDrain(w) PROVE SendersGood'
    <2>1. /\ UNCHANGED <<current, retired>>
          /\ owner' = owner \/ owner' \notin {"destroy", "gone"}
      BY <1>12 DEF ScheduleDrain, Accept, Refuse, writerVars
    <2>2. \A v \in Workers : \/ pc'[v] = pc[v]
                             \/ Sending(v) /\ pc'[v].g = pc[v].g
                             \/ ~Sending(v)'
      BY <1>0, <1>12
         DEF ScheduleDrain, Accept, Refuse, PlaceType, Idle, Sending
    <2> QED
      BY <1>0, <2>1, <2>2, SenderFrame
  <1>13. ASSUME NEW w \in Workers, FailDrain(w) PROVE SendersGood'
    <2>1. /\ UNCHANGED <<current, retired>>
          /\ owner' = owner \/ owner' \notin {"destroy", "gone"}
      BY <1>13 DEF FailDrain, writerVars
    <2>2. \A v \in Workers : \/ pc'[v] = pc[v]
                             \/ Sending(v) /\ pc'[v].g = pc[v].g
                             \/ ~Sending(v)'
      BY <1>0, <1>13 DEF FailDrain, PlaceType, Idle, Sending
    <2> QED
      BY <1>0, <2>1, <2>2, SenderFrame
  <1>14. ASSUME NEW w \in Workers, EndDrain(w) PROVE SendersGood'
    <2>1. /\ UNCHANGED <<current, retired>>
          /\ owner' = owner \/ owner' \notin {"destroy", "gone"}
      BY <1>14 DEF EndDrain, Unref, writerVars
    <2>2. \A v \in Workers : \/ pc'[v] = pc[v]
                             \/ Sending(v) /\ pc'[v].g = pc[v].g
                             \/ ~Sending(v)'
      BY <1>0, <1>14 DEF EndDrain, Unref, PlaceType, Idle, Sending
    <2> QED
      BY <1>0, <2>1, <2>2, SenderFrame
  <1>15. ASSUME NEW w \in Workers, CloseMailbox(w) PROVE SendersGood'
    <2>1. /\ UNCHANGED <<current, retired>>
          /\ owner' = owner \/ owner' \notin {"destroy", "gone"}
      BY <1>15 DEF CloseMailbox, writerVars
    <2>2. \A v \in Workers : \/ pc'[v] = pc[v]
                             \/ Sending(v) /\ pc'[v].g = pc[v].g
                             \/ ~Sending(v)'
      BY <1>0, <1>15 DEF CloseMailbox, PlaceType, Idle, Sending
    <2> QED
      BY <1>0, <2>1, <2>2, SenderFrame
  <1>16. ASSUME NEW w \in Workers, CancelToken(w) PROVE SendersGood'
    <2>1. /\ UNCHANGED <<current, retired>>
          /\ owner' = owner \/ owner' \notin {"destroy", "gone"}
      BY <1>16 DEF CancelToken, Unref, writerVars
    <2>2. \A v \in Workers : \/ pc'[v] = pc[v]
                             \/ Sending(v) /\ pc'[v].g = pc[v].g
                             \/ ~Sending(v)'
      BY <1>0, <1>16 DEF CancelToken, Unref, PlaceType, Idle, Sending
    <2> QED
      BY <1>0, <2>1, <2>2, SenderFrame
  <1>17. ASSUME NEW l \in Lanes, EnterToNotify(l) PROVE SendersGood'
    <2>1. /\ UNCHANGED <<current, retired>>
          /\ owner' = owner \/ owner' \notin {"destroy", "gone"}
      BY <1>17 DEF EnterToNotify, writerVars
    <2>2. \A v \in Workers : \/ pc'[v] = pc[v]
                             \/ Sending(v) /\ pc'[v].g = pc[v].g
                             \/ ~Sending(v)'
      BY <1>0, <1>17 DEF EnterToNotify, PlaceType, Idle, Sending
    <2> QED
      BY <1>0, <2>1, <2>2, SenderFrame
  <1>18. ASSUME NEW l \in Lanes, PostNotification(l) PROVE SendersGood'
    <2>1. /\ UNCHANGED <<current, retired>>
          /\ owner' = owner \/ owner' \notin {"destroy", "gone"}
      BY <1>18 DEF PostNotification, Accept, Refuse, writerVars
    <2>2. \A v \in Workers : \/ pc'[v] = pc[v]
                             \/ Sending(v) /\ pc'[v].g = pc[v].g
                             \/ ~Sending(v)'
      BY <1>0, <1>18
         DEF PostNotification, Accept, Refuse, PlaceType, Idle, Sending
    <2> QED
      BY <1>0, <2>1, <2>2, SenderFrame
  <1>19. ASSUME NEW l \in Lanes, LeaveNotify(l) PROVE SendersGood'
    <2>1. /\ UNCHANGED <<current, retired>>
          /\ owner' = owner \/ owner' \notin {"destroy", "gone"}
      BY <1>19 DEF LeaveNotify, writerVars
    <2>2. \A v \in Workers : \/ pc'[v] = pc[v]
                             \/ Sending(v) /\ pc'[v].g = pc[v].g
                             \/ ~Sending(v)'
      BY <1>0, <1>19 DEF LeaveNotify, PlaceType, Idle, Sending
    <2> QED
      BY <1>0, <2>1, <2>2, SenderFrame
  <1>20. ASSUME Open PROVE SendersGood'
    <2>1. UNCHANGED <<retired, pc, owner>> /\ current = 0
      BY <1>20 DEF Open
    <2>2. \A v \in Workers : Sending(v) => pc[v].g # 0
      BY <1>0 DEF PlaceBooks, Sending
    <2> QED
      BY <1>0, <2>1, <2>2 DEF SendersGood, SenderBooks, Sending
  <1>21. ASSUME Unpublish PROVE SendersGood'
    <2>1. /\ UNCHANGED <<current, retired>>
          /\ owner' = owner \/ owner' \notin {"destroy", "gone"}
      BY <1>21 DEF Unpublish, writerVars
    <2>2. \A v \in Workers : \/ pc'[v] = pc[v]
                             \/ Sending(v) /\ pc'[v].g = pc[v].g
                             \/ ~Sending(v)'
      BY <1>0, <1>21 DEF Unpublish, PlaceType, Idle, Sending
    <2> QED
      BY <1>0, <2>1, <2>2, SenderFrame
  <1>22. ASSUME CloseGate PROVE SendersGood'
    <2>1. /\ UNCHANGED <<current, retired>>
          /\ owner' = owner \/ owner' \notin {"destroy", "gone"}
      BY <1>22 DEF CloseGate, writerVars
    <2>2. \A v \in Workers : \/ pc'[v] = pc[v]
                             \/ Sending(v) /\ pc'[v].g = pc[v].g
                             \/ ~Sending(v)'
      BY <1>0, <1>22 DEF CloseGate, PlaceType, Idle, Sending
    <2> QED
      BY <1>0, <2>1, <2>2, SenderFrame
  <1>23. ASSUME StopNative PROVE SendersGood'
    <2>1. /\ UNCHANGED <<current, retired>>
          /\ owner' = owner \/ owner' \notin {"destroy", "gone"}
      BY <1>23 DEF StopNative, writerVars
    <2>2. \A v \in Workers : \/ pc'[v] = pc[v]
                             \/ Sending(v) /\ pc'[v].g = pc[v].g
                             \/ ~Sending(v)'
      BY <1>0, <1>23 DEF StopNative, PlaceType, Idle, Sending
    <2> QED
      BY <1>0, <2>1, <2>2, SenderFrame
  <1>24. ASSUME Discard PROVE SendersGood'
    <2>1. /\ pc' = pc /\ owner' = "idle" /\ retired' = retired \cup {current}
      BY <1>24 DEF Discard
    <2> QED
      BY <1>0, <2>1 DEF SendersGood, SenderBooks, Sending
  <1>25. ASSUME BeginDestroy PROVE SendersGood'
    <2>1. pc' = pc /\ \A v \in Workers : ~Sending(v)
      BY <1>25 DEF BeginDestroy
    <2> QED
      BY <2>1 DEF SendersGood, SenderBooks, Sending
  <1>26. ASSUME NEW g \in Gens, DestroyOne(g) PROVE SendersGood'
    <2>1. pc' = pc /\ owner = "destroy"
      BY <1>26 DEF DestroyOne
    <2> QED
      BY <1>0, <2>1 DEF SendersGood, SenderBooks, Sending
  <1> QED
    BY <1>1, <1>2, <1>3, <1>4, <1>5, <1>6, <1>7, <1>8, <1>9, <1>10, <1>11,
       <1>12, <1>13, <1>14, <1>15, <1>16, <1>17, <1>18, <1>19, <1>20, <1>21,
       <1>22, <1>23, <1>24, <1>25, <1>26
       DEF Next, SendStep, DrainStep, NotifyStep, CloseStep, DestroyStep

-----------------------------------------------------------------------------
(* The packets that the lanes hold.  Only the current generation's do.     *)
LEMMA HeldIs ==
    ASSUME NEW g
    PROVE  /\ \A p : p \in Held(g) <=>
                 \E v \in Workers : \/ p \in Range(batch[<<g, v>>])
                                    \/ p \in Range(buffers[<<g, v>>])
           /\ \A p : p \in Held(g)' <=>
                 \E v \in Workers : \/ p \in Range(batch'[<<g, v>>])
                                    \/ p \in Range(buffers'[<<g, v>>])
  BY DEF Held

(* A sequence of packets holds packets.                                    *)
LEMMA RangeTyped ==
    ASSUME NEW s \in Seq(Packets) PROVE Range(s) \subseteq Packets
  BY DEF Range

(* A generation holds finitely many packets.                               *)
LEMMA HeldFinite ==
    ASSUME Books, NEW g \in Gens
    PROVE  /\ Held(g) \subseteq Packets /\ IsFiniteSet(Held(g))
           /\ Cardinality(Held(g)) \in Nat
  <1>1. \A v \in Workers : /\ batch[<<g, v>>] \in Seq(Packets)
                           /\ buffers[<<g, v>>] \in Seq(Packets)
    BY Facts1 DEF LaneType, Lanes
  <1>2. Held(g) \subseteq Packets
    BY <1>1, HeldIs, RangeTyped
  <1>3. IsFiniteSet(Held(g))
    BY <1>2, PacketsFinite, FS_Subset
  <1> QED
    BY <1>2, <1>3, FS_CardinalityType

(* The empty sequence holds nothing.                                       *)
LEMMA EmptyRange == Range(<< >>) = {}
  BY DEF Range

(* Generations that are not current hold nothing.                          *)
LEMMA OthersHoldNothing ==
    ASSUME Books, NEW h \in Gens, h # current PROVE Held(h) = {}
  <1>1. \A v \in Workers : batch[<<h, v>>] = << >> /\ buffers[<<h, v>>] = << >>
    BY Facts1 DEF GateBooks
  <1> QED
    BY <1>1, HeldIs, EmptyRange

(* The same of the next state.                                             *)
LEMMA OthersHoldNothingNext ==
    ASSUME Books', NEW h \in Gens, h # current' PROVE Held(h)' = {}
  <1>1. \A v \in Workers : batch'[<<h, v>>] = << >> /\ buffers'[<<h, v>>] = << >>
    BY DEF Books, GateBooks
  <1> QED
    BY <1>1, HeldIs, EmptyRange

(* So the books of ownership are about the current generation,             *)
LEMMA HeldNow ==
    ASSUME Books, HeldBooks
    PROVE  /\ \A h \in Gens : h # current => packets[h] = 0
           /\ \A c \in Gens : c = current =>
                 /\ packets[c] = Cardinality(Held(c))
                 /\ \A p \in Packets : fate[p] = "owned" <=> p \in Held(c)
  <1>1. \A h \in Gens : h # current => packets[h] = 0
    BY OthersHoldNothing, FS_EmptySet DEF HeldBooks
  <1>2. ASSUME NEW c \in Gens, c = current
        PROVE  \A p \in Packets : fate[p] = "owned" <=> p \in Held(c)
    <2>1. UNION {Held(h) : h \in Gens} = Held(c)
      BY <1>2, OthersHoldNothing
    <2> QED
      BY <2>1 DEF HeldBooks
  <1> QED
    BY <1>1, <1>2 DEF HeldBooks

(* before and after a step.                                                *)
LEMMA HeldNext ==
    ASSUME Books', NEW c \in Gens, c = current', Held(c)' \subseteq Packets,
           packets'[c] = Cardinality(Held(c)'),
           \A h \in Gens : h # c => packets'[h] = 0,
           \A p \in Packets : fate'[p] = "owned" <=> p \in Held(c)'
    PROVE  HeldBooks'
  <1>1. \A h \in Gens : h # c => Held(h)' = {}
    BY OthersHoldNothingNext
  <1>2. UNION {Held(h)' : h \in Gens} = Held(c)'
    BY <1>1
  <1>3. {p \in Packets : fate'[p] = "owned"} = Held(c)'
    OBVIOUS
  <1>4. \A h \in Gens : packets'[h] = Cardinality(Held(h)')
    BY <1>1, FS_EmptySet
  <1> QED
    BY <1>2, <1>3, <1>4 DEF HeldBooks

(* A step that moves no packet keeps them.                                 *)
LEMMA HeldFrame ==
    ASSUME HeldBooks, \A h \in Gens : Held(h)' = Held(h),
           UNCHANGED <<fate, packets>>
    PROVE  HeldBooks'
  <1>1. UNION {Held(h)' : h \in Gens} = UNION {Held(h) : h \in Gens}
    OBVIOUS
  <1>2. \A h \in Gens : packets'[h] = Cardinality(Held(h)')
    BY DEF HeldBooks
  <1> QED
    BY <1>1, <1>2 DEF HeldBooks

(* A sequence without duplicates.                                          *)
LEMMA RangeCount ==
    ASSUME NEW s \in Seq(Packets), \A i, j \in 1 .. Len(s) : s[i] = s[j] => i = j
    PROVE  IsFiniteSet(Range(s)) /\ Cardinality(Range(s)) = Len(s)
  <1> DEFINE S == 1 .. Len(s)  T == Range(s)
  <1>1. Len(s) \in Nat /\ DOMAIN s = S
    OBVIOUS
  <1>2. s \in [S -> T] /\ \A y \in T : \E i \in S : s[i] = y
    BY <1>1 DEF Range
  <1>3. IsInjective(s)
    BY <1>1 DEF IsInjective
  <1>4. IsFiniteSet(S) /\ Cardinality(S) = Len(s)
    BY <1>1, FS_Interval
  <1> HIDE DEF S, T
  <1>5. s \in Bijection(S, T)
    BY <1>2, <1>3 DEF Bijection, Injection, Surjection
  <1>6. IsFiniteSet(T) /\ Cardinality(T) = Cardinality(S)
    BY <1>4, <1>5, FS_Bijection DEF ExistsBijection
  <1> QED
    BY <1>4, <1>6 DEF T

(* The packets of a line are distinct.                                     *)
LEMMA Distinct ==
    ASSUME Books, FifoOrder, NEW g \in Gens, NEW w \in Workers
    PROVE  /\ \A i, j \in 1 .. Len(batch[<<g, w>>]) :
                 batch[<<g, w>>][i] = batch[<<g, w>>][j] => i = j
           /\ \A i \in 1 .. Len(batch[<<g, w>>]) :
                 \A j \in 1 .. Len(buffers[<<g, w>>]) :
                    batch[<<g, w>>][i] # buffers[<<g, w>>][j]
  <1> DEFINE a == out[w]  b == batch[<<g, w>>]  c == buffers[<<g, w>>]
             d == a \o b \o c
  <1>1. /\ a \in Seq(Packets) /\ b \in Seq(Packets) /\ c \in Seq(Packets)
    BY LinePieces
  <1>2. Line(g, w) = d
    BY DEF Line
  <1>3. InOrder(d, Numbered(w))
    BY <1>2, BooksLined DEF Lined
  <1> HIDE DEF a, b, c
  <1>4. /\ d \in Seq(Packets) /\ Len(d) = Len(a) + Len(b) + Len(c)
        /\ \A i \in 1 .. Len(b) : d[Len(a) + i] = b[i]
        /\ \A i \in 1 .. Len(c) : d[Len(a) + Len(b) + i] = c[i]
    BY <1>1, Three
  <1> HIDE DEF d
  <1>5. Len(a) \in Nat /\ Len(b) \in Nat /\ Len(c) \in Nat
    BY <1>1
  <1>6. \A m, n \in 1 .. Len(d) : m < n => d[m] # d[n]
    <2>1. ASSUME NEW m \in 1 .. Len(d), NEW n \in 1 .. Len(d), m < n
          PROVE  d[m] # d[n]
      <3>1. d[m] \in Packets /\ d[n] \in Packets
        BY <1>4
      <3>2. d[m][2] < d[n][2]
        BY <1>3, <1>4, <2>1 DEF InOrder
      <3>3. d[m][2] \in Int /\ d[n][2] \in Int
        BY <3>1, PacketNumber
      <3>4. d[m][2] # d[n][2]
        BY <3>2, <3>3
      <3> QED
        BY <3>4
    <2> QED
      BY <2>1
  <1>7. ASSUME NEW i \in 1 .. Len(b), NEW j \in 1 .. Len(b), i < j
        PROVE  b[i] # b[j]
    <2>1. /\ Len(a) + i \in 1 .. Len(d) /\ Len(a) + j \in 1 .. Len(d)
          /\ Len(a) + i < Len(a) + j
      BY <1>4, <1>5, <1>7
    <2> QED
      BY <1>4, <1>6, <2>1
  <1>8. ASSUME NEW i \in 1 .. Len(b), NEW j \in 1 .. Len(c) PROVE b[i] # c[j]
    <2>1. /\ Len(a) + i \in 1 .. Len(d) /\ Len(a) + Len(b) + j \in 1 .. Len(d)
          /\ Len(a) + i < Len(a) + Len(b) + j
      BY <1>4, <1>5
    <2> QED
      BY <1>4, <1>6, <2>1
  <1>9. \A i, j \in 1 .. Len(b) : b[i] = b[j] => i = j
    <2>1. \A i, j \in 1 .. Len(b) : i < j \/ j < i \/ i = j
      BY <1>5
    <2> QED
      BY <1>7, <2>1
  <1> QED
    BY <1>8, <1>9 DEF b, c

(* What a write takes from a lane.                                         *)
LEMMA Taken ==
    ASSUME NEW b \in Seq(Packets), NEW c \in Seq(Packets), NEW n \in 0 .. Len(b),
           \A i, j \in 1 .. Len(b) : b[i] = b[j] => i = j,
           \A i \in 1 .. Len(b) : \A j \in 1 .. Len(c) : b[i] # c[j]
    PROVE  LET R == Range(SubSeq(b, 1, n))
               S == Range(SubSeq(b, n + 1, Len(b)))
           IN  /\ Range(b) = R \cup S /\ R \cap S = {} /\ R \cap Range(c) = {}
               /\ IsFiniteSet(R) /\ Cardinality(R) = n
  <1> DEFINE x == SubSeq(b, 1, n)  y == SubSeq(b, n + 1, Len(b))
  <1>1. Range(b) = Range(x) \cup Range(y)
    BY CutRange
  <1>2. /\ x \in Seq(Packets) /\ Len(x) = n /\ \A i \in 1 .. n : x[i] = b[i]
        /\ y \in Seq(Packets) /\ Len(y) = Len(b) - n
        /\ \A i \in 1 .. Len(b) - n : y[i] = b[n + i]
    BY Cut
  <1> HIDE DEF x, y
  <1>3. Len(b) \in Nat /\ Len(c) \in Nat /\ n \in Nat /\ n <= Len(b)
    OBVIOUS
  <1>4. /\ \A p : p \in Range(x) <=> \E i \in 1 .. n : p = x[i]
        /\ \A p : p \in Range(y) <=> \E i \in 1 .. Len(b) - n : p = y[i]
        /\ \A p : p \in Range(c) <=> \E i \in 1 .. Len(c) : p = c[i]
    <2>1. /\ DOMAIN x = 1 .. n /\ DOMAIN y = 1 .. Len(b) - n
          /\ DOMAIN c = 1 .. Len(c)
      BY <1>2
    <2> QED
      BY <2>1, Zenon DEF Range
  <1>5. ASSUME NEW i \in 1 .. n, NEW j \in 1 .. Len(b) - n PROVE x[i] # y[j]
    <2>1. i \in 1 .. Len(b) /\ n + j \in 1 .. Len(b) /\ i # n + j
      BY <1>3
    <2>2. b[i] # b[n + j]
      BY <2>1
    <2> QED
      BY <1>2, <2>2
  <1>6. ASSUME NEW i \in 1 .. n, NEW j \in 1 .. Len(c) PROVE x[i] # c[j]
    <2>1. i \in 1 .. Len(b)
      BY <1>3
    <2> QED
      BY <1>2, <2>1
  <1>7. Range(x) \cap Range(y) = {}
    BY <1>4, <1>5
  <1>8. Range(x) \cap Range(c) = {}
    BY <1>4, <1>6
  <1>9. \A i, j \in 1 .. n : x[i] = x[j] => i = j
    <2>1. \A i \in 1 .. n : i \in 1 .. Len(b)
      BY <1>3
    <2> QED
      BY <1>2, <2>1
  <1>10. IsFiniteSet(Range(x)) /\ Cardinality(Range(x)) = n
    BY <1>2, <1>9, RangeCount
  <1> QED
    BY <1>1, <1>7, <1>8, <1>10 DEF x, y

(* What a close discards is what the current generation holds.             *)
LEMMA HeldInLanes ==
    ASSUME NEW c, c = current
    PROVE  UNION {Range(batch[l]) \cup Range(buffers[l]) : l \in CurrentLanes} = Held(c)
  <1> DEFINE U == UNION {Range(batch[l]) \cup Range(buffers[l]) : l \in CurrentLanes}
  <1>1. \A l : l \in CurrentLanes <=> \E v \in Workers : l = <<c, v>>
    BY DEF CurrentLanes
  <1>2. \A q : q \in U <=> \E l \in CurrentLanes : \/ q \in Range(batch[l])
                                               \/ q \in Range(buffers[l])
    OBVIOUS
  <1> HIDE DEF U
  <1>3. \A q : q \in U <=> q \in Held(c)
    BY <1>1, <1>2, HeldIs, ZenonT(30)
  <1>4. U = Held(c)
    BY <1>3
  <1> QED
    BY <1>4 DEF U

(* The packets.                                                            *)
LEMMA HeldKept ==
    ASSUME Books, Next, ~Over, FifoOrder,
           LanesGood, NativeGood, HeldBooks, Books'
    PROVE  HeldBooks'
  <1>0. /\ PlaceType /\ FlagType /\ MailType /\ GenType /\ LaneType /\ OwnerType
        /\ OwnerBooks /\ LanesGood /\ NativeGood /\ HeldBooks /\ FifoOrder
        /\ \A g \in Gens, v \in Workers : LineBooks(g, v)
    BY Facts1 DEF Books
  <1>1. ASSUME NEW w \in Workers, SelectGeneration(w) PROVE HeldBooks'
    <2>1. UNCHANGED <<batch, buffers, fate, packets>>
      BY <1>1 DEF SelectGeneration, laneVars, genVars
    <2>2. \A h \in Gens : Held(h)' = Held(h)
      BY <2>1 DEF Held
    <2> QED
      BY <1>0, <2>1, <2>2, HeldFrame
  <1>2. ASSUME NEW w \in Workers, EnterToSend(w) PROVE HeldBooks'
    <2>1. UNCHANGED <<batch, buffers, fate, packets>>
      BY <1>2 DEF EnterToSend, laneVars, genVars
    <2>2. \A h \in Gens : Held(h)' = Held(h)
      BY <2>1 DEF Held
    <2> QED
      BY <1>0, <2>1, <2>2, HeldFrame
  <1>3. ASSUME NEW w \in Workers, CheckLane(w) PROVE HeldBooks'
    <2>1. UNCHANGED <<batch, buffers, fate, packets>>
      BY <1>3 DEF CheckLane, laneVars, genVars
    <2>2. \A h \in Gens : Held(h)' = Held(h)
      BY <2>1 DEF Held
    <2> QED
      BY <1>0, <2>1, <2>2, HeldFrame
  <1>4. ASSUME NEW w \in Workers, Reserve(w) PROVE HeldBooks'
    <2>1. PICK g \in Gens : g = pc[w].g /\ <<g, w>> \in Lanes
      BY <1>4, InGens DEF Reserve
    <2>2. CASE packets[g] >= PacketLimit
      <3>1. UNCHANGED <<batch, buffers, fate, packets>>
        BY <1>4, <2>1, <2>2 DEF Reserve
      <3>2. \A h \in Gens : Held(h)' = Held(h)
        BY <3>1 DEF Held
      <3> QED
        BY <1>0, <3>1, <3>2, HeldFrame
    <2>3. CASE ~(packets[g] >= PacketLimit)
      <3>1. /\ packets' = [packets EXCEPT ![g] = @ + 1]
            /\ buffers' = [buffers EXCEPT ![<<g, w>>] = Append(@, Packet(w))]
            /\ fate' = [fate EXCEPT ![Packet(w)] = "owned"]
            /\ UNCHANGED <<batch, current>> /\ pc[w].at = "reserve"
        BY <1>4, <2>1, <2>3 DEF Reserve, writerVars
      <3>2. Packet(w) \in Packets /\ g = current /\ Packet(w)[1] = w
        BY <2>1, <3>1, PacketIs, InsideIsCurrent DEF Sending, Packet
      <3> DEFINE p == Packet(w)
      <3>3. p \notin Held(g)
        <4>1. ASSUME NEW v \in Workers, v # w
              PROVE  p \notin Range(batch[<<g, v>>]) /\ p \notin Range(buffers[<<g, v>>])
          <5>1. \A q \in Range(batch[<<g, v>>]) \cup Range(buffers[<<g, v>>]) : q[1] = v
            BY <1>0 DEF LanesGood, LaneBooks
          <5> QED
            BY <3>2, <4>1, <5>1
        <4>2. p \notin Range(batch[<<g, w>>]) /\ p \notin Range(buffers[<<g, w>>])
          <5> DEFINE a == out[w]  b == batch[<<g, w>>]  c == buffers[<<g, w>>]
                     d == a \o b \o c
          <5>1. a \in Seq(Packets) /\ b \in Seq(Packets) /\ c \in Seq(Packets)
            BY LinePieces
          <5>2. \A n \in DOMAIN d : d[n][2] <= Numbered(w)
            BY <1>0 DEF LineBooks, Line
          <5>3. Numbered(w) = sent[w] - 1 /\ sent[w] \in Nat /\ p[2] = sent[w]
            BY <1>0, <3>1 DEF Numbered, PlaceType, Packet
          <5> HIDE DEF a, b, c, p
          <5>4. /\ d \in Seq(Packets) /\ Len(d) = Len(a) + Len(b) + Len(c)
                /\ \A i \in 1 .. Len(b) : d[Len(a) + i] = b[i]
                /\ \A i \in 1 .. Len(c) : d[Len(a) + Len(b) + i] = c[i]
            BY <5>1, Three
          <5> HIDE DEF d
          <5>5. \A n \in 1 .. Len(d) : d[n] # p
            <6>1. ASSUME NEW n \in 1 .. Len(d) PROVE d[n] # p
              <7>1. d[n][2] <= sent[w] - 1
                BY <5>2, <5>3, <5>4
              <7>2. d[n] \in Packets
                BY <5>4
              <7>3. d[n][2] \in Int
                BY <7>2, PacketNumber
              <7>4. d[n][2] # p[2]
                BY <5>3, <7>1, <7>3
              <7> QED
                BY <7>4
            <6> QED
              BY <6>1
          <5>6. Len(a) \in Nat /\ Len(b) \in Nat /\ Len(c) \in Nat
            BY <5>1
          <5>7. ASSUME NEW i \in 1 .. Len(b) PROVE b[i] # p
            <6>1. Len(a) + i \in 1 .. Len(d)
              BY <5>4, <5>6
            <6> QED
              BY <5>4, <5>5, <6>1
          <5>8. ASSUME NEW i \in 1 .. Len(c) PROVE c[i] # p
            <6>1. Len(a) + Len(b) + i \in 1 .. Len(d)
              BY <5>4, <5>6
            <6> QED
              BY <5>4, <5>5, <6>1
          <5>9. DOMAIN b = 1 .. Len(b) /\ DOMAIN c = 1 .. Len(c)
            BY <5>1
          <5>10. p \notin Range(b) /\ p \notin Range(c)
            BY <5>7, <5>8, <5>9, Zenon DEF Range
          <5> QED
            BY <5>10 DEF b, c
        <4> QED
          BY <4>1, <4>2, HeldIs
      <3>4. Held(g)' = Held(g) \cup {p}
        <4>1. \A v \in Workers : v # w => buffers'[<<g, v>>] = buffers[<<g, v>>]
          BY <1>0, <2>1, <3>1 DEF LaneType, Lanes
        <4>2. buffers'[<<g, w>>] = Append(buffers[<<g, w>>], p)
          BY <1>0, <2>1, <3>1 DEF LaneType
        <4>3. Range(Append(buffers[<<g, w>>], p)) = Range(buffers[<<g, w>>]) \cup {p}
          <5>1. buffers[<<g, w>>] \in Seq(Packets)
            BY <1>0, <2>1 DEF LaneType
          <5> QED
            BY <3>2, <5>1, AppendRange
        <4> HIDE DEF p
        <4>4. \A q : q \in Held(g)' <=> q \in Held(g) \/ q = p
          BY <3>1, <4>1, <4>2, <4>3, HeldIs
        <4> QED
          BY <4>4
      <3>5. /\ packets[g] = Cardinality(Held(g))
            /\ \A q \in Packets : fate[q] = "owned" <=> q \in Held(g)
            /\ \A h \in Gens : h # g => packets[h] = 0
        BY <1>0, <3>2, HeldNow
      <3>6. /\ packets'[g] = packets[g] + 1
            /\ \A h \in Gens : h # g => packets'[h] = packets[h]
        BY <1>0, <3>1 DEF GenType
      <3>7. \A q \in Packets : fate'[q] = "owned" <=> q \in Held(g)'
        <4>1. \A q \in Packets : fate'[q] = IF q = p THEN "owned" ELSE fate[q]
          BY <1>0, <3>1 DEF LaneType
        <4> HIDE DEF p
        <4> QED
          BY <3>4, <3>5, <4>1
      <3>8. /\ Held(g) \subseteq Packets /\ IsFiniteSet(Held(g))
            /\ Cardinality(Held(g)) \in Nat
        BY HeldFinite
      <3>9. packets'[g] = Cardinality(Held(g)')
        <4> HIDE DEF p
        <4>1. Cardinality(Held(g) \cup {p}) = Cardinality(Held(g)) + 1
          BY <3>3, <3>8, FS_AddElement
        <4>2. Cardinality(Held(g)') = Cardinality(Held(g)) + 1
          BY <3>4, <4>1
        <4> QED
          BY <3>5, <3>6, <4>2
      <3>10. Held(g)' \subseteq Packets
        BY <3>2, <3>4, <3>8
      <3> HIDE DEF p
      <3>11. \A h \in Gens : h # g => packets'[h] = 0
        BY <3>5, <3>6
      <3>12. g = current'
        BY <3>1, <3>2
      <3> QED
        BY <3>7, <3>9, <3>10, <3>11, <3>12, HeldNext
    <2> QED
      BY <2>2, <2>3
  <1>5. ASSUME NEW w \in Workers, ScheduleSend(w) PROVE HeldBooks'
    <2>1. UNCHANGED <<batch, buffers, fate, packets>>
      BY <1>5 DEF ScheduleSend, Accept, Refuse, laneVars, genVars
    <2>2. \A h \in Gens : Held(h)' = Held(h)
      BY <2>1 DEF Held
    <2> QED
      BY <1>0, <2>1, <2>2, HeldFrame
  <1>6. ASSUME NEW w \in Workers, UndoSend(w) PROVE HeldBooks'
    <2>1. PICK g \in Gens : g = pc[w].g /\ <<g, w>> \in Lanes
      BY <1>6, InGens DEF UndoSend
    <2>2. /\ packets' = [packets EXCEPT ![g] = @ - 1]
          /\ buffers' = [buffers EXCEPT ![<<g, w>>] = Front(@)]
          /\ fate' = [fate EXCEPT ![Packet(w)] = "user"]
          /\ UNCHANGED <<batch, current>> /\ pc[w].at = "undo"
      BY <1>6, <2>1 DEF UndoSend, writerVars
    <2>3. Packet(w) \in Packets /\ g = current /\ Packet(w)[1] = w
      BY <2>1, <2>2, PacketIs, InsideIsCurrent DEF Sending, Packet
    <2>4. batch[<<g, w>>] = << >> /\ buffers[<<g, w>>] = <<Packet(w)>>
      BY <1>0, <2>1, <2>2 DEF LanesGood, LaneBooks, Stands
    <2> DEFINE p == Packet(w)
    <2>5. buffers'[<<g, w>>] = << >> /\ batch'[<<g, w>>] = << >>
      <3>1. buffers'[<<g, w>>] = Front(buffers[<<g, w>>])
        BY <1>0, <2>1, <2>2 DEF LaneType
      <3> QED
        BY <2>2, <2>4, <3>1, FrontOfOne
    <2>6. \A v \in Workers : v # w =>
             /\ buffers'[<<g, v>>] = buffers[<<g, v>>]
             /\ p \notin Range(batch[<<g, v>>]) /\ p \notin Range(buffers[<<g, v>>])
      <3>1. \A v \in Workers : v # w => buffers'[<<g, v>>] = buffers[<<g, v>>]
        BY <1>0, <2>1, <2>2 DEF LaneType, Lanes
      <3>2. ASSUME NEW v \in Workers, v # w
            PROVE  p \notin Range(batch[<<g, v>>]) /\ p \notin Range(buffers[<<g, v>>])
        <4>1. \A q \in Range(batch[<<g, v>>]) \cup Range(buffers[<<g, v>>]) : q[1] = v
          BY <1>0 DEF LanesGood, LaneBooks
        <4> QED
          BY <2>3, <3>2, <4>1
      <3> QED
        BY <3>1, <3>2
    <2>7. Range(<< >>) = {} /\ Range(<<p>>) = {p}
      <3>1. DOMAIN <<p>> = {1} /\ <<p>>[1] = p
        OBVIOUS
      <3> QED
        BY <3>1, EmptyRange DEF Range
    <2>8. Held(g)' = Held(g) \ {p} /\ p \in Held(g)
      <3> HIDE DEF p
      <3>1. \A q : q \in Held(g) <=>
               q = p \/ \E v \in Workers : v # w /\ (\/ q \in Range(batch[<<g, v>>])
                                                     \/ q \in Range(buffers[<<g, v>>]))
        BY <2>4, <2>7, HeldIs DEF p
      <3>2. \A q : q \in Held(g)' <=>
               \E v \in Workers : v # w /\ (\/ q \in Range(batch[<<g, v>>])
                                            \/ q \in Range(buffers[<<g, v>>]))
        BY <2>2, <2>5, <2>6, <2>7, HeldIs
      <3> QED
        BY <2>6, <3>1, <3>2
    <2>9. /\ packets[g] = Cardinality(Held(g))
          /\ \A q \in Packets : fate[q] = "owned" <=> q \in Held(g)
          /\ \A h \in Gens : h # g => packets[h] = 0
      BY <1>0, <2>3, HeldNow
    <2>10. /\ packets'[g] = packets[g] - 1
           /\ \A h \in Gens : h # g => packets'[h] = packets[h]
      BY <1>0, <2>2 DEF GenType
    <2>11. \A q \in Packets : fate'[q] = "owned" <=> q \in Held(g)'
      <3>1. \A q \in Packets : fate'[q] = IF q = p THEN "user" ELSE fate[q]
        BY <1>0, <2>2 DEF LaneType
      <3> HIDE DEF p
      <3> QED
        BY <2>8, <2>9, <3>1
    <2>12. Held(g) \subseteq Packets /\ IsFiniteSet(Held(g))
      BY HeldFinite
    <2>13. packets'[g] = Cardinality(Held(g)')
      BY <2>8, <2>9, <2>10, <2>12, FS_RemoveElement
    <2>14. Held(g)' \subseteq Packets
      BY <2>8, <2>12
    <2> HIDE DEF p
    <2>15. \A h \in Gens : h # g => packets'[h] = 0
      BY <2>9, <2>10
    <2>16. g = current'
      BY <2>2, <2>3
    <2> QED
      BY <2>11, <2>13, <2>14, <2>15, <2>16, HeldNext
  <1>7. ASSUME NEW w \in Workers, Leave(w) PROVE HeldBooks'
    <2>1. UNCHANGED <<batch, buffers, fate, packets>>
      BY <1>7 DEF Leave, laneVars, genVars
    <2>2. \A h \in Gens : Held(h)' = Held(h)
      BY <2>1 DEF Held
    <2> QED
      BY <1>0, <2>1, <2>2, HeldFrame
  <1>8. ASSUME NEW w \in Workers, Expire(w) PROVE HeldBooks'
    <2>1. UNCHANGED <<batch, buffers, fate, packets>>
      BY <1>8 DEF Expire, laneVars, genVars
    <2>2. \A h \in Gens : Held(h)' = Held(h)
      BY <2>1 DEF Held
    <2> QED
      BY <1>0, <2>1, <2>2, HeldFrame
  <1>9. ASSUME NEW w \in Workers, BeginDrain(w) PROVE HeldBooks'
    <2>1. UNCHANGED <<batch, buffers, fate, packets>>
      BY <1>9 DEF BeginDrain, laneVars, genVars
    <2>2. \A h \in Gens : Held(h)' = Held(h)
      BY <2>1 DEF Held
    <2> QED
      BY <1>0, <2>1, <2>2, HeldFrame
  <1>10. ASSUME NEW w \in Workers, PrepareDrain(w) PROVE HeldBooks'
    <2>1. PICK g \in Gens : g = pc[w].g /\ <<g, w>> \in Lanes
      BY <1>10, InGens DEF PrepareDrain
    <2>2. /\ UNCHANGED <<fate, packets>> /\ pc[w].at = "drain"
          /\ UNCHANGED <<batch, buffers>> \/ FillBatch(<<g, w>>)
      BY <1>10, <2>1 DEF PrepareDrain, genVars
    <2>3. CASE UNCHANGED <<batch, buffers>>
      <3>1. \A h \in Gens : Held(h)' = Held(h)
        BY <2>3 DEF Held
      <3> QED
        BY <1>0, <2>2, <3>1, HeldFrame
    <2>4. CASE FillBatch(<<g, w>>)
      <3>1. HasDriver(g, w) /\ g = current
        BY <2>1, <2>2, InsideIsCurrent DEF HasDriver, Stands
      <3>2. batch[<<g, w>>] # << >> \/ buffers[<<g, w>>] # << >>
        BY <1>0, <3>1 DEF NativeGood, NativeBooks, Holds
      <3>3. Range(batch'[<<g, w>>]) \cup Range(buffers'[<<g, w>>])
               = Range(batch[<<g, w>>]) \cup Range(buffers[<<g, w>>])
        BY <1>0, <2>1, <2>4, <3>2, BatchFilled
      <3>4. \A k \in Lanes : k # <<g, w>> =>
               batch'[k] = batch[k] /\ buffers'[k] = buffers[k]
        BY <1>0, <2>1, <2>4 DEF FillBatch, LaneType
      <3>5. ASSUME NEW h \in Gens, NEW v \in Workers
            PROVE  Range(batch'[<<h, v>>]) \cup Range(buffers'[<<h, v>>])
                     = Range(batch[<<h, v>>]) \cup Range(buffers[<<h, v>>])
        <4>1. <<h, v>> \in Lanes
          BY DEF Lanes
        <4> QED
          BY <3>3, <3>4, <4>1
      <3>6. ASSUME NEW h \in Gens PROVE Held(h)' = Held(h)
        <4>1. \A q : \A v \in Workers :
                 (q \in Range(batch'[<<h, v>>]) \/ q \in Range(buffers'[<<h, v>>]))
                 <=> (q \in Range(batch[<<h, v>>]) \/ q \in Range(buffers[<<h, v>>]))
          BY <3>5
        <4>2. \A q : q \in Held(h)' <=> q \in Held(h)
          BY <4>1, HeldIs
        <4> QED
          BY <4>2
      <3> QED
        BY <1>0, <2>2, <3>6, HeldFrame
    <2> QED
      BY <2>2, <2>3, <2>4
  <1>11. ASSUME NEW w \in Workers, NEW n \in 0 .. BatchMax,
                NEW status \in {"continue", "blocked", "failed"},
                Write(w, n, status)
         PROVE  HeldBooks'
    <2>1. PICK g \in Gens : g = pc[w].g /\ <<g, w>> \in Lanes
      BY <1>11, InGens DEF Write
    <2> DEFINE b == batch[<<g, w>>]  c == buffers[<<g, w>>]
               R == Range(SubSeq(b, 1, n))
    <2>2. /\ packets' = [packets EXCEPT ![g] = @ - n]
          /\ batch' = [batch EXCEPT ![<<g, w>>] = SubSeq(@, n + 1, Len(@))]
          /\ fate' = [p \in Packets |-> IF p \in R THEN "written" ELSE fate[p]]
          /\ UNCHANGED <<buffers, current>> /\ pc[w].at = "write" /\ n <= Len(b)
      BY <1>11, <2>1 DEF Write, writerVars
    <2>3. g = current
      BY <2>1, <2>2, InsideIsCurrent
    <2>4. b \in Seq(Packets) /\ c \in Seq(Packets)
      BY <1>0, <2>1 DEF LaneType
    <2>5. n \in 0 .. Len(b)
      BY <2>2, <2>4, RawWriterAssumption
    <2>6. /\ \A i, j \in 1 .. Len(b) : b[i] = b[j] => i = j
          /\ \A i \in 1 .. Len(b) : \A j \in 1 .. Len(c) : b[i] # c[j]
      BY <1>0, Distinct
    <2>7. batch'[<<g, w>>] = SubSeq(b, n + 1, Len(b))
      BY <1>0, <2>1, <2>2 DEF LaneType
    <2> DEFINE S == Range(SubSeq(b, n + 1, Len(b)))
    <2> HIDE DEF b, c
    <2>8. /\ Range(b) = R \cup S /\ R \cap S = {} /\ R \cap Range(c) = {}
          /\ IsFiniteSet(R) /\ Cardinality(R) = n
      BY <2>4, <2>5, <2>6, Taken
    <2>9. /\ \A v \in Workers : v # w => batch'[<<g, v>>] = batch[<<g, v>>]
          /\ Range(batch'[<<g, w>>]) = S
      BY <1>0, <2>1, <2>2, <2>7 DEF LaneType, Lanes
    <2> HIDE DEF R, S
    <2>10. ASSUME NEW v \in Workers, v # w, NEW q \in R
           PROVE  q \notin Range(batch[<<g, v>>]) /\ q \notin Range(buffers[<<g, v>>])
      <3>1. q[1] = w
        BY <1>0, <2>8 DEF LanesGood, LaneBooks, b
      <3>2. \A r \in Range(batch[<<g, v>>]) \cup Range(buffers[<<g, v>>]) : r[1] = v
        BY <1>0 DEF LanesGood, LaneBooks
      <3> QED
        BY <2>10, <3>1, <3>2
    <2>11. Held(g)' = Held(g) \ R /\ R \subseteq Held(g)
      <3>1. ASSUME NEW q
            PROVE  q \in Held(g) <=>
                     \/ q \in R \/ q \in S \/ q \in Range(c)
                     \/ \E v \in Workers : v # w /\ (\/ q \in Range(batch[<<g, v>>])
                                                     \/ q \in Range(buffers[<<g, v>>]))
        BY <2>8, HeldIs DEF b, c
      <3>2. ASSUME NEW q
            PROVE  q \in Held(g)' <=>
                     \/ q \in S \/ q \in Range(c)
                     \/ \E v \in Workers : v # w /\ (\/ q \in Range(batch[<<g, v>>])
                                                     \/ q \in Range(buffers[<<g, v>>]))
        BY <2>2, <2>9, HeldIs DEF c
      <3> QED
        BY <2>8, <2>10, <3>1, <3>2
    <2>12. /\ packets[g] = Cardinality(Held(g))
           /\ \A q \in Packets : fate[q] = "owned" <=> q \in Held(g)
           /\ \A h \in Gens : h # g => packets[h] = 0
      BY <1>0, <2>3, HeldNow
    <2>13. /\ packets'[g] = packets[g] - n
           /\ \A h \in Gens : h # g => packets'[h] = packets[h]
      BY <1>0, <2>2 DEF GenType
    <2>14. \A q \in Packets : fate'[q] = "owned" <=> q \in Held(g)'
      BY <2>2, <2>11, <2>12
    <2>15. Held(g) \subseteq Packets /\ IsFiniteSet(Held(g))
      BY HeldFinite
    <2>16. packets'[g] = Cardinality(Held(g)')
      <3>1. Held(g) \cap R = R
        BY <2>11
      <3> QED
        <4>1. Cardinality(Held(g) \ R) = Cardinality(Held(g)) - Cardinality(R)
          BY <2>15, <3>1, FS_Difference
        <4>2. Cardinality(Held(g)') = Cardinality(Held(g)) - n
          BY <2>8, <2>11, <4>1
        <4> QED
          BY <2>12, <2>13, <4>2
    <2>17. Held(g)' \subseteq Packets
      BY <2>11, <2>15
    <2>18. \A h \in Gens : h # g => packets'[h] = 0
      BY <2>12, <2>13
    <2>19. g = current'
      BY <2>2, <2>3
    <2> QED
      BY <2>14, <2>16, <2>17, <2>18, <2>19, HeldNext
  <1>12. ASSUME NEW w \in Workers, ScheduleDrain(w) PROVE HeldBooks'
    <2>1. UNCHANGED <<batch, buffers, fate, packets>>
      BY <1>12 DEF ScheduleDrain, Accept, Refuse, laneVars, genVars
    <2>2. \A h \in Gens : Held(h)' = Held(h)
      BY <2>1 DEF Held
    <2> QED
      BY <1>0, <2>1, <2>2, HeldFrame
  <1>13. ASSUME NEW w \in Workers, FailDrain(w) PROVE HeldBooks'
    <2>1. UNCHANGED <<batch, buffers, fate, packets>>
      BY <1>13 DEF FailDrain, laneVars, genVars
    <2>2. \A h \in Gens : Held(h)' = Held(h)
      BY <2>1 DEF Held
    <2> QED
      BY <1>0, <2>1, <2>2, HeldFrame
  <1>14. ASSUME NEW w \in Workers, EndDrain(w) PROVE HeldBooks'
    <2>1. UNCHANGED <<batch, buffers, fate, packets>>
      BY <1>14 DEF EndDrain, Unref, laneVars, genVars
    <2>2. \A h \in Gens : Held(h)' = Held(h)
      BY <2>1 DEF Held
    <2> QED
      BY <1>0, <2>1, <2>2, HeldFrame
  <1>15. ASSUME NEW w \in Workers, CloseMailbox(w) PROVE HeldBooks'
    <2>1. UNCHANGED <<batch, buffers, fate, packets>>
      BY <1>15 DEF CloseMailbox, laneVars, genVars
    <2>2. \A h \in Gens : Held(h)' = Held(h)
      BY <2>1 DEF Held
    <2> QED
      BY <1>0, <2>1, <2>2, HeldFrame
  <1>16. ASSUME NEW w \in Workers, CancelToken(w) PROVE HeldBooks'
    <2>1. UNCHANGED <<batch, buffers, fate, packets>>
      BY <1>16 DEF CancelToken, Unref, laneVars, genVars
    <2>2. \A h \in Gens : Held(h)' = Held(h)
      BY <2>1 DEF Held
    <2> QED
      BY <1>0, <2>1, <2>2, HeldFrame
  <1>17. ASSUME NEW l \in Lanes, EnterToNotify(l) PROVE HeldBooks'
    <2>1. UNCHANGED <<batch, buffers, fate, packets>>
      BY <1>17 DEF EnterToNotify, laneVars, genVars
    <2>2. \A h \in Gens : Held(h)' = Held(h)
      BY <2>1 DEF Held
    <2> QED
      BY <1>0, <2>1, <2>2, HeldFrame
  <1>18. ASSUME NEW l \in Lanes, PostNotification(l) PROVE HeldBooks'
    <2>1. UNCHANGED <<batch, buffers, fate, packets>>
      BY <1>18 DEF PostNotification, Accept, Refuse, laneVars, genVars
    <2>2. \A h \in Gens : Held(h)' = Held(h)
      BY <2>1 DEF Held
    <2> QED
      BY <1>0, <2>1, <2>2, HeldFrame
  <1>19. ASSUME NEW l \in Lanes, LeaveNotify(l) PROVE HeldBooks'
    <2>1. UNCHANGED <<batch, buffers, fate, packets>>
      BY <1>19 DEF LeaveNotify, laneVars, genVars
    <2>2. \A h \in Gens : Held(h)' = Held(h)
      BY <2>1 DEF Held
    <2> QED
      BY <1>0, <2>1, <2>2, HeldFrame
  <1>20. ASSUME Open PROVE HeldBooks'
    <2>1. UNCHANGED <<batch, buffers, fate, packets>>
      BY <1>20 DEF Open, laneVars, genVars
    <2>2. \A h \in Gens : Held(h)' = Held(h)
      BY <2>1 DEF Held
    <2> QED
      BY <1>0, <2>1, <2>2, HeldFrame
  <1>21. ASSUME Unpublish PROVE HeldBooks'
    <2>1. UNCHANGED <<batch, buffers, fate, packets>>
      BY <1>21 DEF Unpublish, laneVars, genVars
    <2>2. \A h \in Gens : Held(h)' = Held(h)
      BY <2>1 DEF Held
    <2> QED
      BY <1>0, <2>1, <2>2, HeldFrame
  <1>22. ASSUME CloseGate PROVE HeldBooks'
    <2>1. UNCHANGED <<batch, buffers, fate, packets>>
      BY <1>22 DEF CloseGate, laneVars, genVars
    <2>2. \A h \in Gens : Held(h)' = Held(h)
      BY <2>1 DEF Held
    <2> QED
      BY <1>0, <2>1, <2>2, HeldFrame
  <1>23. ASSUME StopNative PROVE HeldBooks'
    <2>1. UNCHANGED <<batch, buffers, fate, packets>>
      BY <1>23 DEF StopNative, laneVars, genVars
    <2>2. \A h \in Gens : Held(h)' = Held(h)
      BY <2>1 DEF Held
    <2> QED
      BY <1>0, <2>1, <2>2, HeldFrame
  <1>24. ASSUME Discard PROVE HeldBooks'
    <2>1. PICK c \in Gens : c = current
      BY <1>0, <1>24 DEF Discard, OwnerBooks, OwnerType, Gens
    <2>2. UNION {Range(batch[l]) \cup Range(buffers[l]) : l \in CurrentLanes} = Held(c)
      BY <2>1, HeldInLanes
    <2>3. /\ fate' = [p \in Packets |-> IF p \in Held(c) THEN "dropped" ELSE fate[p]]
          /\ packets' = [packets EXCEPT ![c] = @ - Cardinality(Held(c))]
          /\ current' = 0
      BY <1>24, <2>1, <2>2 DEF Discard
    <2>4. /\ packets[c] = Cardinality(Held(c))
          /\ \A q \in Packets : fate[q] = "owned" <=> q \in Held(c)
          /\ \A h \in Gens : h # c => packets[h] = 0
      BY <1>0, <2>1, HeldNow
    <2>5. \A h \in Gens : packets'[h] = 0
      <3>1. packets'[c] = packets[c] - Cardinality(Held(c)) /\ packets[c] \in Int
        BY <1>0, <2>3 DEF GenType
      <3>2. packets'[c] = 0
        BY <2>4, <3>1
      <3>3. \A h \in Gens : h # c => packets'[h] = packets[h]
        BY <1>0, <2>3 DEF GenType
      <3> QED
        BY <2>4, <3>2, <3>3
    <2>6. \A h \in Gens : Held(h)' = {}
      <3>1. \A h \in Gens : h # current'
        BY <2>3 DEF Gens
      <3> QED
        BY <3>1, OthersHoldNothingNext
    <2>7. \A p \in Packets : fate'[p] # "owned"
      BY <2>3, <2>4
    <2>8. UNION {Held(h)' : h \in Gens} = {}
      BY <2>6
    <2>9. {p \in Packets : fate'[p] = "owned"} = {}
      BY <2>7
    <2>10. \A h \in Gens : packets'[h] = Cardinality(Held(h)')
      BY <2>5, <2>6, FS_EmptySet
    <2> QED
      BY <2>8, <2>9, <2>10 DEF HeldBooks
  <1>25. ASSUME BeginDestroy PROVE HeldBooks'
    <2>1. UNCHANGED <<batch, buffers, fate, packets>>
      BY <1>25 DEF BeginDestroy, laneVars, genVars
    <2>2. \A h \in Gens : Held(h)' = Held(h)
      BY <2>1 DEF Held
    <2> QED
      BY <1>0, <2>1, <2>2, HeldFrame
  <1>26. ASSUME NEW g \in Gens, DestroyOne(g) PROVE HeldBooks'
    <2>1. UNCHANGED <<batch, buffers, fate, packets>>
      BY <1>26 DEF DestroyOne, Unref, laneVars, genVars
    <2>2. \A h \in Gens : Held(h)' = Held(h)
      BY <2>1 DEF Held
    <2> QED
      BY <1>0, <2>1, <2>2, HeldFrame
  <1> QED
    BY <1>1, <1>2, <1>3, <1>4, <1>5, <1>6, <1>7, <1>8, <1>9, <1>10, <1>11,
       <1>12, <1>13, <1>14, <1>15, <1>16, <1>17, <1>18, <1>19, <1>20, <1>21,
       <1>22, <1>23, <1>24, <1>25, <1>26
       DEF Next, SendStep, DrainStep, NotifyStep, CloseStep, DestroyStep

-----------------------------------------------------------------------------
(* Whoever has a reference finds the generation alive.                     *)
LEMMA Alive ==
    ASSUME Books, Stored, NEW g \in Gens,
           \/ g = current \/ g \in retired
           \/ \E v \in Workers : HasToken(g, v) \/ v \in Draining(g)
    PROVE  ~Gone(g) /\ references[g] > 0
  <1>1. /\ Holders(g) \in SUBSET Workers /\ Draining(g) \in SUBSET Workers
        /\ Cardinality(Holders(g)) \in Nat /\ Cardinality(Draining(g)) \in Nat
        /\ Owned(g) \in {0, 1}
    BY UserTypes
  <1>2. references[g] = Users(g) /\ (mem[g] = "live" <=> references[g] > 0)
    BY DEF Stored, RefsGood, LiveGood
  <1>3. \A S \in SUBSET Workers : \A v \in S : Cardinality(S) > 0
    <2>1. ASSUME NEW S \in SUBSET Workers, NEW v \in S PROVE Cardinality(S) > 0
      <3>1. IsFiniteSet(S)
        BY FS_Subset, RawWriterAssumption
      <3>2. Cardinality(S) # 0 /\ Cardinality(S) \in Nat
        BY <3>1, FS_EmptySet, FS_CardinalityType
      <3> QED
        BY <3>2
    <2> QED
      BY <2>1
  <1>4. CASE g = current \/ g \in retired
    <2>1. Owned(g) = 1
      BY <1>4 DEF Owned
    <2>2. references[g] > 0
      BY <1>1, <1>2, <2>1 DEF Users
    <2> QED
      BY <1>2, <2>2 DEF Gone
  <1>5. ASSUME NEW v \in Workers, HasToken(g, v) \/ v \in Draining(g)
        PROVE  ~Gone(g) /\ references[g] > 0
    <2>1. v \in Holders(g) \/ v \in Draining(g)
      BY <1>5 DEF Holders
    <2>2. Cardinality(Holders(g)) > 0 \/ Cardinality(Draining(g)) > 0
      BY <1>1, <1>3, <2>1
    <2>3. references[g] > 0
      BY <1>1, <1>2, <2>2 DEF Users
    <2> QED
      BY <1>2, <2>3 DEF Gone
  <1> QED
    BY <1>4, <1>5

(* The last reference is not the owner's, unless the device is going.      *)
LEMMA UnrefSafe ==
    ASSUME Books, Stored, HeldBooks, ~fault, NEW g \in Gens, Unref(g),
           \/ g # current /\ g \in retired
           \/ \E v \in Workers : HasToken(g, v) \/ v \in Draining(g)
    PROVE  ~fault'
  <1>1. ~Gone(g) /\ references[g] > 0
    BY Alive
  <1>2. ASSUME references[g] = 1 PROVE g # current
    <2>1. /\ Holders(g) \in SUBSET Workers /\ Draining(g) \in SUBSET Workers
          /\ Cardinality(Holders(g)) \in Nat /\ Cardinality(Draining(g)) \in Nat
      BY UserTypes
    <2>2. references[g] = Users(g)
      BY DEF Stored, RefsGood
    <2>3. CASE g # current /\ g \in retired
      BY <2>3
    <2>4. ASSUME NEW v \in Workers, HasToken(g, v) \/ v \in Draining(g)
          PROVE  g # current
      <3>1. v \in Holders(g) \/ v \in Draining(g)
        BY <2>4 DEF Holders
      <3>2. IsFiniteSet(Holders(g)) /\ IsFiniteSet(Draining(g))
        BY <2>1, FS_Subset, RawWriterAssumption
      <3>3. Cardinality(Holders(g)) # 0 \/ Cardinality(Draining(g)) # 0
        BY <3>1, <3>2, FS_EmptySet
      <3>4. Owned(g) # 1
        BY <1>2, <2>1, <2>2, <3>3 DEF Users
      <3> QED
        BY <3>4 DEF Owned
    <2> QED
      BY <2>3, <2>4
  <1>3. references[g] = 1 => ~open[g] /\ inside[g] = 0 /\ packets[g] = 0
    BY <1>2, Facts1, HeldNow DEF GateBooks
  <1>4. references[g] # 0
    BY <1>1
  <1> QED
    BY <1>1, <1>3, <1>4 DEF Unref

(* No assertion fails and nothing freed is used.                           *)
LEMMA FaultsKept ==
    ASSUME Books, Next, ~Over, FifoOrder,
           LanesGood, NativeGood, StoresGood, SendersGood, HeldBooks, ~fault
    PROVE  ~fault'
  <1>0. /\ PlaceType /\ FlagType /\ MailType /\ GenType /\ LaneType /\ OwnerType
        /\ OwnerBooks /\ LanesGood /\ NativeGood /\ HeldBooks /\ FifoOrder
        /\ Stored /\ SendersGood /\ ~fault
        /\ \A g \in Gens, v \in Workers : DriverBooks(g, v)
        /\ \A g \in Gens : GateBooks(g)
    BY Facts1, StoreParts DEF Stored
  <1>1. ASSUME NEW w \in Workers, SelectGeneration(w) PROVE ~fault'
    BY <1>0, <1>1 DEF SelectGeneration
  <1>2. ASSUME NEW w \in Workers, EnterToSend(w) PROVE ~fault'
    <2>1. PICK g \in Gens : g = pc[w].g /\ <<g, w>> \in Lanes
      BY <1>2, InGens DEF EnterToSend
    <2>2. ~Gone(g)
      <3>1. g = current \/ g \in retired
        BY <1>0, <1>2, <2>1 DEF EnterToSend, SendersGood, SenderBooks, Sending
      <3> QED
        BY <1>0, <3>1, Alive
    <2> QED
      BY <1>0, <1>2, <2>1, <2>2 DEF EnterToSend
  <1>3. ASSUME NEW w \in Workers, CheckLane(w) PROVE ~fault'
    BY <1>0, <1>3 DEF CheckLane
  <1>4. ASSUME NEW w \in Workers, Reserve(w) PROVE ~fault'
    BY <1>0, <1>4 DEF Reserve
  <1>5. ASSUME NEW w \in Workers, ScheduleSend(w) PROVE ~fault'
    BY <1>0, <1>5 DEF ScheduleSend, Accept, Refuse
  <1>6. ASSUME NEW w \in Workers, UndoSend(w) PROVE ~fault'
    <2>1. PICK g \in Gens : g = pc[w].g /\ <<g, w>> \in Lanes
      BY <1>6, InGens DEF UndoSend
    <2>2. pc[w].at = "undo"
      BY <1>6 DEF UndoSend
    <2>3. batch[<<g, w>>] = << >> /\ buffers[<<g, w>>] = <<Packet(w)>>
      BY <1>0, <2>1, <2>2 DEF LanesGood, LaneBooks, Stands
    <2>4. g = current
      BY <2>1, <2>2, InsideIsCurrent
    <2>5. packets[g] # 0
      <3>1. Packet(w) \in Held(g)
        <4>1. DOMAIN <<Packet(w)>> = {1} /\ <<Packet(w)>>[1] = Packet(w)
          OBVIOUS
        <4>2. Packet(w) \in Range(<<Packet(w)>>)
          BY <4>1 DEF Range
        <4> QED
          BY <2>3, <4>2, HeldIs
      <3>2. IsFiniteSet(Held(g)) /\ packets[g] = Cardinality(Held(g))
        BY <1>0, <2>4, HeldFinite, HeldNow
      <3> QED
        BY <3>1, <3>2, FS_EmptySet
    <2>6. Len(buffers[<<g, w>>]) = 1
      BY <2>3
    <2>7. fault' = (fault \/ batch[<<g, w>>] # << >>
                    \/ Len(buffers[<<g, w>>]) # 1 \/ packets[g] = 0)
      BY <1>6, <2>1 DEF UndoSend
    <2> QED
      BY <1>0, <2>3, <2>5, <2>6, <2>7
  <1>7. ASSUME NEW w \in Workers, Leave(w) PROVE ~fault'
    <2>1. PICK g \in Gens : g = pc[w].g /\ <<g, w>> \in Lanes
      BY <1>7, InGens DEF Leave
    <2>2. ~Gone(g)
      <3>1. g = current
        BY <1>7, <2>1, InsideIsCurrent DEF Leave
      <3> QED
        BY <1>0, <3>1, Alive
    <2> QED
      BY <1>0, <1>7, <2>1, <2>2 DEF Leave
  <1>8. ASSUME NEW w \in Workers, Expire(w) PROVE ~fault'
    BY <1>0, <1>8 DEF Expire
  <1>9. ASSUME NEW w \in Workers, BeginDrain(w) PROVE ~fault'
    <2>1. PICK g \in Gens :
             g = Head(mailbox[w]) /\ mailbox[w] # << >> /\ <<g, w>> \in Lanes
      BY <1>0, <1>9 DEF BeginDrain, MailType, Lanes
    <2>2. HasToken(g, w)
      <3>1. mailbox' = [mailbox EXCEPT ![w] = Tail(@)] /\ timed' = timed
        BY <1>9 DEF BeginDrain
      <3> QED
        BY <2>1, <3>1, QueueLoses DEF TokenTaken
    <2>3. ~Gone(g)
      BY <1>0, <2>2, Alive
    <2> QED
      BY <1>0, <1>9, <2>1, <2>3 DEF BeginDrain
  <1>10. ASSUME NEW w \in Workers, PrepareDrain(w) PROVE ~fault'
    BY <1>0, <1>10 DEF PrepareDrain, FillBatch
  <1>11. ASSUME NEW w \in Workers, NEW n \in 0 .. BatchMax,
                NEW status \in {"continue", "blocked", "failed"},
                Write(w, n, status)
         PROVE  ~fault'
    <2>1. PICK g \in Gens : g = pc[w].g /\ <<g, w>> \in Lanes
      BY <1>11, InGens DEF Write
    <2>2. pc[w].at = "write" /\ n <= Len(batch[<<g, w>>])
      BY <1>11, <2>1 DEF Write
    <2>3. g = current
      BY <2>1, <2>2, InsideIsCurrent
    <2>4. ~Gone(g)
      BY <1>0, <2>3, Alive
    <2>5. notifier[<<g, w>>] # "armed"
      <3>1. ~scheduled[<<g, w>>]
        BY <1>0, <2>1, <2>2 DEF DriverBooks
      <3> QED
        BY <3>1, Undriven DEF Notifying
    <2>6. ~(packets[g] < n)
      <3> DEFINE b == batch[<<g, w>>]  c == buffers[<<g, w>>]
                 R == Range(SubSeq(b, 1, n))
      <3>1. b \in Seq(Packets) /\ c \in Seq(Packets)
        BY <1>0, <2>1 DEF LaneType
      <3>2. n \in 0 .. Len(b)
        BY <2>2, <3>1, RawWriterAssumption
      <3>3. /\ \A i, j \in 1 .. Len(b) : b[i] = b[j] => i = j
            /\ \A i \in 1 .. Len(b) : \A j \in 1 .. Len(c) : b[i] # c[j]
        BY <1>0, Distinct
      <3> HIDE DEF b, c
      <3>4. R \subseteq Range(b) /\ Cardinality(R) = n
        BY <3>1, <3>2, <3>3, Taken
      <3> HIDE DEF R
      <3>5. R \subseteq Held(g)
        BY <3>4, HeldIs DEF b
      <3>6. IsFiniteSet(Held(g)) /\ packets[g] = Cardinality(Held(g))
              /\ Cardinality(Held(g)) \in Nat
        BY <1>0, <2>3, HeldFinite, HeldNow
      <3>7. Cardinality(R) <= Cardinality(Held(g))
        BY <3>5, <3>6, FS_Subset
      <3> QED
        BY <3>2, <3>4, <3>6, <3>7
    <2>7. fault' = (fault \/ Gone(g) \/ current # g \/ packets[g] < n
                    \/ notifier[<<g, w>>] = "armed")
      BY <1>11, <2>1 DEF Write
    <2> QED
      BY <1>0, <2>3, <2>4, <2>5, <2>6, <2>7
  <1>12. ASSUME NEW w \in Workers, ScheduleDrain(w) PROVE ~fault'
    BY <1>0, <1>12 DEF ScheduleDrain, Accept, Refuse
  <1>13. ASSUME NEW w \in Workers, FailDrain(w) PROVE ~fault'
    <2>1. PICK g \in Gens : g = pc[w].g /\ <<g, w>> \in Lanes
      BY <1>13, InGens DEF FailDrain
    <2>2. ~Gone(g)
      <3>1. g = current
        BY <1>13, <2>1, InsideIsCurrent DEF FailDrain
      <3> QED
        BY <1>0, <3>1, Alive
    <2> QED
      BY <1>0, <1>13, <2>1, <2>2 DEF FailDrain
  <1>14. ASSUME NEW w \in Workers, EndDrain(w) PROVE ~fault'
    <2>1. PICK g \in Gens : g = pc[w].g /\ <<g, w>> \in Lanes
      BY <1>14, InGens DEF EndDrain
    <2>2. w \in Draining(g) /\ Unref(g)
      BY <1>14, <2>1 DEF EndDrain, Draining, DrainStates
    <2> QED
      BY <1>0, <2>2, UnrefSafe
  <1>15. ASSUME NEW w \in Workers, CloseMailbox(w) PROVE ~fault'
    BY <1>0, <1>15 DEF CloseMailbox
  <1>16. ASSUME NEW w \in Workers, CancelToken(w) PROVE ~fault'
    <2>1. PICK g \in Gens :
             /\ \/ /\ mailbox[w] # << >> /\ g = Head(mailbox[w])
                   /\ mailbox' = [mailbox EXCEPT ![w] = Tail(@)]
                   /\ timed' = timed
                \/ /\ timed[w] # << >> /\ g = Head(timed[w])
                   /\ timed' = [timed EXCEPT ![w] = Tail(@)]
                   /\ mailbox' = mailbox
             /\ Unref(g)
      BY <1>16 DEF CancelToken
    <2>2. HasToken(g, w)
      BY <2>1, QueueLoses DEF TokenTaken
    <2> QED
      BY <1>0, <2>1, <2>2, UnrefSafe
  <1>17. ASSUME NEW l \in Lanes, EnterToNotify(l) PROVE ~fault'
    <2>1. PICK g \in Gens, w \in Workers : l = <<g, w>>
      BY DEF Lanes
    <2>2. Notifying(<<g, w>>)
      BY <1>17, <2>1 DEF EnterToNotify, Notifying
    <2>3. g = current
      BY <1>0, <2>2 DEF NativeGood, NativeBooks
    <2>4. ~Gone(g)
      BY <1>0, <2>3, Alive
    <2> QED
      BY <1>0, <1>17, <2>1, <2>4 DEF EnterToNotify
  <1>18. ASSUME NEW l \in Lanes, PostNotification(l) PROVE ~fault'
    BY <1>0, <1>18 DEF PostNotification, Accept, Refuse
  <1>19. ASSUME NEW l \in Lanes, LeaveNotify(l) PROVE ~fault'
    <2>1. PICK g \in Gens, w \in Workers : l = <<g, w>>
      BY DEF Lanes
    <2>2. leaving[<<g, w>>] > 0 /\ leaving[<<g, w>>] \in Nat
      BY <1>0, <1>19, <2>1 DEF LeaveNotify, FlagType
    <2>3. <<w, 1>> \in Leaving(g)
      BY <2>2 DEF Leaving
    <2>4. inside[g] # 0
      <3>1. Cardinality(Leaving(g)) # 0
        BY <2>3, CountParts, FS_EmptySet
      <3> QED
        BY <3>1, CountParts DEF Count
    <2>5. g = current
      BY <1>0, <2>4 DEF GateBooks
    <2>6. ~Gone(g)
      BY <1>0, <2>5, Alive
    <2> QED
      BY <1>0, <1>19, <2>1, <2>6 DEF LeaveNotify
  <1>20. ASSUME Open PROVE ~fault'
    BY <1>0, <1>20 DEF Open
  <1>21. ASSUME Unpublish PROVE ~fault'
    BY <1>0, <1>21 DEF Unpublish, OwnerBooks
  <1>22. ASSUME CloseGate PROVE ~fault'
    BY <1>0, <1>22 DEF CloseGate
  <1>23. ASSUME StopNative PROVE ~fault'
    BY <1>0, <1>23 DEF StopNative
  <1>24. ASSUME Discard PROVE ~fault'
    <2>1. PICK c \in Gens : c = current /\ owner = "discard"
      BY <1>0, <1>24 DEF Discard, OwnerBooks, OwnerType, Gens
    <2>2. UNION {Range(batch[l]) \cup Range(buffers[l]) : l \in CurrentLanes} = Held(c)
      BY <2>1, HeldInLanes
    <2>3. fault' = (fault \/ borrowed \cap CurrentLanes # {}
                    \/ packets[c] < Cardinality(Held(c))
                    \/ \E p \in Held(c) : fate[p] # "owned")
      BY <1>24, <2>1, <2>2 DEF Discard
    <2>4. borrowed \cap CurrentLanes = {}
      BY <1>0, <2>1 DEF CurrentLanes, NativeGood, NativeBooks
    <2>5. /\ packets[c] = Cardinality(Held(c)) /\ Cardinality(Held(c)) \in Nat
          /\ Held(c) \subseteq Packets
          /\ \A q \in Packets : fate[q] = "owned" <=> q \in Held(c)
      BY <1>0, <2>1, HeldNow, HeldFinite
    <2>6. ~(packets[c] < Cardinality(Held(c)))
      BY <2>5
    <2>7. \A p \in Held(c) : fate[p] = "owned"
      BY <2>5
    <2> QED
      BY <1>0, <2>3, <2>4, <2>6, <2>7
  <1>25. ASSUME BeginDestroy PROVE ~fault'
    BY <1>0, <1>25 DEF BeginDestroy
  <1>26. ASSUME NEW g \in Gens, DestroyOne(g) PROVE ~fault'
    <2>1. g \in retired /\ owner = "destroy" /\ Unref(g)
      BY <1>26 DEF DestroyOne
    <2>2. g # current
      BY <1>0, <2>1 DEF OwnerBooks, Gens
    <2> QED
      BY <1>0, <2>1, <2>2, UnrefSafe
  <1> QED
    BY <1>1, <1>2, <1>3, <1>4, <1>5, <1>6, <1>7, <1>8, <1>9, <1>10, <1>11,
       <1>12, <1>13, <1>14, <1>15, <1>16, <1>17, <1>18, <1>19, <1>20, <1>21,
       <1>22, <1>23, <1>24, <1>25, <1>26
       DEF Next, SendStep, DrainStep, NotifyStep, CloseStep, DestroyStep

-----------------------------------------------------------------------------
(* The drivers of a lane are counted.                                      *)
LEMMA TokensHere ==
    ASSUME Books, NEW g \in Gens, NEW w \in Workers
    PROVE  Cardinality(TokensAt(g, w)) = IF HasToken(g, w) THEN 1 ELSE 0
  <1> DEFINE T == TokensAt(g, w)
  <1>1. T = TokenSet(mailbox, timed, g, w)
    BY DEF TokensAt, TokenSet
  <1>2. /\ \A x, y \in T : x = y
        /\ T # {} <=> HasToken(g, w)
    <2>1. /\ IsInjective(mailbox[w]) /\ IsInjective(timed[w])
          /\ Range(mailbox[w]) \cap Range(timed[w]) = {}
      BY Facts1 DEF TokenBooks
    <2> QED
      BY <1>1, <2>1, OneTokenEach DEF HasToken
  <1> HIDE DEF T
  <1>3. CASE T = {}
    BY <1>2, <1>3, FS_EmptySet DEF T
  <1>4. CASE T # {}
    <2>1. PICK x : T = {x}
      BY <1>2, <1>4
    <2>2. Cardinality(T) = 1
      BY <2>1, FS_Singleton
    <2> QED
      BY <1>2, <1>4, <2>2 DEF T
  <1> QED
    BY <1>3, <1>4

(* One driver at most, and exactly one where the lane is marked as         *)
(* scheduled: counted from what the books say of the lane.                 *)
LEMMA DriversCounted ==
    ASSUME Books, LanesGood, NEW g \in Gens, NEW w \in Workers
    PROVE  /\ Drivers(g, w) <= 1
           /\ open[g] /\ ~failed[g] /\ ~cancelled[<<g, w>>] /\ pc[w].g # g =>
                 /\ scheduled[<<g, w>>] <=> Drivers(g, w) = 1
                 /\ Holds(<<g, w>>) => scheduled[<<g, w>>]
  <1> DEFINE t == IF HasToken(g, w) THEN 1 ELSE 0
             d == IF Stands(w, g, {"drain"}) THEN 1 ELSE 0
             n == IF Notifying(<<g, w>>) THEN 1 ELSE 0
  <1>1. pc[w] = [at |-> "drain", g |-> g] <=> Stands(w, g, {"drain"})
    BY Facts1 DEF PlaceType, Stands
  <1>2. Drivers(g, w) = t + d + n
    BY <1>1, TokensHere DEF Drivers
  <1>3. DriverBooks(g, w) /\ LaneBooks(g, w)
    BY Facts1 DEF LanesGood
  <1>4. /\ HasToken(g, w) => ~Stands(w, g, {"drain"}) /\ ~Notifying(<<g, w>>)
        /\ Stands(w, g, {"drain"}) => ~Notifying(<<g, w>>)
        /\ HasDriver(g, w) => scheduled[<<g, w>>]
    BY <1>3 DEF DriverBooks, Stands, HasDriver
  <1>5. t + d + n <= 1 /\ (HasDriver(g, w) <=> t + d + n = 1)
    BY <1>4 DEF HasDriver
  <1>6. ASSUME open[g], ~failed[g], ~cancelled[<<g, w>>], pc[w].g # g
        PROVE  /\ scheduled[<<g, w>>] <=> HasDriver(g, w)
               /\ Holds(<<g, w>>) => scheduled[<<g, w>>]
    BY <1>3, <1>4, <1>6 DEF LaneBooks, Stands
  <1> HIDE DEF t, d, n
  <1> QED
    BY <1>2, <1>5, <1>6

(* The inductive invariant.                                                *)
WriterCore ==
    /\ ~fault /\ Books /\ FifoOrder /\ HeldBooks /\ StoresGood /\ SendersGood
    /\ LanesGood /\ NativeGood

(* It implies the invariant that the run checks.                           *)
LEMMA CoreImplies == WriterCore => WriterInv
  <1> SUFFICES ASSUME WriterCore PROVE WriterInv
    OBVIOUS
  <1>1. /\ ~fault /\ Books /\ HeldBooks /\ StoresGood /\ SendersGood /\ LanesGood
        /\ NativeGood
    BY DEF WriterCore
  <1>2. \A g \in Gens, w \in Workers :
           /\ Drivers(g, w) <= 1
           /\ open[g] /\ ~failed[g] /\ ~cancelled[<<g, w>>] /\ pc[w].g # g =>
                 /\ scheduled[<<g, w>>] <=> Drivers(g, w) = 1
                 /\ Holds(<<g, w>>) => scheduled[<<g, w>>]
    BY <1>1, DriversCounted
  <1> QED
    BY <1>1, <1>2
       DEF WriterInv, StoresGood, SendersGood, LanesGood, NativeGood

(* It holds at the start,                                                  *)
LEMMA CoreInit == Init => WriterCore
  <1> SUFFICES ASSUME Init PROVE WriterCore
    OBVIOUS
  <1>1. Books /\ FifoOrder /\ ~fault
    BY BooksInit DEF Init
  <1>2. /\ \A g \in Gens : references[g] = 0 /\ mem[g] = "none" /\ packets[g] = 0
        /\ current = 0 /\ retired = {} /\ borrowed = {} /\ opened = 0
        /\ \A k \in Lanes : /\ batch[k] = << >> /\ buffers[k] = << >>
                            /\ ~scheduled[k] /\ notifier[k] = "none"
        /\ \A w \in Workers : /\ mailbox[w] = << >> /\ timed[w] = << >>
                              /\ pc[w].at = "idle" /\ pc[w].g = 0
    BY DEF Init, Idle
  <1>3. \A p \in Packets : fate[p] = "user"
    BY DEF Init
  <1>4. \A g \in Gens : Held(g) = {}
    BY <1>2, HeldIs, EmptyRange DEF Lanes
  <1>5. HeldBooks
    BY <1>2, <1>3, <1>4, FS_EmptySet DEF HeldBooks
  <1>6. \A g \in Gens : g # 0
    BY DEF Gens
  <1>7. \A g \in Gens : Holders(g) = {} /\ Draining(g) = {} /\ Owned(g) = 0
    BY <1>2, <1>6, EmptyRange DEF Holders, HasToken, Draining, DrainStates, Owned
  <1>8. Stored
    <2>1. RefsGood
      <3>1. \A g \in Gens : Users(g) = Cardinality({}) + Cardinality({}) + 0
        BY <1>7 DEF Users
      <3>2. \A g \in Gens : Users(g) = 0
        BY <3>1, FS_EmptySet
      <3> QED
        BY <1>2, <3>2 DEF RefsGood
    <2>2. LiveGood /\ FreshGood
      BY <1>2 DEF LiveGood, FreshGood, Lanes
    <2> QED
      BY <2>1, <2>2 DEF Stored
  <1>9. StoresGood
    BY <1>1, <1>8, StoreParts DEF Stored
  <1>10. SendersGood
    BY <1>2 DEF SendersGood, SenderBooks, Sending
  <1>11. ASSUME NEW g \in Gens, NEW w \in Workers
         PROVE  LaneBooks(g, w) /\ NativeBooks(g, w)
    <2>1. <<g, w>> \in Lanes /\ g # current
      BY <1>2, <1>6 DEF Lanes
    <2>2. /\ batch[<<g, w>>] = << >> /\ buffers[<<g, w>>] = << >>
          /\ ~scheduled[<<g, w>>] /\ ~Notifying(<<g, w>>) /\ ~Holds(<<g, w>>)
          /\ \A S : ~Stands(w, g, S)
      BY <1>2, <1>6, <2>1 DEF Notifying, Holds, Stands
    <2> QED
      BY <1>2, <2>1, <2>2, EmptyRange DEF LaneBooks, NativeBooks
  <1> QED
    BY <1>1, <1>5, <1>9, <1>10, <1>11 DEF WriterCore, LanesGood, NativeGood

(* every step of the writer keeps it,                                      *)
LEMMA CoreNext ==
    ASSUME WriterCore, Next, ~Over PROVE WriterCore'
  <1>1. /\ ~fault /\ Books /\ FifoOrder /\ HeldBooks /\ StoresGood /\ SendersGood
        /\ LanesGood /\ NativeGood
    BY DEF WriterCore
  <1>2. Books' /\ FifoOrder'
    BY <1>1, BooksNext
  <1>3. LanesGood' /\ NativeGood' /\ SendersGood'
    BY <1>1, LanesKept, NativeKept, SendersKept
  <1>4. StoresGood'
    <2>1. Stored'
      BY <1>1, StoredKept
    <2>2. RefsGood' /\ LiveGood' /\ FreshGood'
      BY <2>1 DEF Stored
    <2> QED
      BY <1>2, <2>2, StorePartsNext
  <1>5. HeldBooks'
    BY <1>1, <1>2, HeldKept
  <1>6. ~fault'
    BY <1>1, FaultsKept
  <1> QED
    BY <1>2, <1>3, <1>4, <1>5, <1>6 DEF WriterCore

(* and so does a stuttering step.                                          *)
LEMMA CoreStutter ==
    ASSUME WriterCore, UNCHANGED vars PROVE WriterCore'
  <1> USE DEF vars, writerVars, genVars, laneVars, native, queueVars, limits
  <1>1. /\ ~fault /\ Books /\ FifoOrder /\ HeldBooks /\ StoresGood /\ SendersGood
        /\ LanesGood /\ NativeGood
    BY DEF WriterCore
  <1>2. Books' /\ FifoOrder'
    BY <1>1, BooksStutter
  <1>3. ~fault'
    BY <1>1
  <1>4. HeldBooks'
    <2>1. \A h \in Gens : Held(h)' = Held(h)
      BY DEF Held
    <2> QED
      BY <1>1, <2>1, HeldFrame
  <1>5. TokensSame
    BY <1>1, QueuesStay
  <1>6. StoresGood'
    <2>1. SameDrains /\ MarksOfCurrent
      BY DEF SameDrains, MarksOfCurrent
    <2>2. \A h \in Gens : Users(h)' = Users(h)
      BY <1>5, <2>1, UsersSame
    <2>3. Stored
      BY <1>1, StoreParts DEF Stored
    <2>4. Stored'
      BY <1>1, <2>1, <2>2, <2>3, StoreFrame
    <2>5. RefsGood' /\ LiveGood' /\ FreshGood'
      BY <2>4 DEF Stored
    <2> QED
      BY <1>2, <2>5, StorePartsNext
  <1>7. SendersGood'
    BY <1>1, SenderFrame
  <1>8. LanesGood'
    <2>1. \A h \in Gens, v \in Workers : LaneSame(h, v) /\ Away(h, v)
      BY <1>5 DEF LaneSame, Away, TokensSame
    <2> QED
      BY <1>1, <2>1, LaneFrame DEF LanesGood
  <1>9. NativeGood'
    <2>1. NoNewToken
      BY <1>1, QueuesStay
    <2>2. \A h \in Gens, v \in Workers :
             /\ Notifying(<<h, v>>)' => Notifying(<<h, v>>)
             /\ Holds(<<h, v>>) => Holds(<<h, v>>)'
      BY DEF Notifying, Holds
    <2> QED
      BY <1>1, <2>1, <2>2, NativeFrame
  <1> QED
    BY <1>2, <1>3, <1>4, <1>6, <1>7, <1>8, <1>9 DEF WriterCore

(* raw_writer.c as a whole: a packet that was taken is in one lane until   *)
(* it is written or dropped; the counts of packets, of operations in the   *)
(* gate and of references are exact, so that a generation is freed once,   *)
(* when nobody can use it any more; an open lane with packets has its one  *)
(* driver, unless it has failed or was cancelled; no assertion of the      *)
(* writer fails and no native call loses the packet that it reads.         *)
THEOREM WriterSafe == Spec => []WriterInv
  <1>1. WriterCore /\ [Next]_vars => WriterCore'
    BY CoreNext, CoreStutter DEF Over
  <1> QED
    BY <1>1, CoreInit, CoreImplies, PTL DEF Spec

=============================================================================
