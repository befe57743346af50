--------------------------- MODULE IdleTableProofs --------------------------
(***************************************************************************)
(* The idle table is safe for any workers, items, owners, keys, capacities *)
(* and clocks.  IdleInv is inductive: a step moves at most one message, so *)
(* that the set of items messages own changes by one item or by what a     *)
(* scan takes, and every item keeps one owner.                             *)
(***************************************************************************)
EXTENDS IdleTable, FiniteSetTheorems, TLAPS

-----------------------------------------------------------------------------
(* Sequences of items without repetition: one joins at the end,            *)
LEMMA EntriesAppend ==
    ASSUME NEW q \in Seq(Items), NEW i \in Items
    PROVE  /\ Append(q, i) \in Seq(Items)
           /\ Entries(Append(q, i)) = Entries(q) \cup {i}
           /\ Distinct(q) /\ i \notin Entries(q) => Distinct(Append(q, i))
  <1> DEFINE r == Append(q, i)
  <1>1. /\ r \in Seq(Items) /\ Len(r) = Len(q) + 1 /\ Len(q) \in Nat /\ r[Len(q) + 1] = i
        /\ \A n \in 1 .. Len(q) : r[n] = q[n]
    OBVIOUS
  <1>2. \A n \in 1 .. Len(r) : n \in 1 .. Len(q) \/ n = Len(q) + 1
    BY <1>1
  <1>3. (\A n \in 1 .. Len(q) : n \in 1 .. Len(r)) /\ Len(q) + 1 \in 1 .. Len(r)
    BY <1>1
  <1> HIDE DEF r
  <1>4. Entries(r) = Entries(q) \cup {i}
    BY <1>1, <1>2, <1>3 DEF Entries
  <1>5. Distinct(q) /\ i \notin Entries(q) => Distinct(r)
    BY <1>1, <1>2 DEF Distinct, Entries
  <1> QED BY <1>1, <1>4, <1>5 DEF r

(* the first leaves,                                                       *)
LEMMA EntriesHead ==
    ASSUME NEW q \in Seq(Items), q # << >>
    PROVE  /\ Head(q) \in Items /\ Head(q) \in Entries(q)
           /\ Tail(q) \in Seq(Items)
           /\ Entries(q) = Entries(Tail(q)) \cup {Head(q)}
           /\ Distinct(q) => Distinct(Tail(q)) /\ Head(q) \notin Entries(Tail(q))
  <1> DEFINE r == Tail(q)
             h == Head(q)
  <1>1. /\ r \in Seq(Items) /\ h \in Items /\ Len(q) = Len(r) + 1 /\ Len(r) \in Nat
        /\ \A n \in 1 .. Len(r) : r[n] = q[n + 1]
        /\ q[1] = h
    OBVIOUS
  <1>2. \A n \in 1 .. Len(q) : n = 1 \/ (n - 1 \in 1 .. Len(r) /\ r[n - 1] = q[n])
    BY <1>1
  <1>3. \A n \in 1 .. Len(r) : n + 1 \in 1 .. Len(q) /\ n + 1 # 1
    BY <1>1
  <1>4. 1 \in 1 .. Len(q)
    BY <1>1
  <1> HIDE DEF r, h
  <1>5. Entries(q) = Entries(r) \cup {h}
    BY <1>1, <1>2, <1>3, <1>4 DEF Entries
  <1>6. ASSUME Distinct(q) PROVE Distinct(r) /\ h \notin Entries(r)
    <2>1. ASSUME NEW m \in 1 .. Len(r), NEW n \in 1 .. Len(r), r[m] = r[n] PROVE m = n
      <3>1. m + 1 = n + 1
        BY <1>1, <1>3, <1>6, <2>1 DEF Distinct
      <3> QED BY <3>1
    <2>2. h \notin Entries(r)
      BY <1>1, <1>3, <1>4, <1>6 DEF Distinct, Entries
    <2> QED BY <2>1, <2>2 DEF Distinct
  <1> QED BY <1>1, <1>5, <1>6 DEF r, h

(* and a set is listed in any order.                                       *)
LEMMA EntriesOrdered ==
    ASSUME NEW S \in SUBSET Items, NEW b \in Orders(S)
    PROVE  b \in Seq(Items) /\ Entries(b) = S /\ Distinct(b)
  <1>1. IsFiniteSet(S) /\ Cardinality(S) \in Nat
    BY IdleAssumption, FS_Subset, FS_CardinalityType
  <1> DEFINE n == Cardinality(S)
  <1>2. /\ b \in [1 .. n -> S]
        /\ \A x, y \in 1 .. n : b[x] = b[y] => x = y
    BY DEF Orders
  <1>3. IsFiniteSet(1 .. n) /\ Cardinality(1 .. n) = n
    BY <1>1, FS_Interval
  <1> HIDE DEF n
  <1>4. b \in Injection(1 .. n, S)
    BY <1>2 DEF Injection, IsInjective
  <1>5. b \in Surjection(1 .. n, S)
    BY <1>1, <1>3, <1>4, FS_Injection DEF n
  <1>6. \A s \in S : \E x \in 1 .. n : b[x] = s
    BY <1>5 DEF Surjection
  <1>7. n \in Nat
    BY <1>1 DEF n
  <1>8. b \in Seq(Items) /\ Len(b) = n
    BY <1>2, <1>7
  <1>9. Entries(b) = S
    BY <1>2, <1>6, <1>8 DEF Entries
  <1> QED BY <1>2, <1>8, <1>9 DEF Distinct

(* Finite sets, one element more or less.                                  *)
LEMMA Counting ==
    ASSUME NEW S, IsFiniteSet(S), NEW x
    PROVE  /\ Cardinality(S) \in Nat
           /\ x \notin S => Cardinality(S \cup {x}) = Cardinality(S) + 1
           /\ x \in S => Cardinality(S \ {x}) = Cardinality(S) - 1
           /\ x \in S => Cardinality(S) > 0
  <1>1. Cardinality(S) \in Nat
    BY FS_CardinalityType
  <1>2. x \in S => Cardinality(S) # 0
    BY FS_EmptySet
  <1>3. x \notin S => Cardinality(S \cup {x}) = Cardinality(S) + 1
    BY FS_AddElement
  <1>4. x \in S => Cardinality(S \ {x}) = Cardinality(S) - 1
    BY FS_RemoveElement
  <1> QED BY <1>1, <1>2, <1>3, <1>4

(* The sizes of two sets that have nothing in common.                      *)
LEMMA Joining ==
    ASSUME NEW S, IsFiniteSet(S), NEW R, IsFiniteSet(R), S \cap R = {}
    PROVE  Cardinality(S \cup R) = Cardinality(S) + Cardinality(R)
  <1>1. Cardinality(S \cup R) = Cardinality(S) + Cardinality(R) - Cardinality(S \cap R)
    BY FS_Union
  <1>2. Cardinality(S \cap R) = 0 /\ Cardinality(S) \in Nat /\ Cardinality(R) \in Nat
    BY FS_EmptySet, FS_CardinalityType
  <1> QED BY <1>1, <1>2

-----------------------------------------------------------------------------
(* IdleInv with its facts about items gathered item by item.               *)
OwnersOf(i) ==
    /\ mem[i] = "live" <=> i \in heap \/ i \in MessageOwned \/ i \in Draining
    /\ ~(i \in heap /\ i \in MessageOwned)
    /\ ~(i \in heap /\ i \in Draining)
    /\ ~(i \in MessageOwned /\ i \in Draining)
ItemBooks(i) == OwnersOf(i) /\ FlagsOf(i)

MessagesCounted == posted = Cardinality(MessageOwned) + Cardinality(Releasing)
SlotsKept == table = "live" => Cardinality(heap) + Cardinality(MessageOwned) <= cap
TableEnd ==
    /\ table = "freed" <=> destroy_requested /\ posted = 0
    /\ destroy_requested => heap = {}
KeysUnique == \A i, j \in hmap : Key[i] = Key[j] => i = j

IdleBooks ==
    /\ TypeOK
    /\ fault = FALSE
    /\ MessagesCounted /\ SlotsKept /\ TableEnd /\ KeysUnique
    /\ OnePlace /\ Threads
    /\ \A i \in Items : ItemBooks(i)

(* Messages and draining workers own items only.                           *)
LEMMA OwnersAreItems ==
    ASSUME TypeOK, OnePlace
    PROVE  MessageOwned \in SUBSET Items /\ Draining \in SUBSET Items
  <1>1. \A q \in Seq(Items) : Entries(q) \in SUBSET Items
    BY DEF Entries
  <1>2. Entries(batch) \in SUBSET Items /\ \A w \in Workers : Entries(queue[w]) \in SUBSET Items
    BY <1>1 DEF TypeOK
  <1>3. \A w \in Settling : pc[w].i \in Items
    BY DEF OnePlace
  <1>4. MessageOwned \in SUBSET Items
    BY <1>2, <1>3 DEF MessageOwned, Queued
  <1> QED BY <1>4 DEF Draining, TypeOK

(* The inductive invariant implies the one that the run checks.            *)
LEMMA BooksMean == IdleBooks => IdleInv
  <1> SUFFICES ASSUME IdleBooks PROVE IdleInv
    OBVIOUS
  <1> USE DEF IdleBooks
  <1>0. MessageOwned \in SUBSET Items /\ Draining \in SUBSET Items /\ heap \in SUBSET Items
    BY OwnersAreItems DEF TypeOK
  <1>1. {i \in Items : mem[i] = "live"} = heap \cup MessageOwned \cup Draining
    BY <1>0 DEF ItemBooks, OwnersOf
  <1>2. /\ heap \cap MessageOwned = {} /\ heap \cap Draining = {}
        /\ MessageOwned \cap Draining = {}
    BY <1>0 DEF ItemBooks, OwnersOf
  <1>3. \A i \in Items : FlagsOf(i)
    BY DEF ItemBooks
  <1> QED BY <1>1, <1>2, <1>3
          DEF IdleInv, MessagesCounted, SlotsKept, TableEnd, KeysUnique

(* The finite sets that are counted.                                       *)
LEMMA CountedFinite ==
    ASSUME TypeOK, OnePlace
    PROVE  IsFiniteSet(MessageOwned) /\ IsFiniteSet(Releasing) /\ IsFiniteSet(heap)
  <1>1. Releasing \in SUBSET Workers /\ heap \in SUBSET Items
    BY DEF Releasing, TypeOK
  <1> QED BY <1>1, OwnersAreItems, IdleAssumption, FS_Subset

(* Nothing is owned in the beginning.                                      *)
LEMMA BooksInit == Init => IdleBooks
  <1> SUFFICES ASSUME Init PROVE IdleBooks
    OBVIOUS
  <1> USE DEF Init
  <1>1. TypeOK
    <2>1. 0 \in 0 .. MaxTime /\ 0 \in Nat /\ InitCap \in Nat
      BY IdleAssumption
    <2>2. Idle \in [at : SettlingAt \cup {"idle", "release"}, i : Items \cup {NoItem},
                    old : 0 .. MaxTime]
      BY <2>1 DEF Idle
    <2>3. << >> \in Seq(Items)
      OBVIOUS
    <2> QED BY <2>1, <2>2, <2>3 DEF TypeOK
  <1>2. Entries(batch) = {} /\ Distinct(batch) /\ \A w \in Workers : queue[w] = << >>
    BY DEF Entries, Distinct
  <1>3. \A w \in Workers : Entries(queue[w]) = {} /\ Distinct(queue[w])
    BY <1>2 DEF Entries, Distinct
  <1>4. Settling = {} /\ Releasing = {}
    BY DEF Settling, Releasing, At, Idle, SettlingAt
  <1>5. MessageOwned = {} /\ Draining = {}
    BY <1>2, <1>3, <1>4 DEF MessageOwned, Queued, Draining
  <1>6. OnePlace
    BY <1>2, <1>3, <1>4 DEF OnePlace
  <1>7. Threads
    BY <1>2 DEF Threads, Idle
  <1>8. MessagesCounted /\ SlotsKept /\ TableEnd /\ KeysUnique
    <2>1. Cardinality({}) = 0
      BY FS_EmptySet
    <2> QED BY <1>4, <1>5, <2>1, IdleAssumption
            DEF MessagesCounted, SlotsKept, TableEnd, KeysUnique
  <1>9. ASSUME NEW i \in Items PROVE ItemBooks(i)
    BY <1>5 DEF ItemBooks, OwnersOf, FlagsOf
  <1> QED BY <1>1, <1>6, <1>7, <1>8, <1>9 DEF IdleBooks

-----------------------------------------------------------------------------
(* Steps that leave the messages where they are.                           *)
LEMMA PlacesSame ==
    ASSUME UNCHANGED <<batch, queue, pc>>
    PROVE  /\ Settling' = Settling /\ Releasing' = Releasing
           /\ MessageOwned' = MessageOwned
           /\ OnePlace => OnePlace'
  <1>1. Settling' = Settling /\ Releasing' = Releasing
    BY DEF Settling, Releasing, At
  <1>2. MessageOwned' = MessageOwned
    BY <1>1 DEF MessageOwned, Queued
  <1> QED BY <1>1, <1>2 DEF OnePlace

(* The drains stay when nobody touches them.                               *)
LEMMA DrainingSame == ASSUME UNCHANGED drain PROVE Draining' = Draining
  BY DEF Draining

(* A thread that owns an item as its message's receiver runs or is         *)
(* closing, and the table is there as long as owners use it.               *)
LEMMA UserTable ==
    ASSUME IdleBooks, ~retired
    PROVE  table = "live" /\ ~destroy_requested
  BY DEF IdleBooks, Threads, TableEnd, TypeOK

(* A thread that may use the table has not drained it.                     *)
LEMMA UserPhase ==
    ASSUME IdleBooks, NEW w \in Workers, UserMay(w)
    PROVE  phase[w] # "drained"
  BY DEF IdleBooks, UserMay, At, Free, Threads

(* An item is created.                                                     *)
LEMMA CreateKeeps ==
    ASSUME IdleBooks, NEW w \in Workers, NEW i \in Items, NEW at \in 0 .. MaxTime,
           Create(w, i, at)
    PROVE  IdleBooks'
  <1> USE DEF IdleBooks
  <1>0. /\ mem[i] = "none" /\ ~retired /\ Owner[i] = w /\ (\A j \in hmap : Key[j] # Key[i])
        /\ mem' = [mem EXCEPT ![i] = "live"] /\ expireAt' = [expireAt EXCEPT ![i] = at]
        /\ hmap' = hmap \cup {i} /\ heap' = heap \cup {i} /\ held' = held \cup {i}
        /\ cap' = GrownCap(Cardinality(heap) + posted + 1)
        /\ fault' = (fault \/ TableBad)
        /\ UNCHANGED <<removed, detached, pending, posted, destroy_requested, table, clock, batch,
                       queue, phase, pc, drain, retired, refusals>>
    BY DEF Create, UserMay, tableVars
  <1>1. table = "live" /\ ~destroy_requested
    BY <1>0, UserTable
  <1>2. /\ MessageOwned' = MessageOwned /\ Draining' = Draining /\ Releasing' = Releasing
        /\ Settling' = Settling /\ OnePlace'
    BY <1>0, PlacesSame, DrainingSame
  <1>3. IsFiniteSet(heap) /\ IsFiniteSet(MessageOwned) /\ IsFiniteSet(Releasing)
    BY CountedFinite
  <1>4. i \notin heap /\ i \notin MessageOwned /\ i \notin Draining
    BY <1>0 DEF ItemBooks, OwnersOf
  <1>5. Cardinality(heap') = Cardinality(heap) + 1 /\ Cardinality(heap) \in Nat
    BY <1>0, <1>3, <1>4, Counting
  <1>6. cap' \in Nat /\ cap' >= Cardinality(heap) + posted + 1
    <2> DEFINE r == Cardinality(heap) + posted + 1
    <2>1. r \in Nat /\ cap \in Nat /\ MaxEntries \in Nat
      BY <1>5, IdleAssumption, SMTT(30) DEF TypeOK
    <2> HIDE DEF r
    <2>2. cap + cap \div 2 + 4 \in Nat
      BY <2>1
    <2>3. GrownCap(r) \in Nat /\ GrownCap(r) >= r
      BY <2>1, <2>2 DEF GrownCap, Bigger, Smaller
    <2> QED BY <1>0, <2>3 DEF r
  <1>7. TypeOK'
    BY <1>0, <1>1, <1>6 DEF TypeOK, TableBad
  <1>8. fault' = FALSE
    BY <1>0, <1>1 DEF TableBad
  <1>9. MessagesCounted' /\ TableEnd'
    BY <1>0, <1>1, <1>2 DEF MessagesCounted, TableEnd
  <1>10. SlotsKept'
    <2>1. /\ Cardinality(MessageOwned) \in Nat /\ Cardinality(Releasing) \in Nat
          /\ posted = Cardinality(MessageOwned) + Cardinality(Releasing)
      BY <1>3, FS_CardinalityType DEF MessagesCounted
    <2> QED BY <1>2, <1>5, <1>6, <2>1 DEF SlotsKept
  <1>11. KeysUnique'
    BY <1>0 DEF KeysUnique
  <1>12. Threads'
    BY <1>0 DEF Threads
  <1>13. ASSUME NEW j \in Items PROVE ItemBooks(j)'
    <2>1. ItemBooks(j) /\ ItemBooks(i) /\ TypeOK
      OBVIOUS
    <2>2. CASE j = i
      <3>1. /\ i \notin hmap /\ i \notin removed /\ i \notin detached /\ i \notin pending
        BY <1>0, <2>1 DEF ItemBooks, FlagsOf
      <3> QED BY <1>0, <1>1, <1>2, <1>4, <2>1, <2>2, <3>1
              DEF ItemBooks, OwnersOf, FlagsOf, TypeOK
    <2>3. CASE j # i
      <3>1. /\ mem'[j] = mem[j] /\ (j \in heap' <=> j \in heap) /\ (j \in hmap' <=> j \in hmap)
            /\ (j \in held' <=> j \in held)
        BY <1>0, <2>3 DEF TypeOK
      <3> QED BY <1>0, <1>2, <2>1, <3>1 DEF ItemBooks, OwnersOf, FlagsOf
    <2> QED BY <2>2, <2>3
  <1> QED BY <1>2, <1>7, <1>8, <1>9, <1>10, <1>11, <1>12, <1>13

(* A deadline is extended.                                                 *)
LEMMA KeepKeeps ==
    ASSUME IdleBooks, NEW w \in Workers, NEW i \in Items, NEW at \in 0 .. MaxTime,
           Keep(w, i, at)
    PROVE  IdleBooks'
  <1> USE DEF IdleBooks
  <1>0. /\ ~retired /\ Owner[i] = w /\ i \in held
        /\ expireAt' = [expireAt EXCEPT ![i] = at]
        /\ fault' = (fault \/ Bad(i) \/ ~Attached(i))
        /\ UNCHANGED <<mem, removed, detached, pending, heap, cap, hmap, posted,
                       destroy_requested, table, clock, batch, queue, phase, pc, drain, held,
                       retired, refusals>>
    BY DEF Keep, UserMay, indexVars, tableVars, userVars
  <1>1. table = "live" /\ ~destroy_requested
    BY <1>0, UserTable
  <1>2. phase[w] # "drained"
    BY UserPhase DEF Keep
  <1>3. i \in hmap /\ mem[i] = "live" /\ Attached(i)
    BY <1>0, <1>1, <1>2 DEF ItemBooks, OwnersOf, FlagsOf, Attached
  <1>4. /\ MessageOwned' = MessageOwned /\ Draining' = Draining /\ Releasing' = Releasing
        /\ Settling' = Settling /\ OnePlace'
    BY <1>0, PlacesSame, DrainingSame
  <1>5. fault' = FALSE
    BY <1>0, <1>3 DEF Bad
  <1>6. TypeOK'
    BY <1>0, <1>5 DEF TypeOK
  <1>7. MessagesCounted' /\ TableEnd' /\ SlotsKept' /\ KeysUnique' /\ Threads'
    BY <1>0, <1>4 DEF MessagesCounted, TableEnd, SlotsKept, KeysUnique, Threads
  <1>8. ASSUME NEW j \in Items PROVE ItemBooks(j)'
    BY <1>0, <1>4 DEF ItemBooks, OwnersOf, FlagsOf
  <1> QED BY <1>4, <1>5, <1>6, <1>7, <1>8

(* An item is removed by its key.                                          *)
LEMMA RemoveKeeps ==
    ASSUME IdleBooks, NEW w \in Workers, NEW i \in Items, Remove(w, i)
    PROVE  IdleBooks'
  <1> USE DEF IdleBooks
  <1> DEFINE found == {j \in hmap : Key[j] = Key[i] /\ Owner[j] = w}
  <1>0. /\ ~retired /\ Owner[i] = w /\ i \in held /\ held' = held \ {i}
        /\ fault' = (fault \/ TableBad \/ found # {i} \/ Bad(i))
        /\ hmap' = hmap \ found /\ removed' = removed \cup found
        /\ detached' = detached \cup (found \cap pending)
        /\ UNCHANGED <<mem, expireAt, pending, heap, cap, posted, destroy_requested, table,
                       clock, batch, queue, phase, pc, drain, retired, refusals>>
    BY DEF Remove, UserMay, tableVars
  <1>1. table = "live" /\ ~destroy_requested
    BY <1>0, UserTable
  <1>2. phase[w] # "drained"
    BY UserPhase DEF Remove
  <1>3. i \in hmap /\ mem[i] = "live"
    BY <1>0, <1>1, <1>2 DEF ItemBooks, OwnersOf, FlagsOf
  <1>4. found = {i}
    BY <1>0, <1>3 DEF KeysUnique
  <1> HIDE DEF found
  <1>5. /\ MessageOwned' = MessageOwned /\ Draining' = Draining /\ Releasing' = Releasing
        /\ Settling' = Settling /\ OnePlace'
    BY <1>0, PlacesSame, DrainingSame
  <1>6. fault' = FALSE
    BY <1>0, <1>1, <1>3, <1>4 DEF Bad, TableBad
  <1>7. TypeOK'
    BY <1>0, <1>4, <1>6 DEF TypeOK
  <1>8. MessagesCounted' /\ TableEnd' /\ SlotsKept' /\ KeysUnique' /\ Threads'
    BY <1>0, <1>5 DEF MessagesCounted, TableEnd, SlotsKept, KeysUnique, Threads
  <1>9. ASSUME NEW j \in Items PROVE ItemBooks(j)'
    BY <1>0, <1>1, <1>3, <1>4, <1>5 DEF ItemBooks, OwnersOf, FlagsOf
  <1> QED BY <1>5, <1>6, <1>7, <1>8, <1>9

-----------------------------------------------------------------------------
(* A message moves: from the batch of the timer to a queue,                *)
LEMMA BatchToQueue ==
    ASSUME TypeOK, OnePlace, batch # << >>, NEW v \in Workers,
           queue' = [queue EXCEPT ![v] = Append(@, Head(batch))],
           batch' = Tail(batch), UNCHANGED pc
    PROVE  /\ MessageOwned' = MessageOwned /\ Settling' = Settling /\ Releasing' = Releasing
           /\ OnePlace'
           /\ batch' \in Seq(Items) /\ queue' \in [Workers -> Seq(Items)]
  <1> DEFINE i == Head(batch)
  <1>1. /\ i \in Items /\ i \in Entries(batch) /\ batch' \in Seq(Items)
        /\ Entries(batch) = Entries(batch') \cup {i}
        /\ Distinct(batch') /\ i \notin Entries(batch')
    BY EntriesHead DEF TypeOK, OnePlace
  <1>2. \A w \in Workers : queue[w] \in Seq(Items)
    BY DEF TypeOK
  <1>3. i \notin Entries(queue[v])
    BY <1>1 DEF OnePlace
  <1>4. /\ Append(queue[v], i) \in Seq(Items)
        /\ Entries(Append(queue[v], i)) = Entries(queue[v]) \cup {i}
        /\ Distinct(Append(queue[v], i))
    BY <1>1, <1>2, <1>3, EntriesAppend DEF OnePlace
  <1>5. queue'[v] = Append(queue[v], i) /\ \A w \in Workers \ {v} : queue'[w] = queue[w]
    BY DEF TypeOK
  <1> HIDE DEF i
  <1>6. queue' \in [Workers -> Seq(Items)]
    BY <1>4 DEF TypeOK, i
  <1>7. /\ Entries(queue'[v]) = Entries(queue[v]) \cup {i} /\ Distinct(queue'[v])
        /\ \A w \in Workers \ {v} : Entries(queue'[w]) = Entries(queue[w])
    BY <1>4, <1>5
  <1>8. Settling' = Settling /\ Releasing' = Releasing
    BY DEF Settling, Releasing, At
  <1>9. MessageOwned' = MessageOwned
    <2>1. Queued' = Queued \cup {i}
      BY <1>7 DEF Queued
    <2> QED BY <1>1, <1>8, <2>1 DEF MessageOwned
  <1>10. OnePlace'
    <2>1. Distinct(batch') /\ \A w \in Settling : pc[w].i \in Items \ Entries(batch')
      BY <1>1 DEF OnePlace
    <2>2. \A x \in Settling : pc[x].i # i
      BY <1>1 DEF OnePlace
    <2>3. ASSUME NEW w \in Workers
          PROVE  /\ Distinct(queue'[w])
                 /\ Entries(queue'[w]) \cap Entries(batch') = {}
                 /\ \A x \in Settling : pc[x].i \notin Entries(queue'[w])
                 /\ \A x \in Workers \ {w} : Entries(queue'[x]) \cap Entries(queue'[w]) = {}
      <3>1. \A x \in Workers : i \notin Entries(queue[x])
        BY <1>1 DEF OnePlace
      <3>2. CASE w = v
        <4>1. Distinct(queue'[w]) /\ Entries(queue'[w]) = Entries(queue[w]) \cup {i}
          BY <1>7, <3>2
        <4>2. Entries(queue'[w]) \cap Entries(batch') = {}
          BY <1>1, <4>1 DEF OnePlace
        <4>3. \A x \in Settling : pc[x].i \notin Entries(queue'[w])
          BY <2>2, <4>1 DEF OnePlace
        <4>4. ASSUME NEW x \in Workers \ {w} PROVE Entries(queue'[x]) \cap Entries(queue'[w]) = {}
          <5>1. Entries(queue'[x]) = Entries(queue[x]) /\ i \notin Entries(queue[x])
            BY <1>7, <3>1, <3>2
          <5>2. Entries(queue[x]) \cap Entries(queue[w]) = {}
            BY DEF OnePlace
          <5> QED BY <4>1, <5>1, <5>2
        <4> QED BY <4>1, <4>2, <4>3, <4>4
      <3>3. CASE w # v
        BY <1>1, <1>5, <1>7, <3>1, <3>3, ZenonT(30) DEF OnePlace
      <3> QED BY <3>2, <3>3
    <2> QED BY <1>8, <2>1, <2>3 DEF OnePlace
  <1> QED BY <1>1, <1>6, <1>8, <1>9, <1>10

(* and from the batch or a queue to a worker's hands.                      *)
LEMMA TakeInHand ==
    ASSUME TypeOK, OnePlace, NEW w \in Workers, NEW a \in SettlingAt, NEW i \in Items,
           NEW o \in 0 .. MaxTime, pc[w].at = "idle",
           pc' = [pc EXCEPT ![w] = [at |-> a, i |-> i, old |-> o]],
           \/ /\ batch # << >> /\ i = Head(batch) /\ batch' = Tail(batch) /\ UNCHANGED queue
           \/ /\ queue[w] # << >> /\ i = Head(queue[w])
              /\ queue' = [queue EXCEPT ![w] = Tail(@)] /\ UNCHANGED batch
    PROVE  /\ MessageOwned' = MessageOwned /\ Releasing' = Releasing
           /\ i \in MessageOwned
           /\ OnePlace'
           /\ batch' \in Seq(Items) /\ queue' \in [Workers -> Seq(Items)]
           /\ pc' \in [Workers -> [at : SettlingAt \cup {"idle", "release"},
                                   i : Items \cup {NoItem}, old : 0 .. MaxTime]]
  <1>1. /\ pc'[w] = [at |-> a, i |-> i, old |-> o] /\ \A x \in Workers \ {w} : pc'[x] = pc[x]
        /\ pc' \in [Workers -> [at : SettlingAt \cup {"idle", "release"},
                                i : Items \cup {NoItem}, old : 0 .. MaxTime]]
    BY DEF TypeOK
  <1>2. Settling' = Settling \cup {w} /\ w \notin Settling /\ Settling \subseteq Workers
    BY <1>1 DEF Settling, SettlingAt
  <1>3. Releasing' = Releasing
    BY <1>1 DEF Releasing, At, SettlingAt
  <1>4. CASE batch # << >> /\ i = Head(batch) /\ batch' = Tail(batch) /\ UNCHANGED queue
    <2>1. /\ i \in Entries(batch) /\ batch' \in Seq(Items)
          /\ Entries(batch) = Entries(batch') \cup {i}
          /\ Distinct(batch') /\ i \notin Entries(batch')
      BY <1>4, EntriesHead DEF TypeOK, OnePlace
    <2>2. /\ \A x \in Settling : pc[x].i # i
          /\ \A x \in Workers : i \notin Entries(queue[x])
      BY <2>1 DEF OnePlace
    <2>3. {pc'[x].i : x \in Settling'} = {pc[x].i : x \in Settling} \cup {i}
      BY <1>1, <1>2
    <2>4. MessageOwned' = MessageOwned /\ i \in MessageOwned
      BY <1>4, <2>1, <2>3 DEF MessageOwned, Queued
    <2>5. OnePlace'
      <3>1. \A x \in Settling' : pc'[x].i \in Items \ Entries(batch')
        BY <1>1, <1>2, <2>1 DEF OnePlace
      <3>2. \A x, y \in Settling' : pc'[x].i = pc'[y].i => x = y
        BY <1>1, <1>2, <2>2 DEF OnePlace
      <3>3. ASSUME NEW x \in Workers
            PROVE  /\ Distinct(queue'[x])
                   /\ Entries(queue'[x]) \cap Entries(batch') = {}
                   /\ \A y \in Settling' : pc'[y].i \notin Entries(queue'[x])
                   /\ \A y \in Workers \ {x} : Entries(queue'[y]) \cap Entries(queue'[x]) = {}
        BY <1>1, <1>2, <1>4, <2>1, <2>2, ZenonT(30) DEF OnePlace
      <3> QED BY <2>1, <3>1, <3>2, <3>3 DEF OnePlace
    <2>6. queue' \in [Workers -> Seq(Items)]
      BY <1>4 DEF TypeOK
    <2> QED BY <1>1, <1>3, <2>1, <2>4, <2>5, <2>6
  <1>5. CASE /\ queue[w] # << >> /\ i = Head(queue[w])
             /\ queue' = [queue EXCEPT ![w] = Tail(@)] /\ UNCHANGED batch
    <2>1. queue[w] \in Seq(Items) /\ Distinct(queue[w])
      BY DEF TypeOK, OnePlace
    <2>2. /\ i \in Entries(queue[w]) /\ Tail(queue[w]) \in Seq(Items)
          /\ Entries(queue[w]) = Entries(Tail(queue[w])) \cup {i}
          /\ Distinct(Tail(queue[w])) /\ i \notin Entries(Tail(queue[w]))
      BY <1>5, <2>1, EntriesHead
    <2>3. /\ queue'[w] = Tail(queue[w]) /\ \A x \in Workers \ {w} : queue'[x] = queue[x]
          /\ queue' \in [Workers -> Seq(Items)]
      BY <1>5, <2>2 DEF TypeOK
    <2>4. /\ \A x \in Settling : pc[x].i # i
          /\ i \notin Entries(batch)
          /\ \A x \in Workers : i \notin Entries(queue'[x])
      BY <2>2, <2>3 DEF OnePlace
    <2>5. {pc'[x].i : x \in Settling'} = {pc[x].i : x \in Settling} \cup {i}
      BY <1>1, <1>2
    <2>6. Queued = Queued' \cup {i}
      <3>1. \A x \in Workers : Entries(queue[x]) = IF x = w THEN Entries(queue'[x]) \cup {i}
                                                           ELSE Entries(queue'[x])
        BY <2>2, <2>3
      <3> QED BY <3>1 DEF Queued
    <2>7. MessageOwned' = MessageOwned /\ i \in MessageOwned
      BY <1>5, <2>5, <2>6 DEF MessageOwned
    <2>8. OnePlace'
      <3>0. \A x \in Workers : Entries(queue'[x]) \subseteq Entries(queue[x]) /\ Distinct(queue'[x])
        BY <2>2, <2>3 DEF OnePlace
      <3>1. Distinct(batch') /\ \A x \in Settling' : pc'[x].i \in Items \ Entries(batch')
        BY <1>1, <1>2, <1>5, <2>4 DEF OnePlace
      <3>2. \A x, y \in Settling' : pc'[x].i = pc'[y].i => x = y
        BY <1>1, <1>2, <2>4 DEF OnePlace
      <3>3. ASSUME NEW x \in Workers
            PROVE  /\ Distinct(queue'[x])
                   /\ Entries(queue'[x]) \cap Entries(batch') = {}
                   /\ \A y \in Settling' : pc'[y].i \notin Entries(queue'[x])
                   /\ \A y \in Workers \ {x} : Entries(queue'[y]) \cap Entries(queue'[x]) = {}
        <4>1. Entries(queue'[x]) \cap Entries(batch') = {}
          BY <1>5, <3>0 DEF OnePlace
        <4>2. \A y \in Settling' : pc'[y].i \notin Entries(queue'[x])
          BY <1>1, <1>2, <2>4, <3>0, SMTT(30) DEF OnePlace
        <4>3. \A y \in Workers \ {x} : Entries(queue'[y]) \cap Entries(queue'[x]) = {}
          BY <3>0 DEF OnePlace
        <4> QED BY <3>0, <4>1, <4>2, <4>3
      <3> QED BY <3>1, <3>2, <3>3 DEF OnePlace
    <2>9. batch' \in Seq(Items)
      BY <1>5 DEF TypeOK
    <2> QED BY <1>1, <1>3, <2>3, <2>7, <2>8, <2>9
  <1> QED BY <1>4, <1>5

(* What messages own is live, and pins the table.                          *)
LEMMA OwnedIsLive ==
    ASSUME IdleBooks, NEW i \in MessageOwned
    PROVE  i \in Items /\ mem[i] = "live" /\ table = "live" /\ i \in pending /\ i \notin heap
  <1> USE DEF IdleBooks
  <1>1. i \in Items
    BY OwnersAreItems
  <1>2. mem[i] = "live" /\ i \in pending /\ i \notin heap
    BY <1>1 DEF ItemBooks, OwnersOf, FlagsOf
  <1>3. Cardinality(MessageOwned) > 0 /\ Cardinality(MessageOwned) \in Nat
        /\ Cardinality(Releasing) \in Nat
    BY CountedFinite, Counting
  <1>4. posted # 0
    BY <1>3 DEF MessagesCounted
  <1> QED BY <1>1, <1>2, <1>4 DEF TableEnd, TypeOK

(* The moves keep the books.                                               *)
LEMMA MovesKeep ==
    ASSUME IdleBooks, Post \/ \E w \in Workers : RunMessage(w) \/ Cancel(w)
    PROVE  IdleBooks'
  <1> USE DEF IdleBooks
  <1>0. UNCHANGED <<mem, expireAt, removed, detached, pending, heap, cap, hmap, posted,
                    destroy_requested, table, clock, phase, drain, held, retired>>
    BY DEF Post, RunMessage, Cancel, itemVars, indexVars, tableVars, userVars
  <1>1. /\ MessageOwned' = MessageOwned /\ Releasing' = Releasing /\ OnePlace'
        /\ TypeOK' /\ Threads' /\ fault' = FALSE
    <2>1. CASE Post
      <3> DEFINE i == Head(batch)
      <3>1. /\ pc[Timer].at = "idle" /\ batch # << >> /\ batch' = Tail(batch)
            /\ fault' = (fault \/ Bad(i))
            /\ \/ /\ phase[Owner[i]] = "running"
                  /\ queue' = [queue EXCEPT ![Owner[i]] = Append(@, i)]
                  /\ UNCHANGED <<pc, refusals>>
               \/ /\ refusals' = IF phase[Owner[i]] = "running" THEN refusals + 1 ELSE refusals
                  /\ pc' = [pc EXCEPT ![Timer] = [at |-> "cleanup", i |-> i, old |-> 0]]
                  /\ UNCHANGED queue
        BY <2>1 DEF Post, At, Goto
      <3>2. i \in Items /\ i \in Entries(batch) /\ Owner[i] \in Workers /\ Timer \in Workers
        BY <3>1, EntriesHead, IdleAssumption, SMTT(30) DEF TypeOK
      <3>3. i \in MessageOwned
        BY <3>2 DEF MessageOwned
      <3>4. fault' = FALSE
        BY <3>1, <3>3, OwnedIsLive DEF Bad
      <3>5. refusals' \in Nat
        BY <3>1 DEF TypeOK
      <3>6. /\ MessageOwned' = MessageOwned /\ Releasing' = Releasing /\ OnePlace'
            /\ batch' \in Seq(Items) /\ queue' \in [Workers -> Seq(Items)]
            /\ pc' \in [Workers -> [at : SettlingAt \cup {"idle", "release"},
                                    i : Items \cup {NoItem}, old : 0 .. MaxTime]]
        <4>1. 0 \in 0 .. MaxTime /\ "cleanup" \in SettlingAt
          BY IdleAssumption DEF SettlingAt
        <4>2. CASE UNCHANGED pc
          <5>1. queue' = [queue EXCEPT ![Owner[i]] = Append(@, i)] \/ UNCHANGED queue
            BY <3>1
          <5>2. queue' = [queue EXCEPT ![Owner[i]] = Append(@, i)]
            <6>1. pc'[Timer] = pc[Timer] /\ pc[Timer].at = "idle"
              BY <3>1, <4>2
            <6>2. pc' # [pc EXCEPT ![Timer] = [at |-> "cleanup", i |-> i, old |-> 0]]
              BY <3>2, <6>1 DEF TypeOK
            <6> QED BY <3>1, <6>2
          <5> QED BY <3>1, <3>2, <4>2, <5>2, BatchToQueue DEF TypeOK
        <4>3. CASE /\ pc' = [pc EXCEPT ![Timer] = [at |-> "cleanup", i |-> i, old |-> 0]]
                   /\ UNCHANGED queue
          BY <3>1, <3>2, <4>1, <4>3, TakeInHand
        <4> QED BY <3>1, <4>2, <4>3
      <3>7. TypeOK'
        BY <1>0, <3>4, <3>5, <3>6 DEF TypeOK
      <3>8. Threads'
        <4>1. phase[Timer] \in {"running", "closing"}
          BY <3>1 DEF Threads
        <4>2. \A w \in Workers : queue'[w] = queue[w] \/ phase[w] = "running"
          BY <3>1, <3>2 DEF TypeOK
        <4>3. \A w \in Workers : pc'[w] = pc[w] \/ (w = Timer /\ pc'[w].at = "cleanup")
          BY <3>1, <3>2, SMTT(30) DEF TypeOK
        <4> QED BY <1>0, <3>1, <4>1, <4>2, <4>3 DEF Threads
      <3> QED BY <3>4, <3>6, <3>7, <3>8
    <2>2. ASSUME NEW w \in Workers, RunMessage(w) \/ Cancel(w)
          PROVE  /\ MessageOwned' = MessageOwned /\ Releasing' = Releasing /\ OnePlace'
                 /\ TypeOK' /\ Threads' /\ fault' = FALSE
      <3> DEFINE i == Head(queue[w])
      <3>1. /\ pc[w].at = "idle" /\ queue[w] # << >> /\ phase[w] \in {"running", "closing"}
            /\ queue' = [queue EXCEPT ![w] = Tail(@)]
            /\ UNCHANGED <<batch, refusals>>
            /\ fault' = (fault \/ Bad(i)) \/ fault' = fault
        BY <2>2 DEF RunMessage, Cancel, Free, At
      <3>2. i \in Items /\ i \in Entries(queue[w])
        BY <3>1, EntriesHead DEF TypeOK
      <3>3. i \in MessageOwned
        BY <3>2 DEF MessageOwned, Queued
      <3>4. fault' = FALSE
        BY <3>1, <3>3, OwnedIsLive DEF Bad
      <3>5. \E a \in SettlingAt, o \in 0 .. MaxTime :
               /\ pc' = [pc EXCEPT ![w] = [at |-> a, i |-> i, old |-> o]]
               /\ a = "drop" => i \in removed
        <4>1. CASE RunMessage(w)
          <5> DEFINE a == CASE ~Attached(i) -> "drop"
                            [] Attached(i) /\ expireAt[i] > clock[w] -> "renewed"
                            [] OTHER -> "cb"
          <5>1. pc' = [pc EXCEPT ![w] = [at |-> a, i |-> i, old |-> expireAt[i]]]
            BY <4>1 DEF RunMessage
          <5>2. a \in SettlingAt /\ (a = "drop" => ~Attached(i))
            BY DEF SettlingAt
          <5>3. expireAt[i] \in 0 .. MaxTime
            BY <3>2 DEF TypeOK
          <5>4. ~Attached(i) => i \in removed
            BY <3>2 DEF Attached, ItemBooks, FlagsOf
          <5> QED BY <5>1, <5>2, <5>3, <5>4
        <4>2. CASE Cancel(w)
          <5>1. pc' = [pc EXCEPT ![w] = [at |-> "cleanup", i |-> i, old |-> 0]]
            BY <4>2 DEF Cancel, Goto
          <5>2. 0 \in 0 .. MaxTime /\ "cleanup" \in SettlingAt
            BY IdleAssumption DEF SettlingAt
          <5> QED BY <5>1, <5>2
        <4> QED BY <2>2, <4>1, <4>2
      <3>6. PICK a \in SettlingAt, o \in 0 .. MaxTime :
               /\ pc' = [pc EXCEPT ![w] = [at |-> a, i |-> i, old |-> o]]
               /\ a = "drop" => i \in removed
        BY <3>5
      <3> HIDE DEF i
      <3>7. /\ MessageOwned' = MessageOwned /\ Releasing' = Releasing /\ OnePlace'
            /\ batch' \in Seq(Items) /\ queue' \in [Workers -> Seq(Items)]
            /\ pc' \in [Workers -> [at : SettlingAt \cup {"idle", "release"},
                                    i : Items \cup {NoItem}, old : 0 .. MaxTime]]
        BY <3>1, <3>2, <3>6, TakeInHand DEF i
      <3>8. TypeOK'
        BY <1>0, <3>1, <3>4, <3>7 DEF TypeOK
      <3>9. Threads'
        <4>1. \A x \in Workers : x # w => pc'[x] = pc[x] /\ queue'[x] = queue[x]
          BY <3>1, <3>6 DEF TypeOK
        <4>2. pc'[w].at = a /\ pc'[w].i = i
          BY <3>6 DEF TypeOK
        <4> QED BY <1>0, <3>1, <3>6, <4>1, <4>2 DEF Threads
      <3> QED BY <3>4, <3>7, <3>8, <3>9
    <2> QED BY <2>1, <2>2
  <1>2. Draining' = Draining
    BY <1>0, DrainingSame
  <1>3. MessagesCounted' /\ TableEnd' /\ SlotsKept' /\ KeysUnique'
    BY <1>0, <1>1 DEF MessagesCounted, TableEnd, SlotsKept, KeysUnique
  <1>4. ASSUME NEW j \in Items PROVE ItemBooks(j)'
    BY <1>0, <1>1, <1>2 DEF ItemBooks, OwnersOf, FlagsOf
  <1> QED BY <1>1, <1>3, <1>4

-----------------------------------------------------------------------------
(* A worker lets go of a message's item, and then of the table.            *)
LEMMA HandsEmptied ==
    ASSUME TypeOK, OnePlace, NEW w \in Settling,
           pc' = [pc EXCEPT ![w] = [at |-> "release", i |-> NoItem, old |-> 0]],
           UNCHANGED <<batch, queue>>
    PROVE  /\ MessageOwned' = MessageOwned \ {pc[w].i} /\ pc[w].i \in MessageOwned
           /\ Releasing' = Releasing \cup {w} /\ w \notin Releasing
           /\ OnePlace'
           /\ pc' \in [Workers -> [at : SettlingAt \cup {"idle", "release"},
                                   i : Items \cup {NoItem}, old : 0 .. MaxTime]]
  <1> DEFINE i == pc[w].i
  <1>0. w \in Workers /\ pc[w].at \in SettlingAt
    BY DEF Settling
  <1>1. /\ pc'[w] = [at |-> "release", i |-> NoItem, old |-> 0]
        /\ \A x \in Workers \ {w} : pc'[x] = pc[x]
    BY <1>0 DEF TypeOK
  <1>2. pc' \in [Workers -> [at : SettlingAt \cup {"idle", "release"},
                             i : Items \cup {NoItem}, old : 0 .. MaxTime]]
    <2>1. 0 \in 0 .. MaxTime
      BY IdleAssumption
    <2> QED BY <1>0, <2>1 DEF TypeOK
  <1>3. Settling' = Settling \ {w} /\ Settling \subseteq Workers
    BY <1>0, <1>1 DEF Settling, SettlingAt
  <1>4. Releasing' = Releasing \cup {w} /\ w \notin Releasing
    BY <1>0, <1>1 DEF Releasing, At, SettlingAt
  <1> HIDE DEF i
  <1>5. {pc'[x].i : x \in Settling'} = {pc[x].i : x \in Settling} \ {i}
    BY <1>1, <1>3 DEF OnePlace, i
  <1>6. i \notin Entries(batch) /\ i \notin Queued
    BY DEF OnePlace, Queued, i
  <1>7. Queued' = Queued
    BY DEF Queued
  <1>8. MessageOwned' = MessageOwned \ {i} /\ i \in MessageOwned
    <2>1. i \in {pc[x].i : x \in Settling}
      BY DEF i
    <2> QED BY <1>5, <1>6, <1>7, <2>1 DEF MessageOwned
  <1>9. OnePlace'
    <2>1. \A x \in Settling' : pc'[x] = pc[x] /\ x \in Settling
      BY <1>1, <1>3
    <2> QED BY <2>1 DEF OnePlace
  <1> QED BY <1>2, <1>4, <1>8, <1>9 DEF i

(* The item goes back to the heap, is freed because it was removed, or is  *)
(* taken out of the map and freed.                                         *)
LEMMA SettleKeeps ==
    ASSUME IdleBooks, NEW w \in Settling, NEW restore \in BOOLEAN,
           RestoreOrFree(pc[w].i, restore), Goto(w, "release", NoItem),
           UNCHANGED <<expireAt, detached, cap, tableVars, clock, batch, queue, phase, drain,
                       retired, refusals>>,
           restore => pc[w].i \notin removed,
           \/ /\ restore \/ pc[w].i \in removed \/ destroy_requested
              /\ UNCHANGED <<hmap, removed>>
              /\ held' = held \/ (~restore /\ held' = held \ {pc[w].i})
           \/ /\ ~restore /\ hmap' = hmap \ {pc[w].i} /\ removed' = removed \cup {pc[w].i}
              /\ held' = held \ {pc[w].i}
    PROVE  IdleBooks'
  <1> USE DEF IdleBooks
  <1> DEFINE i == pc[w].i
  <1>0. w \in Workers /\ pc[w].at \in SettlingAt
    BY DEF Settling
  <1>1. /\ MessageOwned' = MessageOwned \ {i} /\ i \in MessageOwned
        /\ Releasing' = Releasing \cup {w} /\ w \notin Releasing
        /\ OnePlace'
        /\ pc' \in [Workers -> [at : SettlingAt \cup {"idle", "release"},
                                i : Items \cup {NoItem}, old : 0 .. MaxTime]]
    BY HandsEmptied DEF Goto
  <1>2. i \in Items /\ mem[i] = "live" /\ table = "live" /\ i \in pending /\ i \notin heap
    BY <1>1, OwnedIsLive
  <1>3. pc'[w].at = "release" /\ \A x \in Workers \ {w} : pc'[x] = pc[x]
    BY <1>0 DEF Goto, TypeOK
  <1> HIDE DEF i
  <1>4. /\ IsFiniteSet(MessageOwned) /\ IsFiniteSet(Releasing) /\ IsFiniteSet(heap)
        /\ Cardinality(MessageOwned) \in Nat /\ Cardinality(Releasing) \in Nat
        /\ Cardinality(heap) \in Nat
    BY CountedFinite, FS_CardinalityType
  <1>5. /\ Cardinality(MessageOwned') = Cardinality(MessageOwned) - 1
        /\ Cardinality(Releasing') = Cardinality(Releasing) + 1
        /\ Cardinality(MessageOwned) > 0
    BY <1>1, <1>4, Counting
  <1>6. restore => ~destroy_requested /\ i \in hmap
    BY <1>1, <1>2 DEF ItemBooks, FlagsOf, i
  <1>7. Cardinality(heap) < cap
    BY <1>2, <1>4, <1>5 DEF SlotsKept, TypeOK
  <1>8. /\ restore => /\ pending' = pending \ {i} /\ heap' = heap \cup {i} /\ mem' = mem
        /\ ~restore => /\ mem' = [mem EXCEPT ![i] = "freed"] /\ UNCHANGED <<pending, heap>>
        /\ fault' = FALSE
    <2>1. ~(Cardinality(heap) >= cap)
      BY <1>4, <1>7 DEF TypeOK
    <2> QED BY <1>2, <2>1 DEF RestoreOrFree, TableBad, Bad, i
  <1>9. TypeOK'
    <2>1. mem' \in [Items -> {"none", "live", "freed"}] /\ heap' \in SUBSET Items
          /\ pending' \in SUBSET Items
      BY <1>2, <1>8 DEF TypeOK
    <2>2. hmap' \in SUBSET Items /\ removed' \in SUBSET Items /\ held' \in SUBSET Items
      BY <1>2 DEF TypeOK, i
    <2> QED BY <1>1, <1>8, <2>1, <2>2 DEF TypeOK, tableVars
  <1>10. MessagesCounted'
    BY <1>4, <1>5 DEF MessagesCounted, tableVars
  <1>11. SlotsKept'
    <2>1. CASE restore
      <3>1. Cardinality(heap') = Cardinality(heap) + 1
        BY <1>2, <1>4, <1>8, <2>1, Counting
      <3> QED BY <1>2, <1>4, <1>5, <3>1 DEF SlotsKept, tableVars, TypeOK
    <2>2. CASE ~restore
      BY <1>2, <1>4, <1>5, <1>8, <2>2 DEF SlotsKept, tableVars, TypeOK
    <2> QED BY <2>1, <2>2
  <1>12. TableEnd'
    BY <1>6, <1>8 DEF TableEnd, tableVars
  <1>13. KeysUnique'
    BY DEF KeysUnique
  <1>14. Threads'
    BY <1>0, <1>3 DEF Threads, tableVars, SettlingAt
  <1>15. ASSUME NEW j \in Items PROVE ItemBooks(j)'
    <2>1. ItemBooks(j) /\ ItemBooks(i)
      BY <1>2
    <2>2. Draining' = Draining
      BY DrainingSame
    <2>3. CASE j = i
      <3>1. CASE restore
        <4>1. UNCHANGED <<hmap, removed, held>>
          BY <3>1
        <4> QED BY <1>1, <1>2, <1>6, <1>8, <2>1, <2>2, <2>3, <3>1, <4>1
                DEF ItemBooks, OwnersOf, FlagsOf, tableVars, i
      <3>2. CASE ~restore
        <4>1. mem'[i] = "freed" /\ i \notin heap' /\ i \notin MessageOwned' /\ i \notin Draining'
          BY <1>1, <1>2, <1>8, <2>1, <2>2, <3>2 DEF TypeOK, ItemBooks, OwnersOf
        <4>2. i \in detached' => i \in removed'
          BY <2>1 DEF ItemBooks, FlagsOf, i
        <4>3. ~destroy_requested => i \notin hmap'
          BY <1>1, <2>1, <3>2 DEF ItemBooks, FlagsOf, i
        <4>4. ~retired /\ i \in held' /\ phase[Owner[i]] # "drained" => i \in hmap'
          BY <1>1, <2>1, <3>2, <4>3 DEF ItemBooks, FlagsOf, i, Threads
        <4> QED BY <2>3, <4>1, <4>2, <4>3, <4>4 DEF ItemBooks, OwnersOf, FlagsOf, tableVars
      <3> QED BY <3>1, <3>2
    <2>4. CASE j # i
      <3>1. /\ mem'[j] = mem[j] /\ (j \in heap' <=> j \in heap) /\ (j \in pending' <=> j \in pending)
            /\ (j \in MessageOwned' <=> j \in MessageOwned)
        BY <1>1, <1>8, <2>4 DEF TypeOK
      <3>2. /\ (j \in hmap' <=> j \in hmap) /\ (j \in removed' <=> j \in removed)
            /\ (j \in held' <=> j \in held)
        BY <2>4 DEF i
      <3> QED BY <2>1, <2>2, <3>1, <3>2 DEF ItemBooks, OwnersOf, FlagsOf, tableVars
    <2> QED BY <2>3, <2>4
  <1> QED BY <1>1, <1>8, <1>9, <1>10, <1>11, <1>12, <1>13, <1>14, <1>15

(* The three ways in which a message ends.                                 *)
LEMMA MessageEnds ==
    ASSUME IdleBooks, NEW w \in Workers, Settle(w) \/ Cleanup(w) \/ Return(w)
    PROVE  IdleBooks'
  <1> USE DEF IdleBooks
  <1> DEFINE i == pc[w].i
  <1>0. w \in Settling
    BY DEF Settle, Cleanup, Return, Settling, SettlingAt, At
  <1>1. i \in Items /\ i \in MessageOwned
    BY <1>0 DEF OnePlace, MessageOwned
  <1>2. /\ i \in detached => i \in removed
        /\ ~destroy_requested => (i \in hmap <=> i \notin removed)
        /\ destroy_requested => i \in removed
    BY <1>1 DEF ItemBooks, FlagsOf
  <1>3. CASE Settle(w)
    <2> DEFINE r == At(w, "renewed") /\ Attached(i)
    <2>1. /\ RestoreOrFree(i, r) /\ Goto(w, "release", NoItem)
          /\ UNCHANGED <<expireAt, removed, detached, cap, hmap, tableVars, clock, batch, queue,
                         phase, drain, held, retired, refusals>>
      BY <1>3 DEF Settle, userVars
    <2>2. r \in BOOLEAN /\ (r => i \notin removed) /\ (~r => i \in removed)
      <3>1. At(w, "drop") => i \in removed
        BY DEF At, Threads
      <3>2. At(w, "drop") \/ At(w, "renewed")
        BY <1>3 DEF Settle
      <3> QED BY <1>2, <3>1, <3>2 DEF Attached
    <2> HIDE DEF r
    <2> QED BY <1>0, <2>1, <2>2, SettleKeeps
  <1>4. CASE Cleanup(w)
    <2> DEFINE r == ~destroy_requested /\ Attached(i) /\ i \in hmap
    <2>1. /\ RestoreOrFree(i, r) /\ Goto(w, "release", NoItem)
          /\ UNCHANGED <<expireAt, removed, detached, cap, hmap, tableVars, clock, batch, queue,
                         phase, drain, held, retired, refusals>>
      BY <1>4 DEF Cleanup, userVars
    <2>2. r \in BOOLEAN /\ (r => i \notin removed) /\ (~r => i \in removed \/ destroy_requested)
      BY <1>2 DEF Attached
    <2> HIDE DEF r
    <2> QED BY <1>0, <2>1, <2>2, SettleKeeps
  <1>5. CASE Return(w)
    <2> DEFINE keep == pc[w].old # expireAt[i] /\ expireAt[i] > clock[w]
               r == Attached(i) /\ keep
    <2>1. /\ RestoreOrFree(i, r) /\ Goto(w, "release", NoItem)
          /\ hmap' = (IF Attached(i) /\ ~keep THEN hmap \ {i} ELSE hmap)
          /\ removed' = (IF Attached(i) /\ ~keep THEN removed \cup {i} ELSE removed)
          /\ held' = (IF r THEN held ELSE held \ {i})
          /\ UNCHANGED <<expireAt, detached, cap, tableVars, clock, batch, queue, phase, drain,
                         retired, refusals>>
      BY <1>5 DEF Return
    <2>2. r \in BOOLEAN /\ keep \in BOOLEAN /\ (r <=> Attached(i) /\ keep)
      OBVIOUS
    <2>3. (Attached(i) <=> i \notin removed)
      BY <1>2 DEF Attached
    <2> HIDE DEF r, keep
    <2>4. CASE r
      BY <1>0, <2>1, <2>2, <2>3, <2>4, SettleKeeps
    <2>5. CASE ~r /\ ~Attached(i)
      BY <1>0, <2>1, <2>2, <2>3, <2>5, SettleKeeps
    <2>6. CASE ~r /\ Attached(i)
      BY <1>0, <2>1, <2>2, <2>3, <2>6, SettleKeeps
    <2> QED BY <2>2, <2>4, <2>5, <2>6
  <1> QED BY <1>3, <1>4, <1>5

(* The reference on the table goes last.                                   *)
LEMMA ReleaseKeeps ==
    ASSUME IdleBooks, NEW w \in Workers, Release(w)
    PROVE  IdleBooks'
  <1> USE DEF IdleBooks
  <1>0. /\ pc[w].at = "release"
        /\ posted' = IF posted = 0 THEN 0 ELSE posted - 1
        /\ fault' = (fault \/ TableBad \/ posted = 0)
        /\ table' = IF posted = 1 /\ destroy_requested THEN "freed" ELSE table
        /\ pc' = [pc EXCEPT ![w] = [at |-> "idle", i |-> NoItem, old |-> 0]]
        /\ UNCHANGED <<mem, expireAt, removed, detached, pending, heap, cap, hmap,
                       destroy_requested, clock, batch, queue, phase, drain, held, retired,
                       refusals>>
    BY DEF Release, At, Idle, itemVars, indexVars, userVars
  <1>1. /\ pc'[w] = [at |-> "idle", i |-> NoItem, old |-> 0]
        /\ \A x \in Workers \ {w} : pc'[x] = pc[x]
        /\ pc' \in [Workers -> [at : SettlingAt \cup {"idle", "release"},
                                i : Items \cup {NoItem}, old : 0 .. MaxTime]]
    <2>1. 0 \in 0 .. MaxTime
      BY IdleAssumption
    <2> QED BY <1>0, <2>1 DEF TypeOK
  <1>2. Settling' = Settling /\ \A x \in Settling : pc'[x] = pc[x]
    BY <1>0, <1>1 DEF Settling, SettlingAt
  <1>3. Releasing' = Releasing \ {w} /\ w \in Releasing
    BY <1>0, <1>1 DEF Releasing, At
  <1>4. MessageOwned' = MessageOwned
    <2>1. {pc'[x].i : x \in Settling'} = {pc[x].i : x \in Settling}
      BY <1>2
    <2> QED BY <1>0, <2>1 DEF MessageOwned, Queued
  <1>5. OnePlace'
    BY <1>0, <1>2 DEF OnePlace
  <1>6. /\ IsFiniteSet(Releasing) /\ Cardinality(MessageOwned) \in Nat
        /\ Cardinality(Releasing) \in Nat /\ Cardinality(Releasing) > 0
        /\ Cardinality(Releasing') = Cardinality(Releasing) - 1
    <2>1. IsFiniteSet(MessageOwned) /\ IsFiniteSet(Releasing)
      BY CountedFinite
    <2> QED BY <1>3, <2>1, FS_CardinalityType, Counting
  <1>7. posted > 0 /\ posted' = posted - 1 /\ posted' \in Nat
    BY <1>0, <1>6 DEF MessagesCounted
  <1>8. table = "live"
    BY <1>7 DEF TableEnd, TypeOK
  <1>9. fault' = FALSE
    <2>1. posted # 0
      BY <1>7 DEF TypeOK
    <2> QED BY <1>0, <1>8, <2>1, Zenon DEF TableBad
  <1>10. MessagesCounted'
    BY <1>4, <1>6, <1>7 DEF MessagesCounted
  <1>11. TypeOK'
    BY <1>0, <1>1, <1>7, <1>8, <1>9 DEF TypeOK
  <1>12. SlotsKept' /\ KeysUnique'
    BY <1>0, <1>4, <1>8 DEF SlotsKept, KeysUnique
  <1>13. TableEnd'
    BY <1>0, <1>7, <1>8 DEF TableEnd
  <1>14. Threads'
    BY <1>0, <1>1 DEF Threads
  <1>15. ASSUME NEW j \in Items PROVE ItemBooks(j)'
    <2>1. Draining' = Draining
      BY <1>0, DrainingSame
    <2> QED BY <1>0, <1>4, <2>1 DEF ItemBooks, OwnersOf, FlagsOf
  <1> QED BY <1>5, <1>9, <1>10, <1>11, <1>12, <1>13, <1>14, <1>15

-----------------------------------------------------------------------------
(* The timer's scan: a due item that was removed is freed, the others are  *)
(* owned by the messages to be posted.                                     *)
LEMMA ScanKeeps ==
    ASSUME IdleBooks, NEW S \in SUBSET Items, Scan(S)
    PROVE  IdleBooks'
  <1> USE DEF IdleBooks
  <1> DEFINE R == S \ removed
  <1>0. /\ batch = << >> /\ phase[Timer] = "running" /\ ~destroy_requested
        /\ S \in SUBSET heap /\ heap' = heap \ S
        /\ mem' = [i \in Items |-> IF i \in S \cap removed THEN "freed" ELSE mem[i]]
        /\ pending' = pending \cup R /\ posted' = posted + Cardinality(R)
        /\ batch' \in Orders(R)
        /\ fault' = (fault \/ TableBad \/ \E i \in S : Bad(i))
        /\ UNCHANGED <<expireAt, removed, detached, cap, hmap, destroy_requested, table, clock,
                       queue, phase, pc, drain, held, retired, refusals>>
    BY DEF Scan, Free, Due, userVars
  <1>1. R \in SUBSET Items /\ heap \in SUBSET Items
    BY DEF TypeOK
  <1>2. batch' \in Seq(Items) /\ Entries(batch') = R /\ Distinct(batch')
    BY <1>0, <1>1, EntriesOrdered
  <1>3. \A i \in S : mem[i] = "live" /\ i \notin MessageOwned /\ i \notin Draining
    BY <1>0, <1>1 DEF ItemBooks, OwnersOf
  <1>4. table = "live"
    BY <1>0 DEF TableEnd, TypeOK
  <1>5. fault' = FALSE
    BY <1>0, <1>3, <1>4 DEF TableBad, Bad
  <1>6. Settling' = Settling /\ Releasing' = Releasing /\ Queued' = Queued
    BY <1>0 DEF Settling, Releasing, At, Queued
  <1> HIDE DEF R
  <1>7. MessageOwned' = MessageOwned \cup R
    <2>1. Entries(batch) = {}
      BY <1>0 DEF Entries
    <2> QED BY <1>0, <1>2, <1>6, <2>1 DEF MessageOwned
  <1>8. OnePlace'
    <2>1. /\ \A w \in Settling : pc[w].i \notin R
          /\ \A w \in Workers : Entries(queue[w]) \cap R = {}
      BY <1>3 DEF MessageOwned, Queued, R
    <2> QED BY <1>0, <1>2, <1>6, <2>1 DEF OnePlace
  <1>9. /\ IsFiniteSet(heap) /\ IsFiniteSet(MessageOwned) /\ IsFiniteSet(R)
        /\ Cardinality(heap) \in Nat /\ Cardinality(MessageOwned) \in Nat
        /\ Cardinality(R) \in Nat /\ Cardinality(Releasing) \in Nat
    <2>1. IsFiniteSet(heap) /\ IsFiniteSet(MessageOwned) /\ IsFiniteSet(Releasing)
      BY CountedFinite
    <2>2. IsFiniteSet(R)
      BY <1>1, IdleAssumption, FS_Subset
    <2> QED BY <2>1, <2>2, FS_CardinalityType
  <1>10. Cardinality(MessageOwned') = Cardinality(MessageOwned) + Cardinality(R)
    <2>1. MessageOwned \cap R = {}
      BY <1>3 DEF R
    <2> QED BY <1>7, <1>9, <2>1, Joining
  <1>11. Cardinality(heap') + Cardinality(R) <= Cardinality(heap) /\ Cardinality(heap') \in Nat
    <2>1. heap' \cup R \in SUBSET heap /\ heap' \cap R = {} /\ heap' \in SUBSET heap
      BY <1>0 DEF R
    <2>2. IsFiniteSet(heap') /\ Cardinality(heap') \in Nat
      BY <1>9, <2>1, FS_Subset, FS_CardinalityType
    <2>3. Cardinality(heap' \cup R) = Cardinality(heap') + Cardinality(R)
      BY <1>9, <2>1, <2>2, Joining
    <2>4. Cardinality(heap' \cup R) <= Cardinality(heap)
      BY <1>9, <2>1, FS_Subset
    <2> QED BY <2>2, <2>3, <2>4
  <1>12. MessagesCounted' /\ SlotsKept'
    BY <1>0, <1>4, <1>6, <1>9, <1>10, <1>11, SMTT(30) DEF MessagesCounted, SlotsKept, TypeOK
  <1>13. TypeOK'
    <2>1. posted' \in Nat
      BY <1>0, <1>9 DEF TypeOK
    <2>2. mem' \in [Items -> {"none", "live", "freed"}]
      BY <1>0 DEF TypeOK
    <2> QED BY <1>0, <1>1, <1>2, <1>5, <2>1, <2>2 DEF TypeOK
  <1>14. TableEnd' /\ KeysUnique'
    BY <1>0, <1>4 DEF TableEnd, KeysUnique
  <1>15. Threads'
    BY <1>0 DEF Threads
  <1>16. ASSUME NEW j \in Items PROVE ItemBooks(j)'
    <2>1. ItemBooks(j)
      OBVIOUS
    <2>2. Draining' = Draining
      BY <1>0, DrainingSame
    <2>3. mem'[j] = IF j \in S \cap removed THEN "freed" ELSE mem[j]
      BY <1>0
    <2>4. CASE j \in S /\ j \in removed
      BY <1>0, <1>3, <1>7, <2>1, <2>2, <2>3, <2>4 DEF ItemBooks, OwnersOf, FlagsOf, R
    <2>5. CASE j \in S /\ j \notin removed
      BY <1>0, <1>3, <1>7, <2>1, <2>2, <2>3, <2>5 DEF ItemBooks, OwnersOf, FlagsOf, R
    <2>6. CASE j \notin S
      BY <1>0, <1>7, <2>1, <2>2, <2>3, <2>6 DEF ItemBooks, OwnersOf, FlagsOf, R
    <2> QED BY <2>4, <2>5, <2>6
  <1> QED BY <1>5, <1>8, <1>12, <1>13, <1>14, <1>15, <1>16

-----------------------------------------------------------------------------
(* Steps of a shutdown, and time, that leave items and messages alone.     *)
LEMMA QuietKeeps ==
    ASSUME IdleBooks,
           \/ \E w \in Workers : Close(w) \/ Quiesce(w) \/ Tick(w)
           \/ Retire \/ UNCHANGED vars
    PROVE  IdleBooks'
  <1> USE DEF IdleBooks
  <1>0. UNCHANGED <<mem, expireAt, removed, detached, pending, heap, cap, hmap, posted,
                    destroy_requested, table, batch, queue, pc, drain, held, refusals, fault>>
    BY DEF Close, Quiesce, Tick, Retire, vars, itemVars, indexVars, tableVars, userVars
  <1>1. /\ MessageOwned' = MessageOwned /\ Draining' = Draining /\ Releasing' = Releasing
        /\ Settling' = Settling /\ OnePlace'
    BY <1>0, PlacesSame, DrainingSame
  <1>2. clock' \in [Workers -> 0 .. MaxTime]
    <2>1. ASSUME NEW w \in Workers, Tick(w) PROVE clock' \in [Workers -> 0 .. MaxTime]
      <3>1. clock[w] \in 0 .. MaxTime /\ clock[w] < MaxTime /\ clock' = [clock EXCEPT ![w] = @ + 1]
        BY <2>1 DEF Tick, TypeOK
      <3>2. clock[w] + 1 \in 0 .. MaxTime
        BY <3>1, IdleAssumption
      <3> QED BY <3>1, <3>2 DEF TypeOK
    <2>2. CASE UNCHANGED clock
      BY <2>2 DEF TypeOK
    <2> QED BY <2>1, <2>2 DEF Close, Quiesce, Retire, vars
  <1>3. /\ phase' \in [Workers -> {"running", "closing", "quiesced", "drained"}]
        /\ \A w \in Workers : \/ phase'[w] = phase[w]
                              \/ phase[w] = "running" /\ phase'[w] = "closing"
                              \/ /\ phase[w] = "closing" /\ phase'[w] = "quiesced" /\ Free(w)
                                 /\ queue[w] = << >>
    <2>1. ASSUME NEW w \in Workers, Close(w) \/ Quiesce(w)
          PROVE  /\ phase' \in [Workers -> {"running", "closing", "quiesced", "drained"}]
                 /\ \A x \in Workers : \/ phase'[x] = phase[x]
                                       \/ phase[x] = "running" /\ phase'[x] = "closing"
                                       \/ /\ phase[x] = "closing" /\ phase'[x] = "quiesced"
                                          /\ Free(x) /\ queue[x] = << >>
      BY <2>1 DEF Close, Quiesce, TypeOK
    <2>2. CASE UNCHANGED phase
      BY <2>2 DEF TypeOK
    <2> QED BY <2>1, <2>2 DEF Tick, Retire, vars
  <1>4. retired' \in BOOLEAN /\ (retired => retired')
    BY DEF Close, Quiesce, Tick, Retire, vars, userVars, TypeOK
  <1>5. retired' = retired \/ (\A w \in Workers : drain[w] = {})
    BY DEF Close, Quiesce, Tick, Retire, vars, userVars
  <1>6. TypeOK'
    BY <1>0, <1>2, <1>3, <1>4 DEF TypeOK
  <1>7. MessagesCounted' /\ SlotsKept' /\ TableEnd' /\ KeysUnique'
    BY <1>0, <1>1 DEF MessagesCounted, SlotsKept, TableEnd, KeysUnique
  <1>8. Threads'
    <2>1. batch' # << >> => phase'[Timer] \in {"running", "closing"}
      BY <1>0, <1>3, IdleAssumption DEF Threads, Free
    <2>2. ASSUME NEW w \in Workers
          PROVE  /\ pc'[w].at # "idle" => phase'[w] \in {"running", "closing"}
                 /\ pc'[w].at = "drop" => pc'[w].i \in removed'
                 /\ phase'[w] \in {"quiesced", "drained"} => queue'[w] = << >>
                 /\ drain'[w] # {} => phase'[w] = "drained" /\ ~retired'
                 /\ \A i \in drain'[w] : Owner[i] = w
      BY <1>0, <1>3, <1>5 DEF Threads, Free, At
    <2> QED BY <1>0, <1>4, <2>1, <2>2 DEF Threads
  <1>9. ASSUME NEW j \in Items PROVE ItemBooks(j)'
    <2>1. phase'[Owner[j]] # "drained" => phase[Owner[j]] # "drained"
      BY <1>3, IdleAssumption
    <2> QED BY <1>0, <1>1, <1>4, <2>1 DEF ItemBooks, OwnersOf, FlagsOf
  <1> QED BY <1>0, <1>1, <1>6, <1>7, <1>8, <1>9

(* A worker drains its items: those whose message is out are detached.     *)
LEMMA DrainKeeps ==
    ASSUME IdleBooks, NEW w \in Workers, Drain(w)
    PROVE  IdleBooks'
  <1> USE DEF IdleBooks
  <1> DEFINE mine == {i \in hmap : i \notin removed /\ Owner[i] = w}
  <1>0. /\ phase[w] = "quiesced" /\ drain[w] = {} /\ ~retired
        /\ fault' = (fault \/ TableBad \/ \E i \in mine : Bad(i))
        /\ hmap' = hmap \ mine /\ removed' = removed \cup mine
        /\ detached' = detached \cup (mine \cap pending)
        /\ heap' = heap \ mine
        /\ drain' = [drain EXCEPT ![w] = mine \ pending]
        /\ phase' = [phase EXCEPT ![w] = "drained"]
        /\ UNCHANGED <<mem, expireAt, pending, cap, posted, destroy_requested, table, clock,
                       batch, queue, pc, held, retired, refusals>>
    BY DEF Drain, Free, tableVars, userVars
  <1>1. table = "live" /\ ~destroy_requested
    BY <1>0, UserTable
  <1>2. \A i \in mine : /\ i \in Items /\ i \in hmap /\ i \in held /\ mem[i] = "live" /\ Owner[i] = w
                        /\ i \in heap \/ i \in MessageOwned
                        /\ i \notin Draining /\ (i \in pending <=> i \in MessageOwned)
    BY <1>1 DEF TypeOK, ItemBooks, OwnersOf, FlagsOf
  <1>3. /\ MessageOwned' = MessageOwned /\ Releasing' = Releasing
        /\ Settling' = Settling /\ OnePlace'
    BY <1>0, PlacesSame
  <1> HIDE DEF mine
  <1>4. mine \in SUBSET Items
    BY <1>2
  <1>5. /\ drain'[w] = mine \ pending /\ phase'[w] = "drained"
        /\ \A x \in Workers \ {w} : drain'[x] = drain[x] /\ phase'[x] = phase[x]
    BY <1>0 DEF TypeOK
  <1>6. Draining' = Draining \cup (mine \ pending)
    BY <1>0, <1>5 DEF Draining
  <1>7. fault' = FALSE
    BY <1>0, <1>1, <1>2 DEF TableBad, Bad
  <1>8. TypeOK'
    BY <1>0, <1>4, <1>7 DEF TypeOK
  <1>9. Cardinality(heap') <= Cardinality(heap) /\ Cardinality(heap') \in Nat
        /\ Cardinality(heap) \in Nat /\ Cardinality(MessageOwned) \in Nat
    <2>1. heap' \in SUBSET heap /\ IsFiniteSet(heap) /\ IsFiniteSet(MessageOwned)
      BY <1>0, CountedFinite
    <2> QED BY <2>1, FS_Subset, FS_CardinalityType
  <1>10. MessagesCounted' /\ SlotsKept' /\ TableEnd' /\ KeysUnique'
    BY <1>0, <1>1, <1>3, <1>9 DEF MessagesCounted, SlotsKept, TableEnd, KeysUnique, TypeOK
  <1>11. Threads'
    <2>1. Timer \in Workers
      BY IdleAssumption
    <2>2. batch' # << >> => phase'[Timer] \in {"running", "closing"}
      BY <1>0, <1>5, <2>1 DEF Threads
    <2>3. ASSUME NEW x \in Workers
          PROVE  /\ pc'[x].at # "idle" => phase'[x] \in {"running", "closing"}
                 /\ pc'[x].at = "drop" => pc'[x].i \in removed'
                 /\ phase'[x] \in {"quiesced", "drained"} => queue'[x] = << >>
                 /\ drain'[x] # {} => phase'[x] = "drained" /\ ~retired'
                 /\ \A i \in drain'[x] : Owner[i] = x
      BY <1>0, <1>2, <1>5 DEF Threads
    <2> QED BY <1>0, <2>2, <2>3 DEF Threads
  <1>12. ASSUME NEW j \in Items PROVE ItemBooks(j)'
    <2>1. ItemBooks(j)
      OBVIOUS
    <2>2. CASE j \in mine
      BY <1>0, <1>1, <1>2, <1>3, <1>5, <1>6, <2>1, <2>2 DEF ItemBooks, OwnersOf, FlagsOf
    <2>3. CASE j \notin mine
      <3>1. phase'[Owner[j]] # "drained" => phase[Owner[j]] # "drained"
        BY <1>5, IdleAssumption
      <3> QED BY <1>0, <1>3, <1>6, <2>1, <2>3, <3>1 DEF ItemBooks, OwnersOf, FlagsOf
    <2> QED BY <2>2, <2>3
  <1> QED BY <1>3, <1>7, <1>8, <1>10, <1>11, <1>12

(* A drained item is called back and freed.                                *)
LEMMA DrainCallbackKeeps ==
    ASSUME IdleBooks, NEW w \in Workers, NEW i \in Items, DrainCallback(w, i)
    PROVE  IdleBooks'
  <1> USE DEF IdleBooks
  <1>0. /\ i \in drain[w] /\ drain' = [drain EXCEPT ![w] = @ \ {i}] /\ held' = held \ {i}
        /\ mem' = [mem EXCEPT ![i] = "freed"] /\ fault' = (fault \/ Bad(i))
        /\ UNCHANGED <<expireAt, removed, detached, pending, heap, cap, hmap, posted,
                       destroy_requested, table, clock, batch, queue, phase, pc, retired,
                       refusals>>
    BY DEF DrainCallback, indexVars, tableVars
  <1>1. i \in Draining /\ Owner[i] = w /\ phase[w] = "drained" /\ ~retired
    BY <1>0 DEF Draining, Threads
  <1>2. mem[i] = "live" /\ i \notin heap /\ i \notin MessageOwned
    BY <1>1 DEF ItemBooks, OwnersOf
  <1>3. ~destroy_requested
    BY <1>1 DEF Threads
  <1>4. i \notin hmap
    BY <1>2, <1>3 DEF ItemBooks, FlagsOf
  <1>5. /\ MessageOwned' = MessageOwned /\ Releasing' = Releasing
        /\ Settling' = Settling /\ OnePlace'
    BY <1>0, PlacesSame
  <1>6. drain'[w] = drain[w] \ {i} /\ \A x \in Workers \ {w} : drain'[x] = drain[x]
    BY <1>0 DEF TypeOK
  <1>7. Draining' = Draining \ {i}
    <2>1. \A x \in Workers \ {w} : i \notin drain[x]
      BY <1>1 DEF Threads
    <2> QED BY <1>6, <2>1 DEF Draining
  <1>8. fault' = FALSE
    BY <1>0, <1>2 DEF Bad
  <1>9. TypeOK'
    BY <1>0, <1>8 DEF TypeOK
  <1>10. MessagesCounted' /\ SlotsKept' /\ TableEnd' /\ KeysUnique'
    BY <1>0, <1>5 DEF MessagesCounted, SlotsKept, TableEnd, KeysUnique
  <1>11. Threads'
    BY <1>0, <1>6 DEF Threads
  <1>12. ASSUME NEW j \in Items PROVE ItemBooks(j)'
    <2>1. ItemBooks(j) /\ ItemBooks(i)
      OBVIOUS
    <2>2. CASE j = i
      <3>1. mem'[i] = "freed"
        BY <1>0 DEF TypeOK
      <3> QED BY <1>0, <1>2, <1>3, <1>4, <1>5, <1>7, <2>1, <2>2, <3>1
              DEF ItemBooks, OwnersOf, FlagsOf
    <2>3. CASE j # i
      <3>1. mem'[j] = mem[j]
        BY <1>0, <2>3 DEF TypeOK
      <3> QED BY <1>0, <1>5, <1>7, <2>1, <2>3, <3>1 DEF ItemBooks, OwnersOf, FlagsOf
    <2> QED BY <2>2, <2>3
  <1> QED BY <1>5, <1>8, <1>9, <1>10, <1>11, <1>12

(* The table is destroyed, at once or with its last message.               *)
LEMMA DestroyKeeps == ASSUME IdleBooks, Destroy PROVE IdleBooks'
  <1> USE DEF IdleBooks
  <1>0. /\ retired /\ ~destroy_requested /\ destroy_requested' = TRUE
        /\ removed' = removed \cup (hmap \cap pending)
        /\ detached' = detached \cup (hmap \cap pending)
        /\ heap' = {}
        /\ mem' = [i \in Items |-> IF i \in heap \ pending THEN "freed" ELSE mem[i]]
        /\ fault' = (fault \/ TableBad \/ \E i \in heap : Bad(i))
        /\ table' = IF posted > 0 THEN table ELSE "freed"
        /\ UNCHANGED <<expireAt, pending, cap, hmap, posted, clock, batch, queue, phase, pc,
                       drain, held, retired, refusals>>
    BY DEF Destroy, userVars
  <1>1. table = "live"
    BY <1>0 DEF TableEnd, TypeOK
  <1>2. /\ MessageOwned' = MessageOwned /\ Draining' = Draining /\ Releasing' = Releasing
        /\ Settling' = Settling /\ OnePlace'
    BY <1>0, PlacesSame, DrainingSame
  <1>3. \A i \in heap : i \in Items /\ mem[i] = "live" /\ i \notin pending
    BY DEF TypeOK, ItemBooks, OwnersOf, FlagsOf
  <1>4. fault' = FALSE
    BY <1>0, <1>1, <1>3 DEF TableBad, Bad
  <1>5. TypeOK'
    BY <1>0, <1>1, <1>4 DEF TypeOK
  <1>6. MessagesCounted' /\ KeysUnique'
    BY <1>0, <1>2 DEF MessagesCounted, KeysUnique
  <1>7. SlotsKept'
    <2>1. IsFiniteSet(heap) /\ IsFiniteSet(MessageOwned)
      BY CountedFinite
    <2>2. Cardinality(heap) \in Nat /\ Cardinality(MessageOwned) \in Nat /\ Cardinality({}) = 0
      BY <2>1, FS_CardinalityType, FS_EmptySet
    <2> QED BY <1>0, <1>1, <1>2, <2>2 DEF SlotsKept, TypeOK
  <1>8. TableEnd'
    BY <1>0, <1>1 DEF TableEnd, TypeOK
  <1>9. Threads'
    BY <1>0 DEF Threads
  <1>10. ASSUME NEW j \in Items PROVE ItemBooks(j)'
    <2>1. ItemBooks(j)
      OBVIOUS
    <2>2. mem'[j] = IF j \in heap THEN "freed" ELSE mem[j]
      BY <1>0, <1>3
    <2> QED BY <1>0, <1>2, <1>3, <2>1, <2>2 DEF ItemBooks, OwnersOf, FlagsOf
  <1> QED BY <1>2, <1>4, <1>5, <1>6, <1>7, <1>8, <1>9, <1>10

-----------------------------------------------------------------------------
(* Every step keeps the books.                                             *)
LEMMA BooksStep == IdleBooks /\ [Next]_vars => IdleBooks'
  <1> SUFFICES ASSUME IdleBooks, [Next]_vars PROVE IdleBooks'
    OBVIOUS
  <1>1. ASSUME NEW w \in Workers, UserStep(w) PROVE IdleBooks'
    BY <1>1, CreateKeeps, KeepKeeps, RemoveKeeps DEF UserStep
  <1>2. ASSUME NEW w \in Workers, MessageStep(w) PROVE IdleBooks'
    BY <1>2, MovesKeep, MessageEnds, ReleaseKeeps DEF MessageStep
  <1>3. ASSUME NEW w \in Workers, StopStep(w) PROVE IdleBooks'
    BY <1>3, QuietKeeps, MovesKeep, DrainKeeps, DrainCallbackKeeps DEF StopStep
  <1>4. ASSUME NEW w \in Workers, Tick(w) PROVE IdleBooks'
    BY <1>4, QuietKeeps
  <1>5. CASE TimerStep
    BY <1>5, MovesKeep, ScanKeeps DEF TimerStep
  <1>6. CASE Retire \/ Destroy \/ Done \/ UNCHANGED vars
    BY <1>6, QuietKeeps, DestroyKeeps DEF Done
  <1> QED BY <1>1, <1>2, <1>3, <1>4, <1>5, <1>6 DEF Next

(* The idle table is safe whatever the order of renewals, removals,        *)
(* refusals, cancellations, drains and destruction, and whether or not     *)
(* the workers drain after all have quiesced: an item has one owner, is    *)
(* freed once, a posted message has its slot, and the table goes with the  *)
(* last message.                                                           *)
THEOREM IdleSafe == Spec => []IdleInv
  <1>1. Spec => []IdleBooks
    BY BooksInit, BooksStep, PTL DEF Spec
  <1> QED BY <1>1, BooksMean, PTL

-----------------------------------------------------------------------------
(* Handles.  Once all workers have quiesced there is no message left, so   *)
(* that a drain then calls back everything it takes.                       *)
HandlesHeld == ~retired => \A i \in held : i \in hmap \/ i \in Draining

(* When every worker is quiet no message holds an item.                    *)
LEMMA NoMessageLeft ==
    ASSUME IdleBooks, \A v \in Workers : phase[v] \in {"quiesced", "drained"}
    PROVE  MessageOwned = {}
  <1> USE DEF IdleBooks
  <1>1. Settling = {}
    BY DEF Threads, Settling, SettlingAt
  <1>2. batch = << >> /\ \A w \in Workers : queue[w] = << >>
    BY IdleAssumption DEF Threads
  <1>3. Entries(batch) = {} /\ \A w \in Workers : Entries(queue[w]) = {}
    BY <1>2 DEF Entries
  <1> QED BY <1>1, <1>3 DEF MessageOwned, Queued

(* Every step keeps this.                                                  *)
LEMMA HandlesStep ==
    ASSUME DrainAfterQuiesce, IdleBooks, HandlesHeld, [Next]_vars
    PROVE  HandlesHeld'
  <1> USE DEF IdleBooks
  <1> SUFFICES ASSUME ~retired', NEW i \in held'
               PROVE  i \in hmap' \/ i \in Draining'
    BY DEF HandlesHeld
  <1>1. CASE UNCHANGED <<held, hmap, drain, retired>>
    BY <1>1, DrainingSame DEF HandlesHeld
  <1>2. ASSUME NEW w \in Workers, UserStep(w) PROVE i \in hmap' \/ i \in Draining'
    <2>1. ASSUME NEW j \in Items, Remove(w, j) PROVE i \in hmap' \/ i \in Draining'
      <3> DEFINE found == {k \in hmap : Key[k] = Key[j] /\ Owner[k] = w}
      <3>1. /\ held' = held \ {j} /\ hmap' = hmap \ found /\ UNCHANGED <<drain, retired>>
            /\ fault' = (fault \/ TableBad \/ found # {j} \/ Bad(j))
        BY <2>1 DEF Remove
      <3>2. fault' = FALSE
        BY <2>1, RemoveKeeps
      <3>3. found = {j}
        BY <3>1, <3>2
      <3> HIDE DEF found
      <3> QED BY <3>1, <3>3, DrainingSame DEF HandlesHeld
    <2>2. ASSUME NEW j \in Items, NEW at \in 0 .. MaxTime, Create(w, j, at)
          PROVE  i \in hmap' \/ i \in Draining'
      BY <2>2, DrainingSame DEF Create, HandlesHeld
    <2>3. ASSUME NEW j \in Items, NEW at \in 0 .. MaxTime, Keep(w, j, at)
          PROVE  i \in hmap' \/ i \in Draining'
      BY <1>1, <2>3 DEF Keep, indexVars, userVars
    <2> QED BY <1>2, <2>1, <2>2, <2>3 DEF UserStep
  <1>3. ASSUME NEW w \in Workers, MessageStep(w) PROVE i \in hmap' \/ i \in Draining'
    <2>1. CASE Return(w)
      BY <2>1, DrainingSame DEF Return, HandlesHeld
    <2>2. CASE RunMessage(w) \/ Settle(w) \/ Cleanup(w) \/ Release(w)
      BY <1>1, <2>2 DEF RunMessage, Settle, Cleanup, Release, indexVars, userVars
    <2> QED BY <1>3, <2>1, <2>2 DEF MessageStep
  <1>4. ASSUME NEW w \in Workers, StopStep(w) PROVE i \in hmap' \/ i \in Draining'
    <2>1. CASE Drain(w)
      <3> DEFINE mine == {k \in hmap : k \notin removed /\ Owner[k] = w}
      <3>1. /\ \A v \in Workers : phase[v] \in {"quiesced", "drained"}
            /\ ~retired /\ drain[w] = {} /\ held' = held /\ hmap' = hmap \ mine
            /\ drain' = [drain EXCEPT ![w] = mine \ pending]
        BY <2>1 DEF Drain, Free, userVars
      <3>2. MessageOwned = {}
        BY <3>1, NoMessageLeft
      <3>3. \A k \in mine : k \in Items /\ mem[k] = "live"
        BY <3>1, UserTable DEF TypeOK, ItemBooks, OwnersOf, FlagsOf
      <3>4. \A k \in mine : k \notin pending
        BY <3>2, <3>3 DEF ItemBooks, FlagsOf
      <3> HIDE DEF mine
      <3>5. drain'[w] = mine /\ \A x \in Workers \ {w} : drain'[x] = drain[x]
        BY <3>1, <3>4 DEF TypeOK
      <3>6. mine \subseteq Draining' /\ Draining \subseteq Draining'
        BY <3>1, <3>5 DEF Draining
      <3> QED BY <3>1, <3>6 DEF HandlesHeld
    <2>2. ASSUME NEW j \in Items, DrainCallback(w, j) PROVE i \in hmap' \/ i \in Draining'
      <3>1. /\ drain' = [drain EXCEPT ![w] = @ \ {j}] /\ held' = held \ {j}
            /\ UNCHANGED <<hmap, retired>>
        BY <2>2 DEF DrainCallback, indexVars
      <3>2. Draining \ {j} \subseteq Draining'
        BY <3>1 DEF Draining, TypeOK
      <3> QED BY <3>1, <3>2 DEF HandlesHeld
    <2>3. CASE Close(w) \/ Cancel(w) \/ Quiesce(w)
      BY <1>1, <2>3 DEF Close, Cancel, Quiesce, indexVars, userVars
    <2> QED BY <1>4, <2>1, <2>2, <2>3 DEF StopStep
  <1>5. CASE \/ TimerStep \/ Retire \/ Destroy \/ Done \/ UNCHANGED vars
             \/ \E w \in Workers : Tick(w)
    <2>1. UNCHANGED <<held, hmap, drain, retired>>
      BY <1>5 DEF TimerStep, Post, Scan, Retire, Destroy, Done, Tick, vars, indexVars, userVars
    <2> QED BY <1>1, <2>1
  <1> QED BY <1>2, <1>3, <1>4, <1>5 DEF Next

(* Where workers drain once all have quiesced, as node instances do in     *)
(* onWorkerStop, an owner's handle is good until it removes the item or    *)
(* the item's callback tells it, whatever becomes of posted messages.      *)
THEOREM HandlesGood == DrainAfterQuiesce => (Spec => []HandlesValid)
  <1> SUFFICES ASSUME DrainAfterQuiesce PROVE Spec => []HandlesValid
    OBVIOUS
  <1>1. Spec => []IdleBooks
    BY BooksInit, BooksStep, PTL DEF Spec
  <1>2. Init => HandlesHeld
    BY DEF Init, HandlesHeld
  <1>3. IdleBooks /\ HandlesHeld /\ [Next]_vars => HandlesHeld'
    BY HandlesStep
  <1>4. IdleBooks /\ HandlesHeld => HandlesValid
    <2> SUFFICES ASSUME IdleBooks, HandlesHeld, ~retired, NEW i \in held
                 PROVE  mem[i] = "live" /\ (i \in hmap \/ i \in Draining)
      BY DEF HandlesValid
    <2>1. i \in Items /\ (i \in hmap \/ i \in Draining)
      BY DEF HandlesHeld, IdleBooks, TypeOK
    <2>2. ItemBooks(i) /\ ~destroy_requested
      BY <2>1, UserTable DEF IdleBooks
    <2> QED BY <2>1, <2>2 DEF ItemBooks, OwnersOf, FlagsOf
  <1> QED BY <1>1, <1>2, <1>3, <1>4, PTL DEF Spec

(* The callback of an item starts, by its message or by a drain, only      *)
(* while its owner has it.                                                 *)
LEMMA CallbackStep ==
    IdleBooks /\ [Next]_vars =>
        [\A w \in Workers :
            /\ (pc'[w].at = "cb" /\ ~At(w, "cb")) => pc'[w].i \in held
            /\ drain[w] \ drain'[w] \subseteq held]_vars
  <1> USE DEF IdleBooks
  <1> SUFFICES ASSUME IdleBooks, Next, NEW w \in Workers
               PROVE  /\ (pc'[w].at = "cb" /\ ~At(w, "cb")) => pc'[w].i \in held
                      /\ drain[w] \ drain'[w] \subseteq held
    OBVIOUS
  <1>1. drain[w] \ drain'[w] \subseteq held
    <2>1. drain[w] \subseteq held
      BY DEF Draining, TypeOK, ItemBooks, FlagsOf
    <2> QED BY <2>1
  <1>2. CASE UNCHANGED pc
    BY <1>1, <1>2 DEF At
  <1>3. ASSUME NEW v \in Workers, RunMessage(v)
        PROVE  (pc'[w].at = "cb" /\ ~At(w, "cb")) => pc'[w].i \in held
    <2> DEFINE i == Head(queue[v])
               a == CASE ~Attached(i) -> "drop"
                      [] Attached(i) /\ expireAt[i] > clock[v] -> "renewed"
                      [] OTHER -> "cb"
    <2>1. queue[v] # << >> /\ pc' = [pc EXCEPT ![v] = [at |-> a, i |-> i, old |-> expireAt[i]]]
      BY <1>3 DEF RunMessage
    <2>2. i \in Items /\ i \in MessageOwned
      <3>1. i \in Items /\ i \in Entries(queue[v])
        BY <2>1, EntriesHead DEF TypeOK
      <3> QED BY <3>1 DEF MessageOwned, Queued
    <2>3. a = "cb" => Attached(i)
      OBVIOUS
    <2>4. Attached(i) => i \in held
      BY <2>2 DEF Attached, ItemBooks, FlagsOf
    <2> HIDE DEF a, i
    <2>5. /\ w # v => pc'[w] = pc[w]
          /\ w = v => pc'[w].at = a /\ pc'[w].i = i
      BY <2>1 DEF TypeOK
    <2> QED BY <2>3, <2>4, <2>5 DEF At
  <1>4. ASSUME NEW v \in Workers, NEW at, NEW i, at # "cb", Goto(v, at, i)
        PROVE  pc'[w].at = "cb" => At(w, "cb")
    BY <1>4 DEF Goto, At, TypeOK
  <1>5. ASSUME NEW v \in Workers, MessageStep(v)
        PROVE  (pc'[w].at = "cb" /\ ~At(w, "cb")) => pc'[w].i \in held
    <2>1. CASE Settle(v) \/ Return(v) \/ Cleanup(v)
      <3>1. Goto(v, "release", NoItem)
        BY <2>1 DEF Settle, Return, Cleanup
      <3> QED BY <1>4, <3>1
    <2>2. CASE Release(v)
      BY <2>2 DEF Release, Idle, At, TypeOK
    <2> QED BY <1>3, <1>5, <2>1, <2>2 DEF MessageStep
  <1>6. ASSUME NEW v \in Workers, StopStep(v)
        PROVE  (pc'[w].at = "cb" /\ ~At(w, "cb")) => pc'[w].i \in held
    <2>1. CASE Cancel(v)
      <3>1. Goto(v, "cleanup", Head(queue[v]))
        BY <2>1 DEF Cancel
      <3> QED BY <1>4, <3>1
    <2>2. CASE Close(v) \/ Quiesce(v) \/ Drain(v) \/ \E i \in Items : DrainCallback(v, i)
      <3>1. UNCHANGED pc
        BY <2>2 DEF Close, Quiesce, Drain, DrainCallback
      <3> QED BY <1>2, <3>1
    <2> QED BY <1>6, <2>1, <2>2 DEF StopStep
  <1>7. CASE Post
    <2>1. UNCHANGED pc \/ Goto(Timer, "cleanup", Head(batch))
      BY <1>7 DEF Post
    <2> QED BY <1>1, <1>2, <1>4, <2>1, IdleAssumption
  <1>8. CASE \/ \E S \in SUBSET Items : Scan(S)
             \/ Retire \/ Destroy \/ Done
             \/ \E v \in Workers : UserStep(v) \/ Tick(v)
    <2>1. UNCHANGED pc
      <3>1. ASSUME NEW S \in SUBSET Items, Scan(S) PROVE UNCHANGED pc
        BY <3>1, Zenon DEF Scan
      <3>2. ASSUME NEW v \in Workers, UserStep(v) \/ Tick(v) PROVE UNCHANGED pc
        BY <3>2, Zenon DEF UserStep, Create, Keep, Remove, Tick
      <3>3. CASE Retire \/ Destroy \/ Done
        BY <3>3, Zenon DEF Retire, Destroy, Done, vars
      <3> QED BY <1>8, <3>1, <3>2, <3>3
    <2> QED BY <1>2, <2>1
  <1> QED BY <1>1, <1>5, <1>6, <1>7, <1>8 DEF Next, TimerStep

(* Removal suppresses expiration: no callback starts for an item that its  *)
(* owner removed, nor a second one for an item that was let expire.        *)
THEOREM CallbacksOwned == Spec => CallbackOnlyHeld
  <1>1. Spec => []IdleBooks
    BY BooksInit, BooksStep, PTL DEF Spec
  <1> QED BY <1>1, CallbackStep, PTL DEF Spec, CallbackOnlyHeld
=============================================================================
