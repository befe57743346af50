----------------------------- MODULE IdleTable ------------------------------
(***************************************************************************)
(* The idle table shared by several workers (ww/base/widle_table.c).       *)
(*                                                                         *)
(* An item belongs to the worker that made it.  A timer on one worker      *)
(* takes the expired items out of the heap under the table's mutex and     *)
(* then posts them, one at a time, to their owners.  Until its message is  *)
(* settled the item belongs to that message, and the message pins the      *)
(* table; meanwhile the owner may renew the item or remove it and reuse    *)
(* its key, the message may be refused or cancelled, and the table may be  *)
(* destroyed.                                                              *)
(*                                                                         *)
(* A block under the mutex is one step.  Each worker reads its own clock,  *)
(* which may lag behind the others.                                        *)
(***************************************************************************)
EXTENDS Integers, Sequences, FiniteSets

CONSTANTS
    Workers,      \* event workers
    Timer,        \* the worker whose loop runs the table's timer
    Items,        \* items ever allocated
    Owner, Key,   \* item->wid and item->hash
    InitCap,      \* kIdleTableCap, the heap's first capacity
    MaxEntries,   \* idleTableMaximumEntries
    MaxTime,      \* bound: clocks and deadlines
    MaxRefusals,  \* bound: messages an open mailbox refuses
    DrainAfterQuiesce,  \* workers drain in onWorkerStop, as ReverseClient
                        \* does, and not in any order the header allows
    NoItem

ASSUME IdleAssumption ==
    /\ IsFiniteSet(Workers) /\ IsFiniteSet(Items)
    /\ Timer \in Workers
    /\ Owner \in [Items -> Workers]
    /\ InitCap \in Nat /\ MaxEntries \in Nat /\ MaxTime \in Nat
    /\ MaxRefusals \in Nat
    /\ DrainAfterQuiesce \in BOOLEAN
    /\ NoItem \notin Items

VARIABLES
    mem,       \* mem[i]: storage of the item: "none", "live" or "freed"
    expireAt,  \* expireAt[i]: item->expire_at_ms
    heap,      \* items in hqueue
    cap,       \* capacity of hqueue
    hmap,      \* items in hmap; keys are unique
    removed,   \* items with removed set
    detached,  \* items whose table is NULL
    pending,   \* items with worker_message_pending set
    posted,    \* posted_messages
    destroy_requested,
    table,     \* storage of the table: "live" or "freed"
    clock,     \* clock[w]: the worker's cached monotonic clock
    batch,     \* expired_items of idleCallBack, still to be posted
    queue,     \* queue[w]: items whose close message is queued at w
    phase,     \* phase[w]: running, closing, quiesced or drained
    pc,        \* pc[w]: what the worker's thread is doing with an item
    drain,     \* drain[w]: items whose drain callback is still to come
    held,      \* items whose owner still counts on its handle
    retired,   \* owners begin no further operation on the table
    refusals,
    fault      \* an assertion failed or freed storage was used

itemVars == <<mem, expireAt, removed, detached, pending>>
indexVars == <<heap, cap, hmap>>
tableVars == <<posted, destroy_requested, table>>
userVars == <<held, retired>>
vars == <<itemVars, indexVars, tableVars, clock, batch, queue, phase, pc,
          drain, userVars, refusals, fault>>

Idle == [at |-> "idle", i |-> NoItem, old |-> 0]

Init ==
    /\ mem = [i \in Items |-> "none"]
    /\ expireAt = [i \in Items |-> 0]
    /\ heap = {} /\ hmap = {} /\ cap = InitCap
    /\ removed = {} /\ detached = {} /\ pending = {}
    /\ posted = 0 /\ destroy_requested = FALSE /\ table = "live"
    /\ clock = [w \in Workers |-> 0]
    /\ batch = << >>
    /\ queue = [w \in Workers |-> << >>]
    /\ phase = [w \in Workers |-> "running"]
    /\ pc = [w \in Workers |-> Idle]
    /\ drain = [w \in Workers |-> {}]
    /\ held = {} /\ retired = FALSE
    /\ refusals = 0 /\ fault = FALSE

-----------------------------------------------------------------------------
At(w, at) == pc[w].at = at
Goto(w, at, i) == pc' = [pc EXCEPT ![w] = [at |-> at, i |-> i, old |-> 0]]
Bigger(a, b) == IF a > b THEN a ELSE b
Smaller(a, b) == IF a < b THEN a ELSE b

(* The thread is between two callbacks of its loop.                        *)
Free(w) ==
    /\ At(w, "idle") /\ drain[w] = {}
    /\ w = Timer => batch = << >>

(* The item and, where the mutex is taken, the table have to be there.     *)
Bad(i) == mem[i] # "live"
TableBad == table # "live"

(* An item is usable while it is attached and not removed.                 *)
Attached(i) == i \notin removed /\ i \notin detached

-----------------------------------------------------------------------------
(* The operations of an owner, from a callback of its loop or from the     *)
(* callback of an expired item, on handles it has not given up.            *)
UserMay(w) ==
    /\ ~retired
    /\ At(w, "cb") \/ (Free(w) /\ phase[w] = "running")

(* idleTableCanAddEntry.                                                   *)
CanAddEntry ==
    Cardinality(heap) < MaxEntries /\ posted < MaxEntries - Cardinality(heap)

(* idletableCreateItem, where it succeeds: both indexes get the item, and  *)
(* the heap keeps a slot for every item whose message is out.              *)
GrownCap(required) ==
    IF required > cap
    THEN Bigger(Smaller(cap + cap \div 2 + 4, MaxEntries), required)
    ELSE cap
Create(w, i, at) ==
    /\ UserMay(w) /\ Owner[i] = w /\ mem[i] = "none"
    /\ CanAddEntry
    /\ \A j \in hmap : Key[j] # Key[i]
    /\ at \in clock[w] .. MaxTime
    /\ mem' = [mem EXCEPT ![i] = "live"]
    /\ expireAt' = [expireAt EXCEPT ![i] = at]
    /\ hmap' = hmap \cup {i}
    /\ cap' = GrownCap(Cardinality(heap) + posted + 1)
    /\ heap' = heap \cup {i}
    /\ held' = held \cup {i}
    /\ fault' = (fault \/ TableBad)
    /\ UNCHANGED <<removed, detached, pending, tableVars, clock, batch, queue,
                   phase, pc, drain, retired, refusals>>

(* idletableKeepIdleItemForAtleast: a deadline is only extended.           *)
Keep(w, i, at) ==
    /\ UserMay(w) /\ Owner[i] = w /\ i \in held
    /\ at \in clock[w] .. MaxTime /\ at > expireAt[i]
    /\ expireAt' = [expireAt EXCEPT ![i] = at]
    /\ fault' = (fault \/ Bad(i) \/ ~Attached(i))
    /\ UNCHANGED <<mem, removed, detached, pending, indexVars, tableVars,
                   clock, batch, queue, phase, pc, drain, userVars, refusals>>

(* idletableRemoveIdleItemByHash.  An owner that removes by the key of a   *)
(* handle it counts on treats a failure as fatal.                          *)
Remove(w, i) ==
    /\ UserMay(w) /\ Owner[i] = w /\ i \in held
    /\ held' = held \ {i}
    /\ LET found == {j \in hmap : Key[j] = Key[i] /\ Owner[j] = w} IN
       /\ fault' = (fault \/ TableBad \/ found # {i} \/ Bad(i))
       /\ hmap' = hmap \ found
       /\ removed' = removed \cup found
       /\ detached' = detached \cup (found \cap pending)
    /\ UNCHANGED <<mem, expireAt, pending, heap, cap, tableVars, clock, batch,
                   queue, phase, pc, drain, retired, refusals>>

-----------------------------------------------------------------------------
(* idleCallBack: the block under the mutex.  A renewal that comes between  *)
(* the rebuilding of the heap and the look at its top ends the loop early, *)
(* so that with a renewed item about only some of the due ones are taken.  *)
Due == {i \in heap : expireAt[i] <= clock[Timer]}
Orders(S) == {b \in [1 .. Cardinality(S) -> S] :
                 \A m, n \in DOMAIN b : m # n => b[m] # b[n]}
Scan(S) ==
    /\ Free(Timer) /\ phase[Timer] = "running" /\ ~destroy_requested
    /\ S # {} /\ S \subseteq Due
    /\ S = Due \/ heap # Due
    /\ heap' = heap \ S
    /\ mem' = [i \in Items |-> IF i \in S \cap removed THEN "freed" ELSE mem[i]]
    /\ pending' = pending \cup (S \ removed)
    /\ posted' = posted + Cardinality(S \ removed)
    /\ batch' \in Orders(S \ removed)
    /\ fault' = (fault \/ TableBad \/ \E i \in S : Bad(i))
    /\ UNCHANGED <<expireAt, removed, detached, cap, hmap, destroy_requested,
                   table, clock, queue, phase, pc, drain, userVars, refusals>>

(* The messages are posted after the mutex is released; one that is        *)
(* refused is cleaned up by the thread of the timer.                       *)
Post ==
    /\ At(Timer, "idle") /\ batch # << >>
    /\ LET i == Head(batch) IN
       /\ fault' = (fault \/ Bad(i))
       /\ \/ /\ phase[Owner[i]] = "running"
             /\ queue' = [queue EXCEPT ![Owner[i]] = Append(@, i)]
             /\ UNCHANGED <<pc, refusals>>
          \/ /\ phase[Owner[i]] # "running" \/ refusals < MaxRefusals
             /\ refusals' = IF phase[Owner[i]] = "running"
                            THEN refusals + 1 ELSE refusals
             /\ Goto(Timer, "cleanup", i)
             /\ UNCHANGED queue
    /\ batch' = Tail(batch)
    /\ UNCHANGED <<itemVars, indexVars, tableVars, clock, phase, drain,
                   userVars>>

\* Mutant of RestoreOrFree: the message lets go of the item, but the heap
\* does not get it back.
RestoreOrFree_FlagOnly(i, restore) ==
    /\ pending' = IF restore THEN pending \ {i} ELSE pending
    /\ mem' = IF restore THEN mem ELSE [mem EXCEPT ![i] = "freed"]
    /\ fault' = (fault \/ TableBad \/ Bad(i))
    /\ UNCHANGED heap

(* idletableRestoreItemToHeapLocked, or else the item is freed.            *)
RestoreOrFree(i, restore) ==
    IF restore
    THEN /\ pending' = pending \ {i}
         /\ heap' = heap \cup {i}
         /\ mem' = mem
         /\ fault' = (fault \/ TableBad \/ Bad(i) \/ Cardinality(heap) >= cap)
    ELSE /\ mem' = [mem EXCEPT ![i] = "freed"]
         /\ fault' = (fault \/ TableBad \/ Bad(i))
         /\ UNCHANGED <<pending, heap>>

\* Mutant of Cleanup: a cancelled item is freed though it is still mapped.
Cleanup_Drops(w) ==
    /\ At(w, "cleanup")
    /\ RestoreOrFree(pc[w].i, FALSE)
    /\ Goto(w, "release", NoItem)
    /\ UNCHANGED <<expireAt, removed, detached, cap, hmap, tableVars, clock,
                   batch, queue, phase, drain, userVars, refusals>>

(* idlePostedCloseMessageCleanup.                                          *)
Cleanup(w) ==
    /\ At(w, "cleanup")
    /\ LET i == pc[w].i IN
       RestoreOrFree(i, ~destroy_requested /\ Attached(i) /\ i \in hmap)
    /\ Goto(w, "release", NoItem)
    /\ UNCHANGED <<expireAt, removed, detached, cap, hmap, tableVars, clock,
                   batch, queue, phase, drain, userVars, refusals>>

(* idletableReleaseMessageRef; the last message out frees the table.       *)
Release(w) ==
    /\ At(w, "release")
    /\ posted' = IF posted = 0 THEN 0 ELSE posted - 1
    /\ fault' = (fault \/ TableBad \/ posted = 0)
    /\ table' = IF posted = 1 /\ destroy_requested THEN "freed" ELSE table
    /\ pc' = [pc EXCEPT ![w] = Idle]
    /\ UNCHANGED <<itemVars, indexVars, destroy_requested, clock, batch,
                   queue, phase, drain, userVars, refusals>>

-----------------------------------------------------------------------------
\* Mutant of RunMessage: only the deadline is looked at.
RunMessage_NoCheck(w) ==
    /\ Free(w) /\ phase[w] = "running" /\ queue[w] # << >>
    /\ queue' = [queue EXCEPT ![w] = Tail(@)]
    /\ LET i == Head(queue[w]) IN
       /\ pc' = [pc EXCEPT ![w] =
                   [at |-> IF expireAt[i] > clock[w] THEN "renewed" ELSE "cb",
                    i |-> i, old |-> expireAt[i]]]
       /\ fault' = (fault \/ Bad(i))
    /\ UNCHANGED <<itemVars, indexVars, tableVars, clock, batch, phase, drain,
                   userVars, refusals>>

(* beforeCloseWorkerMessage: the checks without the mutex.                 *)
RunMessage(w) ==
    /\ Free(w) /\ phase[w] = "running" /\ queue[w] # << >>
    /\ queue' = [queue EXCEPT ![w] = Tail(@)]
    /\ LET i == Head(queue[w])
           at == CASE ~Attached(i) -> "drop"
                   [] Attached(i) /\ expireAt[i] > clock[w] -> "renewed"
                   [] OTHER -> "cb" IN
       /\ pc' = [pc EXCEPT ![w] = [at |-> at, i |-> i, old |-> expireAt[i]]]
       /\ fault' = (fault \/ Bad(i))
    /\ UNCHANGED <<itemVars, indexVars, tableVars, clock, batch, phase, drain,
                   userVars, refusals>>

(* An item that was removed or detached is freed; one that was renewed     *)
(* goes back to the heap unless the table was destroyed meanwhile.         *)
Settle(w) ==
    /\ At(w, "drop") \/ At(w, "renewed")
    /\ RestoreOrFree(pc[w].i, At(w, "renewed") /\ Attached(pc[w].i))
    /\ Goto(w, "release", NoItem)
    /\ UNCHANGED <<expireAt, removed, detached, cap, hmap, tableVars, clock,
                   batch, queue, phase, drain, userVars, refusals>>

(* The expiration callback returns: the item it renewed stays, any other   *)
(* one is gone, and its owner has given the handle up.                     *)
Return(w) ==
    /\ At(w, "cb")
    /\ LET i == pc[w].i
           keep == pc[w].old # expireAt[i] /\ expireAt[i] > clock[w]
           stays == Attached(i) /\ keep IN
       /\ RestoreOrFree(i, stays)
       /\ hmap' = IF Attached(i) /\ ~keep THEN hmap \ {i} ELSE hmap
       /\ removed' = IF Attached(i) /\ ~keep THEN removed \cup {i} ELSE removed
       /\ held' = IF stays THEN held ELSE held \ {i}
    /\ Goto(w, "release", NoItem)
    /\ UNCHANGED <<expireAt, detached, cap, tableVars, clock, batch, queue,
                   phase, drain, retired, refusals>>

-----------------------------------------------------------------------------
(* A worker closes its mailbox and cancels what is in it.                  *)
Close(w) ==
    /\ phase[w] = "running"
    /\ phase' = [phase EXCEPT ![w] = "closing"]
    /\ UNCHANGED <<itemVars, indexVars, tableVars, clock, batch, queue, pc,
                   drain, userVars, refusals, fault>>

Cancel(w) ==
    /\ phase[w] = "closing" /\ Free(w) /\ queue[w] # << >>
    /\ queue' = [queue EXCEPT ![w] = Tail(@)]
    /\ Goto(w, "cleanup", Head(queue[w]))
    /\ UNCHANGED <<itemVars, indexVars, tableVars, clock, batch, phase, drain,
                   userVars, refusals, fault>>

Quiesce(w) ==
    /\ phase[w] = "closing" /\ Free(w) /\ queue[w] = << >>
    /\ phase' = [phase EXCEPT ![w] = "quiesced"]
    /\ UNCHANGED <<itemVars, indexVars, tableVars, clock, batch, queue, pc,
                   drain, userVars, refusals, fault>>

(* idletableDrainWorkerItems: items whose message is out are detached, the *)
(* others leave both indexes and are called back and freed.                *)
Drain(w) ==
    /\ phase[w] = "quiesced" /\ Free(w) /\ ~retired
    /\ DrainAfterQuiesce =>
          \A v \in Workers : phase[v] \in {"quiesced", "drained"}
    /\ LET mine == {i \in hmap : i \notin removed /\ Owner[i] = w} IN
       /\ fault' = (fault \/ TableBad \/ \E i \in mine : Bad(i))
       /\ hmap' = hmap \ mine
       /\ removed' = removed \cup mine
       /\ detached' = detached \cup (mine \cap pending)
       /\ heap' = heap \ mine
       /\ drain' = [drain EXCEPT ![w] = mine \ pending]
    /\ phase' = [phase EXCEPT ![w] = "drained"]
    /\ UNCHANGED <<mem, expireAt, pending, cap, tableVars, clock, batch,
                   queue, pc, userVars, refusals>>

DrainCallback(w, i) ==
    /\ i \in drain[w]
    /\ drain' = [drain EXCEPT ![w] = @ \ {i}]
    /\ held' = held \ {i}
    /\ mem' = [mem EXCEPT ![i] = "freed"]
    /\ fault' = (fault \/ Bad(i))
    /\ UNCHANGED <<expireAt, removed, detached, pending, indexVars, tableVars,
                   clock, batch, queue, phase, pc, retired, refusals>>

(* The owners stop using the table, at the latest when all have drained.   *)
Retire ==
    /\ ~retired
    /\ DrainAfterQuiesce => \A w \in Workers : phase[w] = "drained"
    /\ \A w \in Workers : drain[w] = {}
    /\ retired' = TRUE
    /\ UNCHANGED <<itemVars, indexVars, tableVars, clock, batch, queue, phase,
                   pc, drain, held, refusals, fault>>

(* idletableDestroy, on the thread of the timer's loop.                    *)
Destroy ==
    /\ retired /\ ~destroy_requested /\ Free(Timer)
    /\ destroy_requested' = TRUE
    /\ removed' = removed \cup (hmap \cap pending)
    /\ detached' = detached \cup (hmap \cap pending)
    /\ heap' = {}
    /\ mem' = [i \in Items |->
                 IF i \in heap \ pending THEN "freed" ELSE mem[i]]
    /\ fault' = (fault \/ TableBad \/ \E i \in heap : Bad(i))
    /\ table' = IF posted > 0 THEN table ELSE "freed"
    /\ UNCHANGED <<expireAt, pending, cap, hmap, posted, clock, batch, queue,
                   phase, pc, drain, userVars, refusals>>

Tick(w) ==
    /\ clock[w] < MaxTime
    /\ clock' = [clock EXCEPT ![w] = @ + 1]
    /\ UNCHANGED <<itemVars, indexVars, tableVars, batch, queue, phase, pc,
                   drain, userVars, refusals, fault>>

-----------------------------------------------------------------------------
UserStep(w) ==
    \E i \in Items :
       \/ Remove(w, i)
       \/ \E at \in 0 .. MaxTime : Create(w, i, at) \/ Keep(w, i, at)

MessageStep(w) ==
    RunMessage(w) \/ Settle(w) \/ Return(w) \/ Cleanup(w) \/ Release(w)

StopStep(w) ==
    \/ Close(w) \/ Cancel(w) \/ Quiesce(w) \/ Drain(w)
    \/ \E i \in Items : DrainCallback(w, i)

TimerStep == Post \/ \E S \in SUBSET Items : Scan(S)

Done == destroy_requested /\ posted = 0 /\ UNCHANGED vars

Next ==
    \/ \E w \in Workers : UserStep(w) \/ MessageStep(w) \/ StopStep(w) \/ Tick(w)
    \/ TimerStep \/ Retire \/ Destroy \/ Done

Spec == Init /\ [][Next]_vars

(* Clocks advance, the timer fires, workers serve their messages, and a    *)
(* shutdown that has begun reaches every worker, however busy the timer    *)
(* keeps it: a loop looks for the request after every callback.  Owners    *)
(* need do nothing.                                                        *)
SomeClosed == \E w \in Workers : phase[w] # "running"
FairSpec ==
    /\ Spec
    /\ WF_vars(TimerStep)
    /\ \A w \in Workers :
          /\ WF_vars(Tick(w)) /\ WF_vars(MessageStep(w))
          /\ SF_vars(SomeClosed /\ Close(w)) /\ WF_vars(SomeClosed /\ StopStep(w))

-----------------------------------------------------------------------------
(* Messages whose item is not settled yet, and those not yet released.     *)
SettlingAt == {"cleanup", "drop", "renewed", "cb"}
Settling == {w \in Workers : pc[w].at \in SettlingAt}
Releasing == {w \in Workers : At(w, "release")}
Entries(q) == {q[n] : n \in 1 .. Len(q)}
Queued == UNION {Entries(queue[w]) : w \in Workers}
MessageOwned == Entries(batch) \cup Queued \cup {pc[w].i : w \in Settling}
Draining == UNION {drain[w] : w \in Workers}

(* The type invariant of the table.                                        *)
TypeOK ==
    /\ mem \in [Items -> {"none", "live", "freed"}]
    /\ expireAt \in [Items -> 0 .. MaxTime]
    /\ heap \in SUBSET Items /\ hmap \in SUBSET Items /\ cap \in Nat
    /\ removed \in SUBSET Items /\ detached \in SUBSET Items
    /\ pending \in SUBSET Items /\ held \in SUBSET Items
    /\ posted \in Nat /\ destroy_requested \in BOOLEAN /\ table \in {"live", "freed"}
    /\ clock \in [Workers -> 0 .. MaxTime]
    /\ batch \in Seq(Items) /\ queue \in [Workers -> Seq(Items)]
    /\ phase \in [Workers -> {"running", "closing", "quiesced", "drained"}]
    /\ pc \in [Workers -> [at : SettlingAt \cup {"idle", "release"},
                            i : Items \cup {NoItem}, old : 0 .. MaxTime]]
    /\ drain \in [Workers -> SUBSET Items]
    /\ retired \in BOOLEAN /\ refusals \in Nat /\ fault \in BOOLEAN

(* A message is in one place: the batch of the timer, the queue of a       *)
(* worker or a worker's hands.                                             *)
Distinct(q) == \A m, n \in 1 .. Len(q) : q[m] = q[n] => m = n
OnePlace ==
    /\ Distinct(batch)
    /\ \A w \in Settling : pc[w].i \in Items \ Entries(batch)
    /\ \A v, w \in Settling : pc[v].i = pc[w].i => v = w
    /\ \A w \in Workers :
          /\ Distinct(queue[w])
          /\ Entries(queue[w]) \cap Entries(batch) = {}
          /\ \A v \in Settling : pc[v].i \notin Entries(queue[w])
          /\ \A v \in Workers \ {w} : Entries(queue[v]) \cap Entries(queue[w]) = {}

(* What a worker has left to do, by the phase of its shutdown and of the   *)
(* table's.                                                                *)
Threads ==
    /\ batch # << >> => phase[Timer] \in {"running", "closing"}
    /\ \A w \in Workers :
          /\ pc[w].at # "idle" => phase[w] \in {"running", "closing"}
          /\ pc[w].at = "drop" => pc[w].i \in removed
          /\ phase[w] \in {"quiesced", "drained"} => queue[w] = << >>
          /\ drain[w] # {} => phase[w] = "drained" /\ ~retired
          /\ \A i \in drain[w] : Owner[i] = w
    /\ destroy_requested => retired

(* The flags of an item against its owners.  An item that is mapped is     *)
(* held; an item that is not is removed, whoever frees it.                 *)
FlagsOf(i) ==
    /\ mem[i] = "none" =>
          i \notin hmap \cup removed \cup detached \cup pending \cup held
    /\ i \in detached => i \in removed
    /\ mem[i] = "live" => (i \in pending <=> i \in MessageOwned)
    /\ i \in Draining => i \in held
    /\ ~destroy_requested =>
          /\ i \in hmap => i \in held /\ i \in heap \cup MessageOwned
          /\ i \in heap \cup MessageOwned => (i \in hmap <=> i \notin removed)
    /\ destroy_requested /\ i \in MessageOwned => i \in removed
    /\ ~retired /\ i \in held /\ phase[Owner[i]] # "drained" => i \in hmap

(* Every item that is allocated has exactly one owner that will free it:   *)
(* the heap, its message or a draining worker; nothing is freed twice or   *)
(* used afterwards, whichever of renewal, removal, refusal, cancellation,  *)
(* drain and destruction meet a posted message.  posted_messages counts    *)
(* the messages, every one of them has a slot kept in the heap, and the    *)
(* table goes with the last of them, with nothing left behind.             *)
IdleInv ==
    /\ TypeOK
    /\ ~fault
    /\ posted = Cardinality(MessageOwned) + Cardinality(Releasing)
    /\ {i \in Items : mem[i] = "live"} = heap \cup MessageOwned \cup Draining
    /\ heap \cap MessageOwned = {} /\ heap \cap Draining = {}
    /\ MessageOwned \cap Draining = {}
    /\ table = "live" => Cardinality(heap) + Cardinality(MessageOwned) <= cap
    /\ table = "freed" <=> destroy_requested /\ posted = 0
    /\ destroy_requested => heap = {}
    /\ \A i, j \in hmap : Key[i] = Key[j] => i = j
    /\ OnePlace /\ Threads /\ \A i \in Items : FlagsOf(i)

(* Removal suppresses expiration: the callback of an item is never called  *)
(* after its owner removed it, however far its message had come, nor a     *)
(* second time after it was allowed to expire.                             *)
CallbackOnlyHeld ==
    [][\A w \in Workers :
          /\ (pc'[w].at = "cb" /\ ~At(w, "cb")) => pc'[w].i \in held
          /\ drain[w] \ drain'[w] \subseteq held]_vars

(* An owner's handle stays good until it removes the item or the item's    *)
(* callback tells it: the expiry of an item and its cancellation leave the *)
(* item in the map, and a drain calls back every item it takes.  Only a    *)
(* drain while the timer still posts would drop one without a word.        *)
HandlesValid ==
    ~retired => \A i \in held : mem[i] = "live" /\ (i \in hmap \/ i \in Draining)

(* An item that its owner leaves alone is expired in the end, or handed    *)
(* back by the drain of its worker, though its messages may be refused,    *)
(* cancelled and posted again.                                             *)
HeldEnds == \A i \in Items : i \in held ~> (i \notin held \/ retired)
=============================================================================
