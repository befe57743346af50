--------------------------- MODULE QuiescenceGate ---------------------------
(***************************************************************************)
(* The operation-admission and quiescence gate of ww/base/quiescence_gate. *)
(*                                                                         *)
(* A lifecycle owner publishes a protected object behind one atomic word   *)
(* and reclaims it only after closing the gate and waiting for the word's  *)
(* entry count to reach zero.  Operations enter with a load and a          *)
(* compare-and-swap loop and leave with an atomic subtraction.  The same   *)
(* gate is opened again for the next generation of the object, so a        *)
(* compare-and-swap can succeed against a word loaded generations ago.     *)
(*                                                                         *)
(* The word keeps its width: it is a number in 0 .. 2*CLOSED-1 whose top   *)
(* bit is CLOSED and whose low bits count the operations inside.           *)
(***************************************************************************)
EXTENDS Integers, FiniteSets

CONSTANTS
    Entrants,   \* operations that may enter the gate (one nested entry each)
    CLOSED,     \* QUIESCENCE_GATE_CLOSED, the weight of the top bit
    MaxGen      \* bound: generations of the protected object

ASSUME GateAssumption ==
    /\ IsFiniteSet(Entrants)
    /\ CLOSED \in Nat \ {0}
    /\ MaxGen \in Nat \ {0}

VARIABLES
    word,       \* gate->state
    pc,         \* pc[e]: where operation e is in Enter / the body / Leave
    seen,       \* seen[e]: the local `state` of quiescenceGateEnter
    owner,      \* the lifecycle owner: "down", "open" or "closing"
    data,       \* generation of the protected object; 0 once reclaimed
    held,       \* held[e]: the generation e is using while inside
    gen,        \* generations installed so far
    aborted     \* quiescenceGateAbortUnderflow was called

vars == <<word, pc, seen, owner, data, held, gen, aborted>>

Width == 2 * CLOSED
COUNT_MASK == CLOSED - 1

IsClosed(s) == s >= CLOSED
Count(s) == IF IsClosed(s) THEN s - CLOSED ELSE s

Inside == {e \in Entrants : pc[e] = "in"}

-----------------------------------------------------------------------------
(* The gate is initialised closed and empty; nothing is installed yet.     *)
Init ==
    /\ word = CLOSED
    /\ pc = [e \in Entrants |-> "out"]
    /\ seen = [e \in Entrants |-> 0]
    /\ owner = "down"
    /\ data = 0
    /\ held = [e \in Entrants |-> 0]
    /\ gen = 0
    /\ aborted = FALSE

\* Mutant of Check: the saturation test is missing.
Check_NoSaturation(e, s) ==
    /\ seen' = [seen EXCEPT ![e] = s]
    /\ pc' = [pc EXCEPT ![e] = IF IsClosed(s) THEN "out" ELSE "cas"]

(* One pass of the loop of quiescenceGateEnter over the loaded value s:    *)
(* refuse a closed or a saturated gate, or go on to the compare-and-swap.  *)
Check(e, s) ==
    /\ seen' = [seen EXCEPT ![e] = s]
    /\ pc' = [pc EXCEPT ![e] = IF IsClosed(s) \/ Count(s) = COUNT_MASK
                               THEN "out" ELSE "cas"]

EnterLoad(e) ==
    /\ pc[e] = "out"
    /\ Check(e, word)
    /\ UNCHANGED <<word, owner, data, held, gen, aborted>>

(* The compare-and-swap stores the loaded value plus one.                  *)
EnterCas(e) ==
    /\ pc[e] = "cas"
    /\ word = seen[e]
    /\ word' = (seen[e] + 1) % Width
    /\ pc' = [pc EXCEPT ![e] = "in"]
    /\ held' = [held EXCEPT ![e] = data]
    /\ UNCHANGED <<seen, owner, data, gen, aborted>>

(* The weak compare-and-swap fails on a changed word, or spuriously, and   *)
(* reloads the word for the next pass of the loop.                         *)
EnterCasFail(e) ==
    /\ pc[e] = "cas"
    /\ Check(e, word)
    /\ UNCHANGED <<word, owner, data, held, gen, aborted>>

\* Mutant of Leave: the operation leaves without giving its entry back.
Leave_NoSubtract(e) ==
    /\ pc[e] = "in"
    /\ pc' = [pc EXCEPT ![e] = "out"]
    /\ held' = [held EXCEPT ![e] = 0]
    /\ UNCHANGED <<word, seen, owner, data, gen, aborted>>

(* The fetch-and-subtract; a count that was zero aborts the program.       *)
Leave(e) ==
    /\ pc[e] = "in"
    /\ word' = (word - 1) % Width
    /\ aborted' = (Count(word) = 0)
    /\ pc' = [pc EXCEPT ![e] = "out"]
    /\ held' = [held EXCEPT ![e] = 0]
    /\ UNCHANGED <<seen, owner, data, gen>>

(* The owner installs the object and opens the closed, quiesced gate.      *)
OwnerOpen ==
    /\ owner = "down"
    /\ gen < MaxGen
    /\ word = CLOSED
    /\ gen' = gen + 1
    /\ data' = gen + 1
    /\ word' = 0
    /\ owner' = "open"
    /\ UNCHANGED <<pc, seen, held, aborted>>

(* fetch-or of the closed bit.                                             *)
OwnerClose ==
    /\ owner = "open"
    /\ word' = CLOSED + Count(word)
    /\ owner' = "closing"
    /\ UNCHANGED <<pc, seen, data, held, gen, aborted>>

(* quiescenceGateWaitQuiesced returns and the owner reclaims the object.   *)
OwnerWaitQuiesced ==
    /\ owner = "closing"
    /\ Count(word) = 0
    /\ owner' = "down"
    /\ data' = 0
    /\ UNCHANGED <<word, pc, seen, held, gen, aborted>>

Next ==
    \/ \E e \in Entrants : EnterLoad(e)
    \/ \E e \in Entrants : EnterCas(e)
    \/ \E e \in Entrants : EnterCasFail(e)
    \/ \E e \in Entrants : Leave(e)
    \/ OwnerOpen
    \/ OwnerClose
    \/ OwnerWaitQuiesced

(* An operation inside runs a short non-blocking path and leaves; the      *)
(* waiting owner keeps polling.  Nothing forces an operation to enter, nor *)
(* the owner to open or to close.                                          *)
Fairness ==
    /\ \A e \in Entrants : WF_vars(Leave(e))
    /\ WF_vars(OwnerWaitQuiesced)

Spec == Init /\ [][Next]_vars
FairSpec == Spec /\ Fairness

-----------------------------------------------------------------------------
(* The type invariant of the gate, its operations and its owner.           *)
TypeOK ==
    /\ word \in 0 .. Width - 1
    /\ pc \in [Entrants -> {"out", "cas", "in"}]
    /\ seen \in [Entrants -> 0 .. Width - 1]
    /\ owner \in {"down", "open", "closing"}
    /\ data \in 0 .. MaxGen
    /\ held \in [Entrants -> 0 .. MaxGen]
    /\ gen \in 0 .. MaxGen
    /\ aborted \in BOOLEAN

(* The count bits are exactly the operations inside the gate, whatever     *)
(* order loads, swaps, leaves, closes and reopenings take.                 *)
CountIsInside == Count(word) = Cardinality(Inside)

(* The closed bit says what the owner last did: an entry into a nearly     *)
(* full gate never carries into it and a leave never borrows from it.      *)
ClosedBitIsOwners == IsClosed(word) <=> owner # "open"

(* An operation inside uses the generation that is still installed, from   *)
(* its successful swap until it leaves: the owner never reclaims (or       *)
(* replaces) the object under it.                                          *)
ProtectedWhileInside ==
    \A e \in Inside : held[e] = data /\ data # 0

(* The underflow abort of quiescenceGateLeave is unreachable.              *)
NoUnderflow == ~aborted

(* A reclaimed gate is the word CLOSED, so that the next open succeeds.    *)
DownIsQuiesced == owner = "down" => word = CLOSED

(* A loaded value waiting for its swap is an open, unsaturated word, even  *)
(* if the gate has been closed and opened since.                           *)
SeenIsOpen ==
    \A e \in Entrants : pc[e] = "cas" => seen[e] < COUNT_MASK

(* Safety of the gate: the inductive invariant.                            *)
GateInv ==
    /\ TypeOK
    /\ CountIsInside
    /\ ClosedBitIsOwners
    /\ ProtectedWhileInside
    /\ NoUnderflow
    /\ DownIsQuiesced
    /\ SeenIsOpen
    /\ owner = "down" <=> data = 0

(* Once the closed bit is set the count only falls: no late entry slips    *)
(* in between the close and the reclamation.                               *)
ClosedOnlyDrains ==
    [][IsClosed(word) /\ IsClosed(word') => Count(word') <= Count(word)]_vars

(* A closed gate is eventually quiesced and its object reclaimed.          *)
CloseQuiesces == owner = "closing" ~> owner = "down"
=============================================================================
