----------------------- MODULE QuiescenceGateProofs -----------------------
(***************************************************************************)
(* The gate is safe for any finite set of operations, any width of the     *)
(* word and any number of generations.  GateInv is inductive as it stands: *)
(* the count bits equal the number of operations inside, and a value       *)
(* loaded before any number of closings and openings is still an open,     *)
(* unsaturated word, so that the swap that succeeds on it neither carries  *)
(* into the closed bit nor enters a closed gate.                           *)
(***************************************************************************)
EXTENDS QuiescenceGate, FiniteSetTheorems, TLAPS

(* The operations inside form a finite set whose cardinality is a natural  *)
(* number, zero exactly when it is empty.                                  *)
LEMMA InsideFinite ==
    ASSUME TypeOK
    PROVE  /\ IsFiniteSet(Inside)
           /\ Cardinality(Inside) \in Nat
           /\ Cardinality(Inside) = 0 <=> Inside = {}
<1>1. IsFiniteSet(Inside)
  BY GateAssumption, FS_Subset DEF Inside
<1> QED BY <1>1, FS_CardinalityType, FS_EmptySet

(* A word splits into its closed bit and its count.                        *)
LEMMA WordBits ==
    ASSUME NEW s \in 0 .. Width - 1
    PROVE  /\ Count(s) \in 0 .. COUNT_MASK
           /\ ~IsClosed(s) => s = Count(s)
           /\ IsClosed(s) => s = CLOSED + Count(s)
BY GateAssumption DEF Width, COUNT_MASK, IsClosed, Count

(* The initial state, a closed and empty gate, satisfies the invariant.    *)
LEMMA InitGate == Init => GateInv
<1> SUFFICES ASSUME Init PROVE GateInv OBVIOUS
<1>1. ClosedBitIsOwners /\ NoUnderflow /\ DownIsQuiesced
  BY GateAssumption DEF Init, ClosedBitIsOwners, NoUnderflow, DownIsQuiesced,
     IsClosed
<1>a. aborted \in BOOLEAN BY Zenon DEF Init
<1>t. TypeOK BY <1>a, GateAssumption DEF Init, TypeOK, Width
<1>2. Inside = {} BY DEF Init, Inside
<1>3. CountIsInside
  BY <1>2, FS_EmptySet, GateAssumption DEF CountIsInside, Init, Count, IsClosed
<1>4. ProtectedWhileInside /\ SeenIsOpen
  BY <1>2 DEF ProtectedWhileInside, SeenIsOpen, Init
<1> QED BY <1>1, <1>t, <1>3, <1>4 DEF GateInv, Init

(* Every step of the operations and of the owner preserves the invariant.  *)
LEMMA NextGate == GateInv /\ [Next]_vars => GateInv'
<1> SUFFICES ASSUME GateInv, [Next]_vars PROVE GateInv' OBVIOUS
<1> USE GateAssumption
<1>0. /\ TypeOK /\ CountIsInside /\ ClosedBitIsOwners /\ ProtectedWhileInside
      /\ NoUnderflow /\ DownIsQuiesced /\ SeenIsOpen
      /\ owner = "down" <=> data = 0
  BY DEF GateInv
<1>f. /\ IsFiniteSet(Inside) /\ Cardinality(Inside) \in Nat
      /\ Cardinality(Inside) = 0 <=> Inside = {}
  BY <1>0, InsideFinite
<1>1. ASSUME NEW e \in Entrants, pc[e] \in {"out", "cas"}, Check(e, word),
             UNCHANGED <<word, owner, data, held, gen, aborted>>
      PROVE  GateInv'
  <2>1. Inside' = Inside
    BY <1>0, <1>1 DEF Inside, Check, TypeOK
  <2>2. TypeOK' BY <1>0, <1>1 DEF TypeOK, Check
  <2>3. SeenIsOpen'
    BY <1>0, <1>1, WordBits DEF SeenIsOpen, Check, TypeOK, COUNT_MASK
  <2>4. ProtectedWhileInside'
    BY <1>0, <1>1, <2>1 DEF ProtectedWhileInside
  <2> QED
    BY <1>0, <1>1, <2>1, <2>2, <2>3, <2>4
    DEF GateInv, CountIsInside, ClosedBitIsOwners, NoUnderflow, DownIsQuiesced
<1>2. ASSUME NEW e \in Entrants, EnterLoad(e) PROVE GateInv'
  BY <1>1, <1>2 DEF EnterLoad
<1>3. ASSUME NEW e \in Entrants, EnterCasFail(e) PROVE GateInv'
  BY <1>1, <1>3 DEF EnterCasFail
<1>4. ASSUME NEW e \in Entrants, EnterCas(e) PROVE GateInv'
  <2>1. e \notin Inside /\ Inside' = Inside \cup {e}
    BY <1>0, <1>4 DEF Inside, EnterCas, TypeOK
  <2>2. Cardinality(Inside') = Cardinality(Inside) + 1
    BY <2>1, <1>f, FS_AddElement
  <2>3. word \in 0 .. COUNT_MASK - 1 /\ word' = word + 1 /\ ~IsClosed(word)
    BY <1>0, <1>4 DEF EnterCas, SeenIsOpen, TypeOK, COUNT_MASK, Width, IsClosed
  <2>4. ~IsClosed(word') BY <2>3 DEF IsClosed, COUNT_MASK
  <2>5. owner = "open" /\ data # 0
    BY <1>0, <2>3 DEF ClosedBitIsOwners, TypeOK
  <2>6. TypeOK'
    BY <1>0, <1>4, <2>3 DEF TypeOK, EnterCas, Width, COUNT_MASK
  <2>7. CountIsInside'
    BY <1>0, <2>2, <2>3, <2>4 DEF CountIsInside, Count
  <2>8. ProtectedWhileInside'
    BY <1>0, <1>4, <2>1, <2>5 DEF ProtectedWhileInside, EnterCas, TypeOK
  <2>9. SeenIsOpen'
    BY <1>0, <1>4 DEF SeenIsOpen, EnterCas, TypeOK
  <2> QED
    BY <1>0, <1>4, <2>4, <2>5, <2>6, <2>7, <2>8, <2>9
    DEF GateInv, ClosedBitIsOwners, NoUnderflow, DownIsQuiesced, EnterCas
<1>5. ASSUME NEW e \in Entrants, Leave(e) PROVE GateInv'
  <2>1. e \in Inside /\ Inside' = Inside \ {e}
    BY <1>0, <1>5 DEF Inside, Leave, TypeOK
  <2>2. Cardinality(Inside') = Cardinality(Inside) - 1
    BY <2>1, <1>f, FS_RemoveElement
  <2>3. Count(word) >= 1 BY <1>0, <1>f, <2>1 DEF CountIsInside
  <2>4. word' = word - 1 /\ word' \in 0 .. Width - 1
    BY <1>0, <1>5, <2>3 DEF Leave, TypeOK, Width, Count, IsClosed
  <2>5. Count(word') = Count(word) - 1 /\ (IsClosed(word') <=> IsClosed(word))
    BY <1>0, <2>3, <2>4 DEF Count, IsClosed, TypeOK, Width
  <2>6. TypeOK' BY <1>0, <1>5, <2>4 DEF TypeOK, Leave
  <2>7. CountIsInside' BY <1>0, <1>f, <2>2, <2>5 DEF CountIsInside
  <2>8. NoUnderflow'
    <3>1. ~(Count(word) = 0) BY <1>0, <1>f, <2>3 DEF CountIsInside
    <3>2. aborted' = (Count(word) = 0) BY <1>5 DEF Leave
    <3> QED BY <3>1, <3>2, Zenon DEF NoUnderflow
  <2>9. owner # "down" /\ owner' = owner /\ data' = data
    BY <1>0, <1>5, <2>1 DEF ProtectedWhileInside, Leave
  <2>10. ProtectedWhileInside'
    BY <1>0, <1>5, <2>1 DEF ProtectedWhileInside, Leave, TypeOK, Inside
  <2>11. SeenIsOpen' BY <1>0, <1>5 DEF SeenIsOpen, Leave, TypeOK
  <2> QED
    BY <1>0, <2>5, <2>6, <2>7, <2>8, <2>9, <2>10, <2>11
    DEF GateInv, ClosedBitIsOwners, DownIsQuiesced
<1>6. CASE OwnerOpen
  <2>1. Inside' = Inside /\ Inside = {}
    BY <1>0, <1>f, <1>6
    DEF OwnerOpen, Inside, CountIsInside, Count, IsClosed
  <2>2. TypeOK' BY <1>0, <1>6 DEF TypeOK, OwnerOpen, Width
  <2>3. CountIsInside'
    BY <1>6, <2>1, FS_EmptySet DEF CountIsInside, OwnerOpen, Count, IsClosed
  <2>4. SeenIsOpen' /\ ProtectedWhileInside'
    BY <1>0, <1>6, <2>1 DEF SeenIsOpen, ProtectedWhileInside, OwnerOpen
  <2> QED
    BY <1>0, <1>6, <2>2, <2>3, <2>4
    DEF GateInv, ClosedBitIsOwners, NoUnderflow, DownIsQuiesced, OwnerOpen,
        IsClosed, TypeOK
<1>7. CASE OwnerClose
  <2>1. Inside' = Inside BY <1>7 DEF OwnerClose, Inside
  <2>2. /\ word' \in 0 .. Width - 1 /\ IsClosed(word')
        /\ Count(word') = Count(word)
    BY <1>0, <1>7, WordBits
    DEF OwnerClose, TypeOK, Count, IsClosed, Width, COUNT_MASK
  <2>3. TypeOK' BY <1>0, <1>7, <2>2 DEF TypeOK, OwnerClose
  <2>4. CountIsInside' BY <1>0, <2>1, <2>2 DEF CountIsInside
  <2>5. SeenIsOpen' /\ ProtectedWhileInside'
    BY <1>0, <1>7, <2>1 DEF SeenIsOpen, ProtectedWhileInside, OwnerClose
  <2> QED
    BY <1>0, <1>7, <2>2, <2>3, <2>4, <2>5
    DEF GateInv, ClosedBitIsOwners, NoUnderflow, DownIsQuiesced, OwnerClose
<1>8. CASE OwnerWaitQuiesced
  <2>1. Inside' = Inside /\ Inside = {}
    BY <1>0, <1>f, <1>8 DEF OwnerWaitQuiesced, Inside, CountIsInside
  <2>2. word' = word /\ word = CLOSED
    BY <1>0, <1>8, WordBits
    DEF OwnerWaitQuiesced, ClosedBitIsOwners, TypeOK
  <2>3. TypeOK' BY <1>0, <1>8 DEF TypeOK, OwnerWaitQuiesced
  <2>4. CountIsInside' BY <1>0, <2>1, <2>2 DEF CountIsInside
  <2>5. SeenIsOpen' /\ ProtectedWhileInside'
    BY <1>0, <1>8, <2>1 DEF SeenIsOpen, ProtectedWhileInside, OwnerWaitQuiesced
  <2> QED
    BY <1>0, <1>8, <2>2, <2>3, <2>4, <2>5
    DEF GateInv, ClosedBitIsOwners, NoUnderflow, DownIsQuiesced,
        OwnerWaitQuiesced, IsClosed
<1>9. CASE UNCHANGED vars
  BY <1>0, <1>9
  DEF GateInv, TypeOK, CountIsInside, Inside, ClosedBitIsOwners,
      ProtectedWhileInside, NoUnderflow, DownIsQuiesced, SeenIsOpen, vars
<1> QED
  BY <1>2, <1>3, <1>4, <1>5, <1>6, <1>7, <1>8, <1>9 DEF Next

(* The gate is always safe: its count is exact, the closed bit belongs to  *)
(* the owner, an operation inside is never overtaken by reclamation, and   *)
(* the underflow abort cannot happen.                                      *)
THEOREM GateSafe == Spec => []GateInv
BY InitGate, NextGate, PTL DEF Spec

(* An operation that entered keeps its generation until it leaves: the     *)
(* object a generation publishes is never reclaimed under a user of it.    *)
THEOREM GateProtects == Spec => []ProtectedWhileInside
<1>1. GateInv => ProtectedWhileInside BY DEF GateInv
<1> QED BY GateSafe, <1>1, PTL

(* After a close the count only falls.                                     *)
THEOREM GateDrains == Spec => ClosedOnlyDrains
<1> DEFINE Drains ==
      IsClosed(word) /\ IsClosed(word') => Count(word') <= Count(word)
<1> USE GateAssumption
<1>1. ASSUME GateInv, [Next]_vars PROVE [Drains]_vars
  <2> SUFFICES ASSUME Next, IsClosed(word), IsClosed(word')
               PROVE  Count(word') <= Count(word)
    BY <1>1 DEF vars
  <2>0. TypeOK /\ SeenIsOpen /\ ClosedBitIsOwners BY <1>1 DEF GateInv
  <2>1. ASSUME NEW e \in Entrants, EnterCas(e) PROVE FALSE
    BY <2>0, <2>1 DEF EnterCas, SeenIsOpen, IsClosed, COUNT_MASK, TypeOK
  <2>2. ASSUME NEW e \in Entrants, Leave(e) PROVE Count(word') <= Count(word)
    BY <2>0, <2>2 DEF Leave, Count, IsClosed, TypeOK, Width
  <2>3. CASE UNCHANGED word
    BY <2>0, <2>3 DEF Count, IsClosed, TypeOK
  <2>4. CASE OwnerOpen
    BY <2>4 DEF OwnerOpen, IsClosed
  <2>5. CASE OwnerClose
    BY <2>0, <2>5 DEF OwnerClose, ClosedBitIsOwners
  <2> QED
    BY <2>1, <2>2, <2>3, <2>4, <2>5
    DEF Next, EnterLoad, EnterCasFail, OwnerWaitQuiesced
<1> QED BY <1>1, GateSafe, PTL DEF Spec, ClosedOnlyDrains
=============================================================================
