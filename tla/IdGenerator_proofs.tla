------------------------- MODULE IdGenerator_proofs -------------------------
(***************************************************************************)
(* Proofs about IdGenerator, for any capacity, bitmap size and set of IDs  *)
(* that callers name.                                                      *)
(***************************************************************************)
EXTENDS IdGenerator, WellFoundedInduction, TLAPS

\* A non-empty set of naturals has a least element.
LEMMA LeastNatural ==
  ASSUME NEW T \in SUBSET Nat, T # {}
  PROVE  \E b \in T : \A c \in T : b <= c
<1>1. PICK b \in T : \A c \in T : ~(<<c, b>> \in OpToRel(<, Nat))
  BY NatLessThanWellFounded, WFMin
<1>2. ASSUME NEW c \in T
      PROVE  b <= c
  <2>1. ~(c < b)
    BY <1>1 DEF OpToRel
  <2> QED BY <2>1
<1> QED BY <1>2

\* std_find_first_bit finds a bit when there is one, so that the search of
\* alloc_id misses no free ID between its start and _max_ids.
LEMMA SearchFinds ==
  ASSUME TypeOK, NEW start \in Nat, NEW c \in bitmap, c >= start, c < max_ids
  PROVE  \E b \in bitmap : Finds(start, b)
<1> DEFINE T == {x \in bitmap : x >= start}
<1>1. bitmap \subseteq Nat /\ max_ids \in Nat
  BY SizeAssumption DEF TypeOK, max_ids
<1>2. PICK b \in T : \A x \in T : b <= x
  BY <1>1, LeastNatural
<1>3. b < max_ids
  BY <1>1, <1>2
<1> QED BY <1>2, <1>3 DEF Finds, FirstBit

\* What alloc_id takes lies between 1 and MaxIds.
LEMMA TakeInv ==
  ASSUME TypeOK, NEW start \in Nat, start >= 1, NEW b \in bitmap,
         Finds(start, b), Take(b)
  PROVE  b \in 1..MaxIds /\ TypeOK'
<1>1. b \in Nat /\ b >= 1 /\ b <= MaxIds
  BY SizeAssumption DEF TypeOK, Finds, FirstBit, max_ids
<1>2. bitmap' \subseteq 0..(ArrayBits - 1)
  BY DEF Take, TypeOK
<1>3. pos' \in 1..max_ids
  BY <1>1, SizeAssumption DEF Take, max_ids
<1>4. capacity' \in Nat /\ watched' \in 1..MaxIds /\ spared' \subseteq 1..MaxIds
  BY DEF Take, SparedAfter, TypeOK
<1>5. result' \in [op : {"none", "alloc", "reserve", "release", "move"},
                   id : Nat, ok : BOOLEAN]
  BY <1>1 DEF Take, Answer
<1>6. TypeOK'
  BY <1>2, <1>3, <1>4, <1>5 DEF TypeOK, max_ids
<1>7. b \in 1..MaxIds
  BY <1>1, SizeAssumption
<1> QED BY <1>6, <1>7

\* A new generator is well-typed.
LEMMA InitInv == Init => TypeOK
  BY SizeAssumption DEF Init, TypeOK, Answer, max_ids

\* Every call keeps the types.
LEMMA NextInv == TypeOK /\ [Next]_vars => TypeOK'
<1> SUFFICES ASSUME TypeOK, [Next]_vars PROVE TypeOK'
  OBVIOUS
<1> USE SizeAssumption
<1>0. pos \in Nat /\ pos >= 1
  BY DEF TypeOK, max_ids
<1>1. CASE AllocAhead
  BY <1>0, <1>1, TakeInv DEF AllocAhead
<1>2. CASE AllocWrapped
  BY <1>2, TakeInv DEF AllocWrapped
<1>3. CASE AllocFails
  BY <1>3 DEF AllocFails, TypeOK, Answer, max_ids
<1>4. ASSUME NEW id \in TestIds, ReserveId(id)
      PROVE  TypeOK'
  <2>1. result' \in [op : {"none", "alloc", "reserve", "release", "move"},
                     id : Nat, ok : BOOLEAN]
    BY <1>4 DEF ReserveId, Answer
  <2> QED BY <1>4, <2>1 DEF ReserveId, TypeOK
<1>5. ASSUME NEW id \in TestIds, ReleaseId(id)
      PROVE  TypeOK'
  <2>1. result' \in [op : {"none", "alloc", "reserve", "release", "move"},
                     id : Nat, ok : BOOLEAN]
    BY <1>5 DEF ReleaseId, Answer
  <2>2. bitmap' \subseteq 0..(ArrayBits - 1)
    BY <1>5 DEF ReleaseId, TypeOK, max_ids
  <2> QED BY <1>5, <2>1, <2>2 DEF ReleaseId, TypeOK
<1>6. ASSUME NEW max \in MoveSizes, MoveAssign(max)
      PROVE  TypeOK'
  BY <1>6 DEF MoveAssign, TypeOK, Answer, max_ids
<1>7. CASE UNCHANGED vars
  BY <1>7 DEF vars, TypeOK
<1> QED BY <1>1, <1>2, <1>3, <1>4, <1>5, <1>6, <1>7 DEF Next

\* The generator's state stays well-typed, the position of the next search
\* within the IDs, for any capacity.
THEOREM TypeCorrect == Spec => []TypeOK
  BY InitInv, NextInv, PTL DEF Spec

-----------------------------------------------------------------------------
(* Refinement *)

\* When moves bring in only generators of the same capacity, the bitmap stays
\* that of the IDs 0..MaxIds.
PoolInv == TypeOK /\ capacity = MaxIds

\* An allocation takes an ID that the pool has unused.
LEMMA TakeAllocates ==
  ASSUME PoolInv, NEW start \in Nat, start >= 1, NEW b \in bitmap,
         Finds(start, b), Take(b)
  PROVE  Pool!Allocate
<1>1. b \in 1..MaxIds
  BY TakeInv DEF PoolInv
<1>2. capacity = MaxIds /\ capacity' = MaxIds
  BY DEF PoolInv, Take
<1>3. b \in (1..capacity) \ used
  BY <1>1, <1>2 DEF used
<1>4. b \in 0..capacity
  BY <1>1, <1>2, SizeAssumption
<1>5. used' = used \cup {b}
  BY <1>2, <1>4 DEF used, Take
<1> QED BY <1>3, <1>5 DEF Pool!Allocate, Pool!Answer, Answer, Take

\* alloc_id fails only when every ID is used.
LEMMA FailsWhenFull ==
  ASSUME PoolInv, AllocFails
  PROVE  Pool!AllocateFails
<1>1. 1..capacity \subseteq used
  <2> SUFFICES ASSUME NEW c \in 1..MaxIds, c \in bitmap PROVE FALSE
    BY SizeAssumption DEF PoolInv, used
  <2>1. c >= 1 /\ c < max_ids
    BY SizeAssumption DEF max_ids
  <2>2. TypeOK
    BY DEF PoolInv
  <2> QED BY <2>1, <2>2, SearchFinds DEF AllocFails
<1> QED BY <1>1 DEF Pool!AllocateFails, Pool!Answer, Answer, AllocFails, used

\* Every call is a step of the pool.
LEMMA StepRefines ==
  ASSUME MoveSizes \subseteq {MaxIds}, PoolInv, [Next]_vars
  PROVE  [Pool!PoolNext]_(Pool!poolVars) /\ PoolInv'
<1> USE SizeAssumption
<1>0. pos \in Nat /\ pos >= 1 /\ capacity = MaxIds
  BY DEF PoolInv, TypeOK, max_ids
<1>1. capacity' = MaxIds
  BY <1>0 DEF Next, vars, AllocAhead, AllocWrapped, Take, AllocFails,
              ReserveId, ReleaseId, MoveAssign
<1>2. PoolInv'
  BY <1>1, NextInv DEF PoolInv
<1>3. CASE AllocAhead
  BY <1>0, <1>2, <1>3, TakeAllocates DEF AllocAhead, Pool!PoolNext
<1>4. CASE AllocWrapped
  BY <1>2, <1>4, TakeAllocates DEF AllocWrapped, Pool!PoolNext
<1>5. CASE AllocFails
  BY <1>2, <1>5, FailsWhenFull DEF Pool!PoolNext
<1>6. ASSUME NEW id \in TestIds, ReserveId(id)
      PROVE  Pool!Reserve(id)
  <2>1. id < max_ids <=> id \in 0..MaxIds
    BY DEF max_ids
  <2>2. result'
          = Pool!Answer("reserve", id, id \in (0..capacity) \ used)
    BY <1>0, <1>6, <2>1 DEF ReserveId, Answer, Pool!Answer, used
  <2>3. used' = IF id \in 0..capacity THEN used \cup {id} ELSE used
    BY <1>0, <1>6, <2>1 DEF ReserveId, used
  <2> QED BY <1>6, <2>2, <2>3 DEF ReserveId, Pool!Reserve
<1>7. ASSUME NEW id \in TestIds, ReleaseId(id)
      PROVE  Pool!Release(id)
  <2>1. id < max_ids <=> id \in 0..MaxIds
    BY DEF max_ids
  <2>2. used' = used \ {id}
    BY <1>0, <1>7, <2>1 DEF ReleaseId, used
  <2> QED BY <1>7, <2>2 DEF ReleaseId, Pool!Release, Pool!Answer, Answer
<1>8. ASSUME NEW max \in MoveSizes, MoveAssign(max)
      PROVE  Pool!Replace
  <2>1. used' = {}
    BY <1>1, <1>8 DEF MoveAssign, used
  <2> QED BY <1>1, <1>8, <2>1 DEF MoveAssign, Pool!Replace, Pool!Answer, Answer
<1>9. CASE UNCHANGED vars
  BY <1>2, <1>9 DEF vars, Pool!poolVars, used
<1> QED BY <1>2, <1>3, <1>4, <1>5, <1>6, <1>7, <1>8, <1>9 DEF Next, Pool!PoolNext

\* id_generator_t implements the pool of IDs, for any capacity and bitmap
\* size, as long as no generator of another capacity is moved into it.
THEOREM RefinesPool ==
  ASSUME MoveSizes \subseteq {MaxIds}
  PROVE  Spec => ImplementsPool
<1>1. Init => Pool!PoolInit(MaxIds) /\ PoolInv
  <2> SUFFICES ASSUME Init PROVE Pool!PoolInit(MaxIds) /\ PoolInv
    OBVIOUS
  <2>1. used = {}
    BY SizeAssumption DEF Init, used
  <2> QED BY <2>1, InitInv DEF Init, Pool!PoolInit, Pool!Answer, Answer, PoolInv
<1>2. PoolInv /\ [Next]_vars => [Pool!PoolNext]_(Pool!poolVars) /\ PoolInv'
  BY StepRefines
<1> QED BY <1>1, <1>2, PTL DEF Spec, ImplementsPool

-----------------------------------------------------------------------------
(* Reuse *)

\* The search comes to an ID that was spared before it comes back to the
\* watched one: the position lies past the watched ID and not past the spared
\* one, in the order in which the search goes round.
Between(f) ==
  /\ watched < f => watched < pos /\ pos <= f
  /\ f < watched => pos > watched \/ pos <= f

\* The inductive invariant.
TurnInv ==
  /\ TypeOK
  /\ \A f \in spared : f \in bitmap /\ f # watched /\ Between(f)

\* The step of ReuseInTurn.
TurnStep == result'.op = "alloc" /\ result'.ok /\ result'.id = watched => spared = {}

\* What alloc_id takes is at most any free ID ahead of the position, and when
\* there is none ahead at most any free ID.
LEMMA TakesFirst ==
  ASSUME TypeOK, NEW b, AllocAhead \/ AllocWrapped,
         result'.id = b
  PROVE  /\ b \in 1..MaxIds /\ Take(b)
         /\ \A f \in bitmap \cap 1..MaxIds :
              IF f >= pos THEN pos <= b /\ b <= f
              ELSE b >= pos \/ b <= f
<1> USE SizeAssumption
<1>0. pos \in Nat /\ pos >= 1 /\ bitmap \subseteq Nat
  BY DEF TypeOK, max_ids
<1>1. CASE AllocAhead
  <2>1. PICK x \in bitmap : Finds(pos, x) /\ Take(x)
    BY <1>1 DEF AllocAhead
  <2>2. x = b
    BY <2>1 DEF Take, Answer
  <2>3. b \in 1..MaxIds
    BY <1>0, <2>1, <2>2, TakeInv
  <2> QED BY <2>1, <2>2, <2>3 DEF Finds, FirstBit
<1>2. CASE AllocWrapped
  <2>1. PICK x \in bitmap : Finds(1, x) /\ Take(x)
    BY <1>2 DEF AllocWrapped
  <2>2. x = b
    BY <2>1 DEF Take, Answer
  <2>3. b \in 1..MaxIds
    BY <2>1, <2>2, TakeInv
  <2>4. ASSUME NEW f \in bitmap \cap 1..MaxIds
        PROVE  ~(f >= pos) /\ b <= f
    <3>1. b <= f
      BY <2>1, <2>2 DEF Finds, FirstBit
    <3>2. CASE f >= pos
      <4>1. f < max_ids /\ pos < max_ids
        BY <1>0, <3>2 DEF max_ids
      <4> QED BY <1>0, <1>2, <3>2, <4>1, SearchFinds DEF AllocWrapped, Wraps
    <3> QED BY <3>1, <3>2
  <2> QED BY <2>1, <2>2, <2>3, <2>4
<1> QED BY <1>1, <1>2

\* An allocation keeps the invariant, and does not return the watched ID while
\* another one is spared.
LEMMA AllocTurn ==
  ASSUME TurnInv, AllocAhead \/ AllocWrapped, TypeOK'
  PROVE  TurnInv' /\ TurnStep
<1> USE SizeAssumption
<1> DEFINE b == result'.id
<1>1. /\ b \in 1..MaxIds /\ Take(b)
      /\ \A f \in bitmap \cap 1..MaxIds :
           IF f >= pos THEN pos <= b /\ b <= f ELSE b >= pos \/ b <= f
  BY TakesFirst DEF TurnInv
<1>2. /\ bitmap' = bitmap \ {b} /\ pos' = b + 1 /\ watched' = watched
      /\ spared' = (IF b = watched THEN bitmap \cap 1..MaxIds ELSE spared) \ {b}
  BY <1>1 DEF Take, SparedAfter
<1> HIDE DEF b
<1>3. b \in Nat /\ pos \in Nat /\ watched \in Nat /\ spared \subseteq 1..MaxIds
  BY <1>1 DEF TurnInv, TypeOK, max_ids
<1>4. ASSUME NEW f \in spared, b = watched
      PROVE  FALSE
  <2>1. /\ f \in bitmap \cap 1..MaxIds /\ f \in Nat /\ f # watched
        /\ watched < f => watched < pos /\ pos <= f
        /\ f < watched => pos > watched \/ pos <= f
    BY <1>3, <1>4 DEF TurnInv, Between
  <2>2. IF f >= pos THEN pos <= b /\ b <= f ELSE b >= pos \/ b <= f
    BY <1>1, <2>1
  <2> QED BY <1>3, <1>4, <2>1, <2>2
<1>5. TurnStep
  BY <1>4 DEF TurnStep, b
<1>6. ASSUME NEW f \in spared'
      PROVE  f \in bitmap' /\ f # watched' /\ Between(f)'
  <2>1. CASE b = watched
    <3>1. f \in bitmap \cap 1..MaxIds /\ f # b /\ f \in Nat
      BY <1>2, <2>1
    <3>2. Between(f)'
      BY <1>2, <1>3, <2>1, <3>1 DEF Between
    <3> QED BY <1>2, <2>1, <3>1, <3>2
  <2>2. CASE b # watched
    <3>1. f \in spared /\ f # b
      BY <1>2, <2>2
    <3>2. /\ f \in bitmap \cap 1..MaxIds /\ f \in Nat /\ f # watched
          /\ watched < f => watched < pos /\ pos <= f
          /\ f < watched => pos > watched \/ pos <= f
      BY <1>3, <3>1 DEF TurnInv, Between
    <3>3. IF f >= pos THEN pos <= b /\ b <= f ELSE b >= pos \/ b <= f
      BY <1>1, <3>2
    <3>4. /\ watched < f => watched < b + 1 /\ b + 1 <= f
          /\ f < watched => b + 1 > watched \/ b + 1 <= f
      BY <1>3, <3>1, <3>2, <3>3
    <3> QED BY <1>2, <3>1, <3>2, <3>4 DEF Between
  <2> QED BY <2>1, <2>2
<1> QED BY <1>5, <1>6 DEF TurnInv

\* Every call keeps the invariant and the turn.
LEMMA NextTurn ==
  ASSUME TurnInv, [Next]_vars, TypeOK'
  PROVE  TurnInv' /\ [TurnStep]_vars
<1>1. CASE AllocAhead \/ AllocWrapped
  BY <1>1, AllocTurn
<1>2. CASE AllocFails
  <2>1. ASSUME NEW f \in spared PROVE FALSE
    <3>1. f \in bitmap /\ f >= 1 /\ f < max_ids
      BY SizeAssumption DEF TurnInv, TypeOK, max_ids
    <3> QED BY <1>2, <3>1, SearchFinds DEF AllocFails, TurnInv
  <2>2. spared' = {}
    BY <1>2, <2>1 DEF AllocFails
  <2>3. TurnStep
    BY <1>2 DEF AllocFails, Answer, TurnStep
  <2> QED BY <2>2, <2>3 DEF TurnInv
<1>3. ASSUME NEW id \in TestIds, ReserveId(id)
      PROVE  TurnInv' /\ TurnStep
  BY <1>3 DEF ReserveId, TurnInv, Between, Answer, TurnStep
<1>4. ASSUME NEW id \in TestIds, ReleaseId(id)
      PROVE  TurnInv' /\ TurnStep
  BY <1>4 DEF ReleaseId, TurnInv, Between, Answer, TurnStep
<1>5. ASSUME NEW max \in MoveSizes, MoveAssign(max)
      PROVE  TurnInv' /\ TurnStep
  BY <1>5 DEF MoveAssign, TurnInv, Answer, TurnStep
<1>6. CASE UNCHANGED vars
  BY <1>6 DEF vars, TurnInv, Between
<1> QED BY <1>1, <1>2, <1>3, <1>4, <1>5, <1>6 DEF Next

\* alloc_id does not return an ID a second time while another one has been
\* unused all the time since, for any capacity and any ID.  The invariant
\* says where the search position lies between the two.
THEOREM ReusedInTurn == Spec => ReuseInTurn
<1>1. Init => TurnInv
  BY InitInv DEF Init, TurnInv
<1>2. TurnInv /\ [Next]_vars => TurnInv' /\ [TurnStep]_vars
  BY NextInv, NextTurn DEF TurnInv
<1>3. ReuseInTurn <=> [][TurnStep]_vars
  BY DEF ReuseInTurn, TurnStep
<1> QED BY <1>1, <1>2, <1>3, PTL DEF Spec

=============================================================================
