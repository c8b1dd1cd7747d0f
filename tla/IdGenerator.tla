----------------------------- MODULE IdGenerator -----------------------------
(***************************************************************************)
(* nas::id_generator_t (nas_base_utils.cpp): a bitmap of free IDs and the  *)
(* position _pos at which the next search starts.                          *)
(*                                                                         *)
(* The bitmap functions are external: std_bitmap_create_array returns      *)
(* whole bytes with every bit set, so that there are set bits past the     *)
(* last ID; std_find_first_bit returns the first set bit from a position.  *)
(***************************************************************************)
EXTENDS Naturals

CONSTANTS MaxIds,     \* constructor argument
          ArrayBits,  \* bits in the whole bytes of the bitmap
          TestIds,    \* IDs callers reserve and release
          MoveSizes   \* constructor arguments of generators moved into this one

ASSUME SizeAssumption ==
  /\ MaxIds \in Nat \ {0}
  /\ ArrayBits \in Nat /\ ArrayBits > MaxIds
  /\ MoveSizes \subseteq Nat
  /\ \A m \in MoveSizes : ArrayBits > m
  /\ TestIds \subseteq Nat

VARIABLES bitmap,   \* the set bits of _id_bitmap: unused IDs
          pos,      \* _pos
          capacity, \* history: the max_ids the bitmap was created for
          result,   \* what the last call answered
          watched,  \* an ID, whichever, whose allocations are watched
          spared    \* history: IDs that have been unused ever since alloc_id
                    \* returned the watched one last

vars == <<bitmap, pos, capacity, result, watched, spared>>

max_ids == MaxIds + 1

Answer(op, id, ok) == [op |-> op, id |-> id, ok |-> ok]

Init ==
  /\ bitmap = 0..(ArrayBits - 1)
  /\ pos = 1
  /\ capacity = MaxIds
  /\ result = Answer("none", 0, TRUE)
  /\ watched \in 1..MaxIds
  /\ spared = {}

\* std_find_first_bit returns b for a search from start
FirstBit(start, b) ==
  /\ b \in bitmap /\ b >= start
  /\ \A c \in bitmap : c >= start => b <= c

\* mutant: the result of the search is not compared with _max_ids
FindsUnchecked(start, b) == FirstBit(start, b)

Finds(start, b) == FirstBit(start, b) /\ b < max_ids

SparedAfter(b) == (IF b = watched THEN bitmap \cap 1..MaxIds ELSE spared) \ {b}

\* mutant: the search starts at the ID just returned
TakeStays(b) ==
  /\ bitmap' = bitmap \ {b}
  /\ pos' = b
  /\ result' = Answer("alloc", b, TRUE)
  /\ spared' = SparedAfter(b)
  /\ UNCHANGED <<capacity, watched>>

Take(b) ==
  /\ bitmap' = bitmap \ {b}
  /\ pos' = b + 1
  /\ result' = Answer("alloc", b, TRUE)
  /\ spared' = SparedAfter(b)
  /\ UNCHANGED <<capacity, watched>>

\* alloc_id: from _pos on, then once more from 1, then an exception
AllocAhead == pos < max_ids /\ \E b \in bitmap : Finds(pos, b) /\ Take(b)

Wraps == ~(pos < max_ids /\ \E b \in bitmap : Finds(pos, b))

AllocWrapped == Wraps /\ \E b \in bitmap : Finds(1, b) /\ Take(b)

AllocFails ==
  /\ Wraps /\ ~\E b \in bitmap : Finds(1, b)
  /\ pos' = 1
  /\ result' = Answer("alloc", 0, FALSE)
  /\ UNCHANGED <<bitmap, capacity, watched, spared>>

ReserveId(id) ==
  /\ result' = Answer("reserve", id, id < max_ids /\ id \in bitmap)
  /\ bitmap' = IF id < max_ids THEN bitmap \ {id} ELSE bitmap
  /\ spared' = spared \ {id}
  /\ UNCHANGED <<pos, capacity, watched>>

ReleaseId(id) ==
  /\ bitmap' = IF id < max_ids THEN bitmap \cup {id} ELSE bitmap
  /\ result' = Answer("release", id, TRUE)
  /\ UNCHANGED <<pos, capacity, watched, spared>>

\* operator= (&&) from a new generator: its bitmap and position are taken,
\* the const _max_ids of this object stays
MoveAssign(max) ==
  /\ bitmap' = 0..(ArrayBits - 1)
  /\ pos' = 1
  /\ capacity' = max
  /\ result' = Answer("move", 0, TRUE)
  /\ spared' = {}
  /\ UNCHANGED watched

Next ==
  \/ AllocAhead \/ AllocWrapped \/ AllocFails
  \/ \E id \in TestIds : ReserveId(id) \/ ReleaseId(id)
  \/ \E max \in MoveSizes : MoveAssign(max)

Spec == Init /\ [][Next]_vars

-----------------------------------------------------------------------------
(* Properties *)

used == (0..capacity) \ bitmap

Pool == INSTANCE IdPool WITH used <- used, Ids <- TestIds

\* The generator is a pool of the IDs 0..capacity: an ID is handed out only
\* while unused and in range, and alloc_id fails only when all are used.
ImplementsPool == Pool!PoolInit(MaxIds) /\ [][Pool!PoolNext]_(Pool!poolVars)

\* Every variable has its type; the search position stays within the IDs.
TypeOK ==
  /\ bitmap \subseteq 0..(ArrayBits - 1)
  /\ pos \in 1..max_ids
  /\ capacity \in Nat
  /\ result \in [op : {"none", "alloc", "reserve", "release", "move"},
                 id : Nat, ok : BOOLEAN]
  /\ watched \in 1..MaxIds
  /\ spared \subseteq 1..MaxIds

\* alloc_id goes round all the IDs: it does not return an ID a second time
\* while another one has been unused all the time since, whatever releases,
\* reservations, wraps and failed allocations come between.  (An ID that was
\* released later may well be returned before one released earlier.)
ReuseInTurn ==
  [][result'.op = "alloc" /\ result'.ok /\ result'.id = watched => spared = {}]_vars

=============================================================================
