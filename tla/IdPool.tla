------------------------------- MODULE IdPool -------------------------------
(***************************************************************************)
(* What nas::id_generator_t promises (nas_base_utils.h): a pool of the IDs *)
(* 0..capacity.  alloc_id finds an unused ID and marks it used, or fails   *)
(* when there is none; ID 0 is never allocated but may be reserved.        *)
(***************************************************************************)
EXTENDS Naturals

CONSTANT Ids   \* IDs that callers may name

VARIABLES capacity, \* the max_ids the generator in place was built for
          used,     \* IDs handed out or reserved
          result    \* what the last call answered

poolVars == <<capacity, used, result>>

Answer(op, id, ok) == [op |-> op, id |-> id, ok |-> ok]

PoolInit(max) ==
  /\ capacity = max
  /\ used = {}
  /\ result = Answer("none", 0, TRUE)

Allocate ==
  \E id \in (1..capacity) \ used :
    /\ used' = used \cup {id}
    /\ result' = Answer("alloc", id, TRUE)
    /\ UNCHANGED capacity

AllocateFails ==
  /\ 1..capacity \subseteq used
  /\ result' = Answer("alloc", 0, FALSE)
  /\ UNCHANGED <<capacity, used>>

Reserve(id) ==
  /\ result' = Answer("reserve", id, id \in (0..capacity) \ used)
  /\ used' = IF id \in 0..capacity THEN used \cup {id} ELSE used
  /\ UNCHANGED capacity

Release(id) ==
  /\ used' = used \ {id}
  /\ result' = Answer("release", id, TRUE)
  /\ UNCHANGED capacity

\* a newly built generator is moved into this one
Replace ==
  /\ capacity' \in Nat
  /\ used' = {}
  /\ result' = Answer("move", 0, TRUE)

PoolNext ==
  \/ Allocate \/ AllocateFails \/ Replace
  \/ \E id \in Ids : Reserve(id) \/ Release(id)

=============================================================================
