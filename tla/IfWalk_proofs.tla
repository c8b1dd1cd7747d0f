---------------------------- MODULE IfWalk_proofs ----------------------------
(***************************************************************************)
(* Proofs about walks over the interface database, for any number of       *)
(* walkers and of threads that register and deregister.                    *)
(***************************************************************************)
EXTENDS IfWalk, IfMapping_proofs, WellFoundedInduction

-----------------------------------------------------------------------------

\* A set of indexes that is not empty has a least element, which Lowest
\* chooses: begin() and upper_bound() of std::set.
LEMMA LowestIsLeast ==
  ASSUME NEW S, S \subseteq Nat, S # {}
  PROVE  Lowest(S) \in S /\ \A j \in S : Lowest(S) <= j
<1> DEFINE less == {ss \in Nat \X Nat : ss[1] < ss[2]}
<1>1. IsWellFoundedOn(less, Nat)
  BY NatLessThanWellFounded DEF OpToRel
<1>2. \A i, j \in Nat : <<j, i>> \in less <=> j < i
  OBVIOUS
<1> HIDE DEF less
<1>3. PICK i \in S : \A j \in S : ~(<<j, i>> \in less)
  BY <1>1, WFMin
<1>4. ASSUME NEW j \in S PROVE i <= j
  <2>1. i \in Nat /\ j \in Nat
    OBVIOUS
  <2>2. ~(j < i)
    BY <1>2, <1>3, <2>1
  <2> QED BY <2>1, <2>2
<1> QED BY <1>4 DEF Lowest

\* The walk's state: what stayed registered was returned or is still ahead.
WalkTypes ==
  /\ phase \in [Walkers -> {"idle", "walking", "done"}]
  /\ ifindex \in [Walkers -> Nat]
  /\ DOMAIN seen = Walkers /\ DOMAIN stayed = Walkers

SeenOrAhead ==
  \A w \in Walkers : phase[w] = "walking" =>
    /\ stayed[w] \subseteq Registered
    /\ \A j \in stayed[w] : j \in seen[w] \/ j > ifindex[w]

WalkInv == Inv /\ IfIndexesExact /\ WalkTypes /\ SeenOrAhead /\ WalkComplete

\* The set walked is that of the interfaces registered in VRF 0.
LEMMA WalkedSet ==
  ASSUME Inv, IfIndexesExact
  PROVE  if_indexes = Registered /\ if_indexes \subseteq Nat
<1>1. if_indexes = Registered
  BY DEF IfIndexesExact, Registered
<1>2. ASSUME NEW p \in Ptr, heap[p] # NULL PROVE heap[p].det.if_index \in Nat
  <2>1. heap[p] \in Records
    BY <1>2 DEF Inv, TypeOK
  <2> QED BY <2>1, DetailsAssumption DEF Records
<1> QED BY <1>1, <1>2 DEF Registered

\* The first call of a walk returns the lowest index; nothing is below it.
LEMMA GetFirstInv ==
  ASSUME WalkInv, NEW w \in Walkers, GetFirstIfindex(w)
  PROVE  WalkInv'
<1>0. Inv /\ IfIndexesExact /\ WalkTypes /\ SeenOrAhead /\ WalkComplete
  BY DEF WalkInv
<1>1. Inv' /\ IfIndexesExact' /\ Registered' = Registered
  BY <1>0 DEF GetFirstIfindex, vars, Inv, TypeOK, IndexConsistent, RecordsReachable,
             EntriesValid, IfIndexesExact, Registered
<1>2. PICK i \in (IF if_indexes = {} THEN Garbage ELSE {Lowest(if_indexes)}) :
        /\ ifindex' = [ifindex EXCEPT ![w] = i]
        /\ seen' = [seen EXCEPT ![w] = {i}]
  BY DEF GetFirstIfindex
<1>3. /\ phase' = [phase EXCEPT ![w] = "walking"]
      /\ stayed' = [stayed EXCEPT ![w] = Registered]
  BY DEF GetFirstIfindex
<1>4. i \in Nat /\ \A j \in Registered : j = i \/ j > i
  <2>1. CASE if_indexes = {}
    BY <1>0, <1>2, <2>1, WalkedSet, GarbageAssumption
  <2>2. CASE if_indexes # {}
    <3>1. i \in if_indexes /\ \A j \in if_indexes : i <= j
      BY <1>0, <1>2, <2>2, WalkedSet, LowestIsLeast
    <3>2. if_indexes \subseteq Nat /\ Registered = if_indexes
      BY <1>0, WalkedSet
    <3> QED BY <3>1, <3>2
  <2> QED BY <2>1, <2>2
<1>5. /\ phase'[w] = "walking" /\ ifindex'[w] = i /\ seen'[w] = {i}
      /\ stayed'[w] = Registered
      /\ \A v \in Walkers \ {w} : /\ phase'[v] = phase[v] /\ ifindex'[v] = ifindex[v]
                                  /\ seen'[v] = seen[v] /\ stayed'[v] = stayed[v]
  BY <1>0, <1>2, <1>3 DEF WalkTypes
<1>6. WalkTypes'
  BY <1>0, <1>2, <1>3, <1>4 DEF WalkTypes
<1>7. SeenOrAhead'
  BY <1>0, <1>1, <1>4, <1>5 DEF SeenOrAhead
<1>8. WalkComplete'
  BY <1>0, <1>5 DEF WalkComplete
<1> QED BY <1>1, <1>6, <1>7, <1>8 DEF WalkInv

\* A further call returns the next higher index and skips none in between, or
\* ends the walk when none is higher.
LEMMA GetNextInv ==
  ASSUME WalkInv, NEW w \in Walkers, GetNextIfindex(w)
  PROVE  WalkInv'
<1> DEFINE rest == Above(if_indexes, ifindex[w])
<1>0. /\ Inv /\ IfIndexesExact /\ WalkTypes /\ SeenOrAhead /\ WalkComplete
      /\ phase[w] = "walking" /\ ifindex[w] \in Nat /\ UNCHANGED stayed
  BY DEF WalkInv, GetNextIfindex, WalkTypes
<1>1. Inv' /\ IfIndexesExact' /\ Registered' = Registered
  BY <1>0 DEF GetNextIfindex, vars, Inv, TypeOK, IndexConsistent, RecordsReachable,
             EntriesValid, IfIndexesExact, Registered
<1>2. if_indexes = Registered /\ if_indexes \subseteq Nat
  BY <1>0, WalkedSet
<1>3. CASE /\ rest # {}
           /\ ifindex' = [ifindex EXCEPT ![w] = Lowest(rest)]
           /\ seen' = [seen EXCEPT ![w] = @ \cup {Lowest(rest)}]
           /\ UNCHANGED phase
  <2>1. Lowest(rest) \in Nat /\ Lowest(rest) \in rest /\ \A j \in rest : Lowest(rest) <= j
    <3>1. rest \subseteq Nat
      BY <1>2 DEF Above
    <3> HIDE DEF rest
    <3> QED BY <1>3, <3>1, LowestIsLeast
  <2>2. \A j \in Registered : j > ifindex[w] => j = Lowest(rest) \/ j > Lowest(rest)
    BY <1>0, <1>2, <2>1 DEF Above
  <2> HIDE DEF rest
  <2>3. /\ ifindex'[w] = Lowest(rest) /\ seen'[w] = seen[w] \cup {Lowest(rest)}
        /\ \A v \in Walkers \ {w} : ifindex'[v] = ifindex[v] /\ seen'[v] = seen[v]
    BY <1>0, <1>3 DEF WalkTypes
  <2>4. WalkTypes'
    BY <1>0, <1>3, <2>1 DEF WalkTypes
  <2>5. SeenOrAhead'
    BY <1>0, <1>1, <1>3, <2>2, <2>3 DEF SeenOrAhead
  <2>6. WalkComplete'
    BY <1>0, <1>3, <2>3 DEF WalkComplete
  <2> QED BY <1>1, <2>4, <2>5, <2>6 DEF WalkInv
<1>4. CASE /\ rest = {} /\ phase' = [phase EXCEPT ![w] = "done"]
           /\ UNCHANGED <<ifindex, seen>>
  <2>1. stayed[w] \subseteq seen[w]
    BY <1>0, <1>2, <1>4 DEF SeenOrAhead, Above
  <2>2. phase'[w] = "done" /\ \A v \in Walkers \ {w} : phase'[v] = phase[v]
    BY <1>0, <1>4 DEF WalkTypes
  <2>3. WalkTypes'
    BY <1>0, <1>4 DEF WalkTypes
  <2>4. SeenOrAhead'
    BY <1>0, <1>1, <1>4, <2>2 DEF SeenOrAhead
  <2>5. WalkComplete'
    BY <1>0, <1>4, <2>1, <2>2 DEF WalkComplete
  <2> QED BY <1>1, <2>3, <2>4, <2>5 DEF WalkInv
<1> QED BY <1>3, <1>4 DEF GetNextIfindex

\* A registration behind the walker is not part of what stayed; one that goes
\* leaves it.
LEMMA OtherCallInv ==
  ASSUME VrfAgree, WalkInv, OtherCall
  PROVE  WalkInv'
<1>0. Inv /\ IfIndexesExact /\ WalkTypes /\ SeenOrAhead /\ WalkComplete /\ Next
  BY DEF WalkInv, OtherCall
<1>1. Inv'
  BY <1>0, NextInv
<1>2. IfIndexesExact'
  BY <1>0, NextIndexes
<1>3. /\ UNCHANGED <<phase, ifindex, seen>> /\ DOMAIN stayed' = Walkers
      /\ \A w \in Walkers : stayed'[w] = stayed[w] \cap Registered'
  BY DEF OtherCall
<1>4. WalkTypes'
  BY <1>0, <1>3 DEF WalkTypes
<1>5. SeenOrAhead'
  BY <1>0, <1>3 DEF SeenOrAhead
<1>6. WalkComplete'
  BY <1>0, <1>3 DEF WalkComplete
<1> QED BY <1>1, <1>2, <1>4, <1>5, <1>6 DEF WalkInv

\* When details that share a key name the same VRF, a walk with
\* dn_hal_get_next_ifindex that has ended returned every interface that was
\* registered all along, although the lock is given up between its calls.
THEOREM WalksComplete ==
  ASSUME VrfAgree
  PROVE  WalkSpec => []WalkComplete
<1>1. WalkInit => WalkInv
  <2> SUFFICES ASSUME WalkInit PROVE WalkInv
    OBVIOUS
  <2>1. Inv
    BY InitInv DEF WalkInit
  <2>2. IfIndexesExact
    BY DEF WalkInit, Init, IfIndexesExact
  <2>3. WalkTypes /\ SeenOrAhead /\ WalkComplete
    BY DEF WalkInit, WalkTypes, SeenOrAhead, WalkComplete
  <2> QED BY <2>1, <2>2, <2>3 DEF WalkInv
<1>2. WalkInv /\ [WalkNext]_allVars => WalkInv'
  <2> SUFFICES ASSUME WalkInv, [WalkNext]_allVars PROVE WalkInv'
    OBVIOUS
  <2>1. CASE WalkNext
    BY <2>1, GetFirstInv, GetNextInv, OtherCallInv DEF WalkNext
  <2>2. CASE UNCHANGED allVars
    BY <2>2 DEF allVars, walkVars, vars, WalkInv, Inv, TypeOK, IndexConsistent,
               RecordsReachable, EntriesValid, IfIndexesExact, WalkTypes, SeenOrAhead,
               WalkComplete, Registered
  <2> QED BY <2>1, <2>2
<1>3. WalkInv => WalkComplete
  BY DEF WalkInv
<1> QED BY <1>1, <1>2, <1>3, PTL DEF WalkSpec

=============================================================================
