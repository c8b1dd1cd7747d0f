------------------------------- MODULE IfWalk -------------------------------
(***************************************************************************)
(* Threads that enumerate the interfaces with dn_hal_get_next_ifindex      *)
(* while other threads register and deregister.  The lock is held for one  *)
(* call, not for the walk: a walker keeps only the last index it was given.*)
(***************************************************************************)
EXTENDS IfMapping

CONSTANTS Walkers,
          Garbage     \* what reading *begin() of an empty std::set can yield

ASSUME GarbageAssumption == Garbage \subseteq Nat /\ Garbage # {}

VARIABLES phase,      \* "idle", "walking" or "done"
          ifindex,    \* the index last returned to the walker
          seen,       \* history: the indexes returned in this walk
          stayed      \* history: those of VRF 0 registered since its first call

walkVars == <<phase, ifindex, seen, stayed>>
allVars  == <<vars, walkVars>>

\* the interfaces of VRF 0, from the records themselves
Registered == {heap[p].det.if_index :
                 p \in {x \in Ptr : heap[x] # NULL /\ heap[x].det.vrf_id = 0}}

WalkInit ==
  /\ Init
  /\ phase = [w \in Walkers |-> "idle"]
  /\ ifindex = [w \in Walkers |-> 0]
  /\ seen = [w \in Walkers |-> {}]
  /\ stayed = [w \in Walkers |-> {}]

Lowest(S) == CHOOSE i \in S : \A j \in S : i <= j

\* mutant: one past upper_bound
AboveSkips(S, i) == {j \in S : j > i + 1}

\* mutant: lower_bound
AboveOrEqual(S, i) == {j \in S : j >= i}

\* what if_indexes.upper_bound(*ifindex) leaves to visit
Above(S, i) == {j \in S : j > i}

\* a null ifindex pointer: *if_indexes.begin(), with no test for an empty set
GetFirstIfindex(w) ==
  /\ phase[w] # "walking"
  /\ \E i \in (IF if_indexes = {} THEN Garbage ELSE {Lowest(if_indexes)}) :
       /\ ifindex' = [ifindex EXCEPT ![w] = i]
       /\ seen' = [seen EXCEPT ![w] = {i}]
  /\ phase' = [phase EXCEPT ![w] = "walking"]
  /\ stayed' = [stayed EXCEPT ![w] = Registered]
  /\ UNCHANGED vars

GetNextIfindex(w) ==
  LET rest == Above(if_indexes, ifindex[w]) IN
  /\ phase[w] = "walking"
  /\ \/ /\ rest # {}
        /\ ifindex' = [ifindex EXCEPT ![w] = Lowest(rest)]
        /\ seen' = [seen EXCEPT ![w] = @ \cup {Lowest(rest)}]
        /\ UNCHANGED phase
     \/ /\ rest = {}
        /\ phase' = [phase EXCEPT ![w] = "done"]
        /\ UNCHANGED <<ifindex, seen>>
  /\ UNCHANGED <<vars, stayed>>

\* another thread's call; stayed drops the interfaces it removes
OtherCall ==
  /\ Next
  /\ stayed' = [w \in Walkers |-> stayed[w] \cap Registered']
  /\ UNCHANGED <<phase, ifindex, seen>>

WalkNext ==
  \/ \E w \in Walkers : GetFirstIfindex(w) \/ GetNextIfindex(w)
  \/ OtherCall

\* a walker that was given an index calls again
WalkSpec ==
  /\ WalkInit
  /\ [][WalkNext]_allVars
  /\ \A w \in Walkers : WF_allVars(GetNextIfindex(w))

-----------------------------------------------------------------------------
(* Properties *)

\* A walk that has ended returned every interface that was registered from
\* its first call to its end, whatever came and went meanwhile.
WalkComplete ==
  \A w \in Walkers : phase[w] = "done" => stayed[w] \subseteq seen[w]

\* A walk ends although interfaces keep coming and going during it.
WalkTerminates ==
  \A w \in Walkers : phase[w] = "walking" ~> phase[w] = "done"

=============================================================================
