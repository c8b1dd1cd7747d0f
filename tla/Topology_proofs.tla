--------------------------- MODULE Topology_proofs ---------------------------
(***************************************************************************)
(* Proofs about what is filled from switch.xml and queried afterwards: the *)
(* tables of the switch topology, the key-value pairs of the NPU profile   *)
(* and the array of ACL groups, for any files.                             *)
(***************************************************************************)
EXTENDS SwitchTopology, ProfileWalk, FiniteSetTheorems, WellFoundedInduction, TLAPS

-----------------------------------------------------------------------------
(* Sequences and minima *)

\* What is left of a sequence after its head.
LEMMA TailIs ==
  ASSUME NEW S, NEW s \in Seq(S), s # <<>>
  PROVE  /\ Len(s) \in Nat /\ Len(s) > 0 /\ Head(s) = s[1] /\ Head(s) \in S
         /\ Tail(s) \in Seq(S) /\ Len(Tail(s)) = Len(s) - 1
         /\ \A j \in 1..(Len(s) - 1) : Tail(s)[j] = s[j + 1]
OBVIOUS

\* A sequence over a set is one over every larger set.
LEMMA SeqMonotonic ==
  ASSUME NEW S, NEW T, S \subseteq T, NEW s \in Seq(S)
  PROVE  s \in Seq(T)
<1>1. Len(s) \in Nat /\ s \in [1..Len(s) -> S]
  OBVIOUS
<1>2. s \in [1..Len(s) -> T]
  BY <1>1
<1> QED BY <1>1, <1>2

\* A set of natural numbers that is not empty has a least element.
LEMMA LeastExists ==
  ASSUME NEW S, S \subseteq Nat, S # {}
  PROVE  \E i \in S : \A j \in S : i <= j
<1> DEFINE below == {ss \in Nat \X Nat : ss[1] < ss[2]}
<1>1. IsWellFoundedOn(below, Nat)
  BY NatLessThanWellFounded DEF OpToRel
<1>2. \A i, j \in Nat : <<j, i>> \in below <=> j < i
  OBVIOUS
<1> HIDE DEF below
<1>3. PICK i \in S : \A j \in S : ~(<<j, i>> \in below)
  BY <1>1, WFMin
<1>4. ASSUME NEW j \in S PROVE i <= j
  <2>1. i \in Nat /\ j \in Nat
    OBVIOUS
  <2>2. ~(j < i)
    BY <1>2, <1>3, <2>1
  <2> QED BY <2>1, <2>2
<1> QED BY <1>4

\* Min takes it.
LEMMA MinIsLeast ==
  ASSUME NEW S, S \subseteq Nat, S # {}
  PROVE  Min(S) \in S /\ \A j \in S : Min(S) <= j
BY LeastExists DEF Min

\* A number of the set that is below all others is its Min.
LEMMA MinIs ==
  ASSUME NEW S, S \subseteq Nat, NEW m \in S, \A j \in S : m <= j
  PROVE  Min(S) = m
<1>1. Min(S) \in S /\ Min(S) <= m
  BY MinIsLeast
<1>2. Min(S) \in Nat /\ m \in Nat /\ m <= Min(S)
  BY <1>1
<1> QED BY <1>1, <1>2

-----------------------------------------------------------------------------
(* The switch topology *)

Nodes == UNION {{f[i] : i \in 1..Len(f)} : f \in Files}

SwitchNode(n) == n.kind = "switch"

\* A switch whose list of NPUs cannot be split is described once.
OneDescription(f) ==
  \A i, j \in 1..Len(f) :
    i < j /\ SwitchNode(f[i]) /\ SwitchNode(f[j]) /\ f[j].npus = BAD => f[i].id # f[j].id

\* The NPUs an entry counts are those it lists.
Counted(d) == d.number_of_npus = IF d.npus = MISS THEN 0 ELSE Len(d.npus)

\* The entry that a faulty node will overwrite counts no NPUs yet: the node
\* leaves the count and drops the list.
Untouched ==
  \A j \in 1..Len(file) :
    SwitchNode(file[j]) /\ file[j].npus = BAD /\ file[j].id \in 0..(number_of_switches - 1)
      => switch_cfg[file[j].id].number_of_npus = 0

\* The table has an entry for each switch of the inventory, in order unless
\* its list of NPUs got no memory.
TableInOrder ==
  /\ number_of_switches = 0 \/ DOMAIN switch_cfg = 0..(number_of_switches - 1)
  /\ \A id \in (0..(number_of_switches - 1)) \ lost : Counted(switch_cfg[id])

\* The inductive invariant.  A calloc that fails ends the parsing, so that no
\* node is looked at while something is lost.
TopoInv ==
  /\ file \in Seq(Nodes) /\ number_of_switches \in Nat
  /\ OneDescription(file)
  /\ lost # {} => topology_failed
  /\ MISS \notin lost => TableInOrder
  /\ lost = {} => Untouched

\* The nodes of a file have the attributes of their kind.
LEMMA NodeTypes ==
  ASSUME NEW n \in Nodes
  PROVE  /\ n.kind = "switch_topology" => n.switch_ids \in {MISS, BAD} \cup Seq(Nat)
         /\ n.kind = "switch" => /\ n.id \in Nat \cup {MISS}
                                 /\ n.npus \in {MISS, BAD} \cup Seq(Nat)
<1>1. PICK f \in Files : \E i \in 1..Len(f) : n = f[i]
  BY DEF Nodes
<1> QED BY <1>1, FilesAssumption

\* Leaving the first node behind keeps what is known of the rest.
LEMMA RestOfFile ==
  ASSUME TopoInv, file # <<>>, file' = Tail(file)
  PROVE  /\ Head(file) \in Nodes /\ file' \in Seq(Nodes) /\ OneDescription(file)'
         /\ \A j \in 1..Len(file') : \E i \in 2..Len(file) : file'[j] = file[i]
<1>1. /\ file \in Seq(Nodes) /\ Len(file) \in Nat /\ Len(file) > 0 /\ Head(file) \in Nodes
      /\ file' \in Seq(Nodes) /\ Len(file') = Len(file) - 1
      /\ \A j \in 1..(Len(file) - 1) : file'[j] = file[j + 1]
  BY TailIs DEF TopoInv
<1>2. \A j \in 1..Len(file') : j + 1 \in 2..Len(file) /\ file'[j] = file[j + 1]
  BY <1>1
<1>3. OneDescription(file)'
  <2> SUFFICES ASSUME NEW i \in 1..Len(file'), NEW j \in 1..Len(file'), i < j,
                      SwitchNode(file'[i]), SwitchNode(file'[j]), file'[j].npus = BAD
               PROVE  file'[i].id # file'[j].id
    BY DEF OneDescription, SwitchNode
  <2>1. i + 1 \in 1..Len(file) /\ j + 1 \in 1..Len(file) /\ i + 1 < j + 1
    BY <1>1
  <2> QED BY <1>2, <2>1 DEF TopoInv, OneDescription
<1> QED BY <1>1, <1>2, <1>3

\* A node that changes no entry.
LEMMA TablesKept ==
  ASSUME TopoInv, file # <<>>, file' = Tail(file),
         UNCHANGED <<number_of_switches, switch_cfg, lost>>,
         lost # {} => topology_failed'
  PROVE  TopoInv'
<1>1. /\ file' \in Seq(Nodes) /\ OneDescription(file)'
      /\ \A j \in 1..Len(file') : \E i \in 2..Len(file) : file'[j] = file[i]
  BY RestOfFile
<1>2. ASSUME lost = {} PROVE Untouched'
  <2> SUFFICES ASSUME NEW j \in 1..Len(file'), SwitchNode(file'[j]), file'[j].npus = BAD,
                      file'[j].id \in 0..(number_of_switches - 1)
               PROVE  switch_cfg[file'[j].id].number_of_npus = 0
    BY DEF Untouched, SwitchNode
  <2>1. PICK i \in 2..Len(file) : file'[j] = file[i]
    BY <1>1
  <2>2. i \in 1..Len(file)
    BY DEF TopoInv
  <2> QED BY <1>2, <2>1, <2>2 DEF TopoInv, Untouched
<1>3. MISS \notin lost => TableInOrder'
  BY DEF TopoInv, TableInOrder, Counted
<1> QED BY <1>1, <1>2, <1>3 DEF TopoInv

\* A "switch_topology" node makes a table of empty entries, or loses it.
LEMMA TopologyNode ==
  ASSUME TopoInv, ParseTopology
  PROVE  TopoInv'
<1>1. /\ file # <<>> /\ file' = Tail(file) /\ Head(file).kind = "switch_topology"
      /\ ~topology_failed /\ lost = {}
  BY DEF ParseTopology, Visit, TopoInv
<1>2. /\ Head(file) \in Nodes /\ file' \in Seq(Nodes) /\ OneDescription(file)'
      /\ \A j \in 1..Len(file') : \E i \in 2..Len(file) : file'[j] = file[i]
  BY <1>1, RestOfFile
<1>3. CASE UNCHANGED <<number_of_switches, switch_cfg, lost>>
  BY <1>1, <1>3, TablesKept
<1>4. ASSUME Head(file).switch_ids \notin {MISS, BAD},
             number_of_switches' = Len(Head(file).switch_ids)
      PROVE  Head(file).switch_ids \in Seq(Nat) /\ number_of_switches' \in Nat
  <2>1. Head(file).switch_ids \in Seq(Nat)
    BY <1>1, <1>2, <1>4, NodeTypes
  <2> QED BY <1>4, <2>1
<1>5. ASSUME Head(file).switch_ids \notin {MISS, BAD},
             number_of_switches' = Len(Head(file).switch_ids),
             switch_cfg' = [i \in 0..(Len(Head(file).switch_ids) - 1) |-> NoSwitch],
             UNCHANGED lost
      PROVE  TopoInv'
  <2>2. number_of_switches' \in Nat /\ DOMAIN switch_cfg' = 0..(number_of_switches' - 1)
    BY <1>4, <1>5
  <2>3. \A id \in 0..(number_of_switches' - 1) : switch_cfg'[id] = NoSwitch
    BY <1>5
  <2>4. Counted(NoSwitch) /\ NoSwitch.number_of_npus = 0
    BY DEF Counted, NoSwitch
  <2>5. TableInOrder'
    BY <2>2, <2>3, <2>4 DEF TableInOrder, Counted
  <2>6. Untouched'
    BY <2>3, <2>4 DEF Untouched
  <2> QED BY <1>1, <1>2, <1>5, <2>2, <2>5, <2>6 DEF TopoInv
<1>6. ASSUME Head(file).switch_ids \notin {MISS, BAD},
             number_of_switches' = Len(Head(file).switch_ids),
             topology_failed' = TRUE, lost' = {MISS}
      PROVE  TopoInv'
  BY <1>2, <1>4, <1>6 DEF TopoInv
<1> QED BY <1>3, <1>5, <1>6 DEF ParseTopology

\* A "switch" node writes the entry of its id, one of the inventory.
LEMMA SwitchNodeParsed ==
  ASSUME TopoInv, ParseSwitch
  PROVE  TopoInv'
<1> DEFINE node == Head(file)
<1>1. /\ file # <<>> /\ file' = Tail(file) /\ node.kind = "switch"
      /\ number_of_switches' = number_of_switches /\ lost = {}
  BY DEF ParseSwitch, Visit, TopoInv
<1>2. /\ node \in Nodes /\ file' \in Seq(Nodes) /\ OneDescription(file)'
      /\ \A j \in 1..Len(file') : \E i \in 2..Len(file) : file'[j] = file[i]
  BY <1>1, RestOfFile
<1>3. CASE switch_cfg' = switch_cfg /\ lost' = lost
  BY <1>1, <1>3, TablesKept
<1>4. ASSUME NEW got \in BOOLEAN,
             node.id # MISS, node.npus # MISS, ~(node.id >= number_of_switches),
             switch_cfg' = [i \in DOMAIN switch_cfg \cup {node.id} |->
                              IF i = node.id THEN Detail(node, got) ELSE switch_cfg[i]],
             topology_failed' = (node.npus = BAD \/ ~got),
             lost' = IF node.npus # BAD /\ ~got THEN {node.id} ELSE lost
      PROVE  TopoInv'
  <2>1. node.id \in Nat /\ (node.npus = BAD \/ node.npus \in Seq(Nat))
    BY <1>1, <1>2, <1>4, NodeTypes
  <2>2. /\ number_of_switches \in Nat /\ number_of_switches # 0
        /\ node.id \in 0..(number_of_switches - 1)
        /\ DOMAIN switch_cfg = 0..(number_of_switches - 1)
    BY <1>1, <1>4, <2>1 DEF TopoInv, TableInOrder
  <2>3. DOMAIN switch_cfg' = 0..(number_of_switches - 1)
    BY <1>4, <2>2
  <2>4. switch_cfg'[node.id] = Detail(node, got)
        /\ \A id \in 0..(number_of_switches - 1) : id # node.id => switch_cfg'[id] = switch_cfg[id]
    BY <1>4, <2>2
  <2>5. node.npus = BAD => switch_cfg[node.id].number_of_npus = 0
    <3>1. 1 \in 1..Len(file) /\ file[1] = node
      BY <1>1, TailIs DEF TopoInv
    <3> QED BY <1>1, <2>2, <3>1 DEF TopoInv, Untouched, SwitchNode
  <2>6. node.id \in lost' \/ Counted(Detail(node, got))
    BY <1>4, <2>5 DEF Counted, Detail
  <2>7. TableInOrder'
    <3>1. ASSUME NEW id \in (0..(number_of_switches - 1)) \ lost'
          PROVE  Counted(switch_cfg'[id])
      <4>1. CASE id = node.id
        BY <2>4, <2>6, <4>1
      <4>2. CASE id # node.id
        BY <1>1, <2>4, <4>2 DEF TopoInv, TableInOrder
      <4> QED BY <4>1, <4>2
    <3> QED BY <1>1, <2>3, <3>1 DEF TableInOrder, Counted
  <2>8. ASSUME NEW j \in 1..Len(file'), SwitchNode(file'[j]), file'[j].npus = BAD,
               file'[j].id \in 0..(number_of_switches - 1)
        PROVE  switch_cfg'[file'[j].id].number_of_npus = 0
    <3>1. PICK i \in 2..Len(file) : file'[j] = file[i]
      BY <1>2
    <3>2. i \in 1..Len(file) /\ 1 \in 1..Len(file) /\ 1 < i /\ file[1] = node
      BY <1>1, TailIs DEF TopoInv
    <3>3. node.id # file[i].id
      BY <1>1, <2>8, <3>1, <3>2 DEF TopoInv, OneDescription, SwitchNode
    <3>4. switch_cfg[file[i].id].number_of_npus = 0
      BY <1>1, <2>8, <3>1, <3>2 DEF TopoInv, Untouched
    <3> QED BY <2>4, <2>8, <3>1, <3>3, <3>4
  <2>9. Untouched'
    BY <1>1, <2>8 DEF Untouched, SwitchNode
  <2>10. lost' # {} => topology_failed'
    BY <1>1, <1>4
  <2> QED BY <1>1, <1>2, <2>2, <2>7, <2>9, <2>10 DEF TopoInv
<1> QED BY <1>3, <1>4 DEF ParseSwitch, IdOutOfRange

\* Every node keeps the tables in order.
LEMMA TopoStep == TopoInv /\ [TopoNext]_topoVars => TopoInv'
<1> SUFFICES ASSUME TopoInv, [TopoNext]_topoVars PROVE TopoInv'
  OBVIOUS
<1>1. CASE ParseFeature \/ SkipRest
  <2>1. /\ file # <<>> /\ file' = Tail(file)
        /\ UNCHANGED <<number_of_switches, switch_cfg, lost, topology_failed>>
    BY <1>1 DEF ParseFeature, SkipRest, Visit
  <2>2. lost # {} => topology_failed'
    BY <2>1 DEF TopoInv
  <2> QED BY <2>1, <2>2, TablesKept
<1>2. CASE UNCHANGED topoVars
  BY <1>2 DEF topoVars, TopoInv, TableInOrder, Untouched, OneDescription, SwitchNode, Counted
<1> QED BY <1>1, <1>2, TopologyNode, SwitchNodeParsed DEF TopoNext

\* There are no tables before the first node.
LEMMA TopoStart ==
  ASSUME TopoInit, OneDescription(file)
  PROVE  TopoInv
<1>1. file \in Files /\ file \in Seq({file[i] : i \in 1..Len(file)})
  BY FilesAssumption DEF TopoInit
<1>2. {file[i] : i \in 1..Len(file)} \subseteq Nodes
  BY <1>1 DEF Nodes
<1>3. file \in Seq(Nodes)
  BY <1>1, <1>2, SeqMonotonic
<1> QED BY <1>3 DEF TopoInit, TopoInv, TableInOrder, Untouched

\* At every point of the parsing, after a fault in the file as well, the
\* queries read within the tables, and a calloc that failed makes an exception
\* only of what it was for, for files that describe a switch with a faulty
\* list of NPUs once.
THEOREM QueriesSafe ==
  ASSUME \A f \in Files : OneDescription(f)
  PROVE  TopoSpec => []TopologyQueriesSafe
<1>1. ASSUME TopoInit PROVE TopoInv
  BY <1>1, TopoStart DEF TopoInit
<1>2. ASSUME TopoInv, MISS \notin lost PROVE TopologyQueriesSafe
  <2>0. number_of_switches \in Nat /\ TableInOrder
    BY <1>2 DEF TopoInv
  <2>1. ASSUME NEW id \in 0..MaxSwitches, NasSwitch(id) # MISS
        PROVE  /\ id \in 0..(number_of_switches - 1) /\ id < number_of_switches
               /\ NasSwitch(id) = switch_cfg[id]
    BY <2>0, <2>1, FilesAssumption DEF NasSwitch
  <2>2. \A id \in (0..MaxSwitches) \ lost : NasSwitch(id) # MISS => Counted(NasSwitch(id))
    BY <2>0, <2>1 DEF TableInOrder
  <2>3. ASSUME NEW id \in 0..MaxSwitches, NEW npu \in NpuIds,
               NasSwitch(id) # MISS, Lists(NasSwitch(id), npu)
        PROVE  /\ NasFindSwitchIdByNpu(npu) <= id
               /\ Lists(NasSwitch(NasFindSwitchIdByNpu(npu)), npu)
    <3> DEFINE hits == {x \in 0..MaxSwitches : x < number_of_switches /\ Lists(switch_cfg[x], npu)}
    <3>1. id \in hits /\ hits \subseteq Nat
      BY <2>1, <2>3, FilesAssumption
    <3>2. \E x \in hits : \A other \in hits : x <= other
      BY <3>1, LeastExists
    <3>3. NasFindSwitchIdByNpu(npu) = CHOOSE x \in hits : \A other \in hits : x <= other
      BY <3>1 DEF NasFindSwitchIdByNpu
    <3>4. NasFindSwitchIdByNpu(npu) \in hits /\ NasFindSwitchIdByNpu(npu) <= id
      BY <3>1, <3>2, <3>3
    <3>5. NasSwitch(NasFindSwitchIdByNpu(npu)) = switch_cfg[NasFindSwitchIdByNpu(npu)]
      BY <2>0, <3>4, FilesAssumption DEF NasSwitch
    <3> QED BY <3>4, <3>5
  <2>4. number_of_switches = 0 \/ DOMAIN switch_cfg = 0..(number_of_switches - 1)
    BY <2>0 DEF TableInOrder
  <2> QED BY <2>2, <2>3, <2>4 DEF TopologyQueriesSafe, Counted
<1>3. TopoInv => TopologyQueriesSafe
  BY <1>2 DEF TopologyQueriesSafe
<1> QED BY <1>1, <1>3, TopoStep, PTL DEF TopoSpec

-----------------------------------------------------------------------------
(* The number of NPUs *)

\* The switches have ids of their own, and the inventory is given once.
EachOnce(f) ==
  \A i, j \in 1..Len(f) : i < j =>
    /\ SwitchNode(f[i]) /\ SwitchNode(f[j]) => f[i].id # f[j].id
    /\ ~(f[i].kind = "switch_topology" /\ f[j].kind = "switch_topology")

Entries == 0..(number_of_switches - 1)

Places(id) == {id} \X (1..switch_cfg[id].number_of_npus)

\* What is counted so far: an entry that a later node fills lists nothing
\* yet, and there is no entry before the inventory, nor when its table is lost.
CountInv ==
  /\ TopoInv /\ EachOnce(file)
  /\ MISS \notin lost => \A id \in Entries : switch_cfg[id].number_of_npus \in Nat
  /\ MISS \notin lost => \A j \in 1..Len(file) :
       SwitchNode(file[j]) /\ file[j].id \in Entries
         => switch_cfg[file[j].id].number_of_npus = 0
  /\ (\E j \in 1..Len(file) : file[j].kind = "switch_topology") => number_of_switches = 0
  /\ IsFiniteSet(NpuPlaces) /\ num_switches = Cardinality(NpuPlaces)

PlacesAgree == MISS \notin lost => NpuPlaces = UNION {Places(id) : id \in Entries}

\* The queries answer with the entries of the table.
LEMMA PlacesOfEntries == TopoInv => PlacesAgree
<1> SUFFICES ASSUME TopoInv PROVE PlacesAgree
  OBVIOUS
<1>1. \A id \in Entries : NasSwitch(id) = switch_cfg[id]
  BY DEF TopoInv, Entries, NasSwitch
<1>2. \A id \in Entries : {id} \X (1..NasSwitch(id).number_of_npus) = Places(id)
  BY <1>1 DEF Places
<1> QED BY <1>2 DEF PlacesAgree, NpuPlaces, Entries

\* The same after a step.
LEMMA PlacesNext == TopoInv' => PlacesAgree'
<1> QED BY PlacesOfEntries, PTL

\* An entry with c NPUs has c places.
LEMMA PlacesCount ==
  ASSUME NEW id, NEW c \in Nat
  PROVE  /\ IsFiniteSet({id} \X (1..c))
         /\ Cardinality({id} \X (1..c)) = c
<1>1. IsFiniteSet({id}) /\ Cardinality({id}) = 1
  BY FS_Singleton
<1>2. IsFiniteSet(1..c) /\ Cardinality(1..c) = c
  <2>1. IsFiniteSet(1..c) /\ Cardinality(1..c) = IF 1 > c THEN 0 ELSE c - 1 + 1
    BY FS_Interval
  <2> QED BY <2>1
<1>3. IsFiniteSet({id} \X (1..c)) /\ Cardinality({id} \X (1..c)) = 1 * c
  <2> DEFINE S == {id}
             U == 1..c
  <2>1. IsFiniteSet(S) /\ IsFiniteSet(U)
    BY <1>1, <1>2
  <2> HIDE DEF S, U
  <2>2. IsFiniteSet(S \X U) /\ Cardinality(S \X U) = Cardinality(S) * Cardinality(U)
    BY <2>1, FS_Product
  <2>3. Cardinality(S) = 1 /\ Cardinality(U) = c
    BY <1>1, <1>2 DEF S, U
  <2>4. IsFiniteSet(S \X U) /\ Cardinality(S \X U) = 1 * c
    BY <2>2, <2>3
  <2> QED BY <2>4 DEF S, U
<1> QED BY <1>3

\* Leaving the first node behind keeps that each is given once.
LEMMA RestOnce ==
  ASSUME CountInv, file # <<>>, file' = Tail(file)
  PROVE  /\ Head(file) \in Nodes /\ Head(file) = file[1]
         /\ file' \in Seq(Nodes) /\ EachOnce(file)'
         /\ \A j \in 1..Len(file') : \E i \in 1..Len(file) : 1 < i /\ file'[j] = file[i]
         /\ 1 \in 1..Len(file)
<1>1. /\ file \in Seq(Nodes) /\ Len(file) \in Nat /\ Len(file) > 0 /\ Head(file) = file[1]
      /\ Head(file) \in Nodes /\ file' \in Seq(Nodes) /\ Len(file') = Len(file) - 1
      /\ \A j \in 1..(Len(file) - 1) : file'[j] = file[j + 1]
  BY TailIs DEF CountInv, TopoInv
<1>2. \A j \in 1..Len(file') :
        j + 1 \in 1..Len(file) /\ 1 < j + 1 /\ file'[j] = file[j + 1]
  BY <1>1
<1>3. EachOnce(file)'
  <2> SUFFICES ASSUME NEW i \in 1..Len(file'), NEW j \in 1..Len(file'), i < j
               PROVE  /\ SwitchNode(file'[i]) /\ SwitchNode(file'[j])
                           => file'[i].id # file'[j].id
                      /\ ~(file'[i].kind = "switch_topology"
                             /\ file'[j].kind = "switch_topology")
    BY DEF EachOnce, SwitchNode
  <2>1. i + 1 < j + 1
    BY <1>1
  <2> QED BY <1>2, <2>1 DEF CountInv, EachOnce
<1> QED BY <1>1, <1>2, <1>3

\* A node that changes no entry and no count.
LEMMA CountSame ==
  ASSUME CountInv, TopoInv', file # <<>>, file' = Tail(file),
         UNCHANGED <<number_of_switches, switch_cfg, num_switches, lost>>
  PROVE  CountInv'
<1>1. /\ EachOnce(file)'
      /\ \A j \in 1..Len(file') : \E i \in 1..Len(file) : file'[j] = file[i]
  BY RestOnce
<1>2. NpuPlaces' = NpuPlaces /\ Entries' = Entries
  BY DEF NpuPlaces, NasSwitch, Entries
<1> QED BY <1>1, <1>2 DEF CountInv, SwitchNode

\* The inventory comes before any entry: nothing is counted.
LEMMA CountTopology ==
  ASSUME CountInv, TopoInv', ParseTopology
  PROVE  CountInv'
<1>1. /\ file # <<>> /\ file' = Tail(file) /\ Head(file).kind = "switch_topology"
      /\ num_switches' = num_switches /\ lost = {}
  BY DEF ParseTopology, Visit, CountInv, TopoInv
<1>2. CASE UNCHANGED <<number_of_switches, switch_cfg, lost>>
  BY <1>1, <1>2, CountSame
<1>3. /\ Head(file) = file[1] /\ EachOnce(file)' /\ 1 \in 1..Len(file)
      /\ \A j \in 1..Len(file') : \E i \in 1..Len(file) : 1 < i /\ file'[j] = file[i]
  BY <1>1, RestOnce
<1>4. num_switches = 0
  <2>1. number_of_switches = 0
    BY <1>1, <1>3 DEF CountInv
  <2>2. NpuPlaces = {}
    BY <2>1 DEF NpuPlaces
  <2> QED BY <2>2, FS_EmptySet DEF CountInv
<1>5. ~\E j \in 1..Len(file') : file'[j].kind = "switch_topology"
  BY <1>1, <1>3 DEF CountInv, EachOnce
<1>6. ASSUME NpuPlaces' = {}
      PROVE  IsFiniteSet(NpuPlaces') /\ num_switches' = Cardinality(NpuPlaces')
  BY <1>1, <1>4, <1>6, FS_EmptySet
<1>7. CASE switch_cfg' = [i \in 0..(number_of_switches' - 1) |-> NoSwitch] /\ UNCHANGED lost
  <2>1. \A id \in Entries' : switch_cfg'[id].number_of_npus = 0
    BY <1>7 DEF Entries, NoSwitch
  <2>2. \A id \in Entries' : Places(id)' = {}
    BY <2>1 DEF Places
  <2>3. NpuPlaces' = {}
    BY <1>1, <1>7, <2>2, PlacesNext DEF PlacesAgree
  <2> QED BY <1>3, <1>5, <1>6, <2>1, <2>3 DEF CountInv
<1>8. CASE lost' = {MISS}
  <2>1. NpuPlaces' = {}
    BY <1>8 DEF NpuPlaces
  <2> QED BY <1>3, <1>5, <1>6, <1>8, <2>1 DEF CountInv
<1> QED BY <1>2, <1>7, <1>8 DEF ParseTopology

\* The NPUs of a switch are counted when its entry, empty until then, is
\* filled.
LEMMA CountSwitch ==
  ASSUME CountInv, TopoInv', ParseSwitch
  PROVE  CountInv'
<1> DEFINE node == Head(file)
<1>1. /\ file # <<>> /\ file' = Tail(file) /\ SwitchNode(node)
      /\ number_of_switches' = number_of_switches /\ lost = {}
  BY DEF ParseSwitch, Visit, SwitchNode, CountInv, TopoInv
<1>2. CASE UNCHANGED <<switch_cfg, num_switches, lost>>
  BY <1>1, <1>2, CountSame
<1>3. ASSUME NEW got \in BOOLEAN,
             node.id # MISS, node.npus # MISS, ~(node.id >= number_of_switches),
             switch_cfg' = [i \in DOMAIN switch_cfg \cup {node.id} |->
                              IF i = node.id THEN Detail(node, got) ELSE switch_cfg[i]],
             num_switches' = CountNpus(Detail(node, got)),
             MISS \notin lost'
      PROVE  CountInv'
  <2>0. /\ node \in Nodes /\ node = file[1] /\ EachOnce(file)' /\ 1 \in 1..Len(file)
        /\ \A j \in 1..Len(file') : \E i \in 1..Len(file) : 1 < i /\ file'[j] = file[i]
    BY <1>1, RestOnce
  <2>1. node.id \in Nat /\ (node.npus = BAD \/ node.npus \in Seq(Nat))
    BY <1>1, <1>3, <2>0, NodeTypes DEF SwitchNode
  <2>2. /\ TopoInv /\ number_of_switches \in Nat /\ node.id \in Entries /\ Entries' = Entries
        /\ DOMAIN switch_cfg = Entries
    BY <1>1, <1>3, <2>1 DEF CountInv, TopoInv, TableInOrder, Entries
  <2>3. /\ switch_cfg'[node.id] = Detail(node, got)
        /\ \A id \in Entries : id # node.id => switch_cfg'[id] = switch_cfg[id]
    BY <1>3, <2>2
  <2>4. switch_cfg[node.id].number_of_npus = 0
    BY <1>1, <2>0, <2>2 DEF CountInv
  <2> DEFINE c == Detail(node, got).number_of_npus
             new == {node.id} \X (1..c)
  <2>5. c \in Nat
    BY <2>1, <2>4 DEF Detail
  <2>6. num_switches' = num_switches + c
    BY <1>3 DEF CountNpus
  <2> HIDE DEF c
  <2> DEFINE old == [id \in Entries |-> Places(id)]
             now == [id \in Entries |-> {id} \X (1..switch_cfg'[id].number_of_npus)]
  <2>7. /\ now[node.id] = new /\ old[node.id] = {}
        /\ \A id \in Entries : id # node.id => now[id] = old[id]
    <3>1. 1..0 = {}
      OBVIOUS
    <3>2. Places(node.id) = {}
      BY <2>4, <3>1 DEF Places
    <3>3. switch_cfg'[node.id].number_of_npus = c
      BY <2>3 DEF c
    <3> QED BY <2>2, <2>3, <3>2, <3>3 DEF Places
  <2>8. /\ NpuPlaces = UNION {old[id] : id \in Entries}
        /\ NpuPlaces' = UNION {now[id] : id \in Entries}
    <3>1. /\ NpuPlaces = UNION {Places(id) : id \in Entries}
          /\ NpuPlaces' = UNION {Places(id)' : id \in Entries'}
      BY <1>1, <1>3, <2>2, PlacesOfEntries, PlacesNext DEF PlacesAgree
    <3>2. \A id \in Entries : old[id] = Places(id)
      OBVIOUS
    <3>3. \A id \in Entries : now[id] = Places(id)'
      BY DEF Places
    <3> HIDE DEF old, now
    <3> QED BY <2>2, <3>1, <3>2, <3>3
  <2>9. NpuPlaces' = NpuPlaces \cup new
    <3> HIDE DEF old, now, new
    <3>1. ASSUME NEW p PROVE p \in NpuPlaces' <=> p \in NpuPlaces \cup new
      BY <2>2, <2>7, <2>8
    <3> QED BY <3>1
  <2>10. NpuPlaces \cap new = {}
    <3>1. ASSUME NEW id \in Entries, NEW p \in old[id], p \in new PROVE FALSE
      <4>1. p[1] = id /\ p[1] = node.id
        BY <3>1 DEF Places
      <4> QED BY <2>7, <3>1, <4>1
    <3> HIDE DEF old, now, new
    <3> QED BY <2>8, <3>1
  <2>11. IsFiniteSet(new) /\ Cardinality(new) = c
    BY <2>5, PlacesCount
  <2> HIDE DEF new
  <2>12. IsFiniteSet(NpuPlaces') /\ num_switches' = Cardinality(NpuPlaces')
    <3>1. IsFiniteSet(NpuPlaces) /\ num_switches = Cardinality(NpuPlaces)
      BY DEF CountInv
    <3>2. /\ IsFiniteSet(NpuPlaces \cup new)
          /\ Cardinality(NpuPlaces \cup new) =
               Cardinality(NpuPlaces) + Cardinality(new) - Cardinality(NpuPlaces \cap new)
      BY <2>11, <3>1, FS_Union
    <3>3. Cardinality(NpuPlaces) \in Nat /\ Cardinality({}) = 0
      BY <3>1, FS_CardinalityType, FS_EmptySet
    <3>4. Cardinality(NpuPlaces \cap new) = 0
      BY <2>10, <3>3
    <3>5. Cardinality(NpuPlaces \cup new) = Cardinality(NpuPlaces) + c
      BY <2>5, <2>11, <3>2, <3>3, <3>4
    <3>6. num_switches' = Cardinality(NpuPlaces) + c
      BY <2>6, <3>1
    <3> QED BY <2>9, <3>2, <3>5, <3>6
  <2>13. \A id \in Entries' : switch_cfg'[id].number_of_npus \in Nat
    BY <1>1, <2>2, <2>3, <2>5 DEF CountInv, c
  <2>14. ASSUME NEW j \in 1..Len(file'), SwitchNode(file'[j]), file'[j].id \in Entries
         PROVE  switch_cfg'[file'[j].id].number_of_npus = 0
    <3>1. PICK i \in 1..Len(file) : 1 < i /\ file'[j] = file[i]
      BY <2>0
    <3>2. node.id # file[i].id
      BY <1>1, <2>0, <2>14, <3>1 DEF CountInv, EachOnce
    <3>3. switch_cfg[file[i].id].number_of_npus = 0
      BY <1>1, <2>14, <3>1 DEF CountInv
    <3> QED BY <2>3, <2>14, <3>1, <3>2, <3>3
  <2>15. (\E j \in 1..Len(file') : file'[j].kind = "switch_topology") => number_of_switches' = 0
    BY <1>1, <2>0 DEF CountInv
  <2> QED BY <2>0, <2>2, <2>12, <2>13, <2>14, <2>15 DEF CountInv, SwitchNode
<1>4. node.id # MISS => MISS \notin {node.id} /\ MISS \notin lost
  BY <1>1
<1> QED BY <1>2, <1>3, <1>4 DEF ParseSwitch, IdOutOfRange

\* Every node keeps the count in step with the entries.
LEMMA CountStep == CountInv /\ [TopoNext]_topoVars => CountInv'
<1> SUFFICES ASSUME CountInv, [TopoNext]_topoVars PROVE CountInv'
  OBVIOUS
<1>0. TopoInv'
  BY TopoStep DEF CountInv
<1>1. CASE ParseFeature \/ SkipRest
  <2>1. file # <<>> /\ file' = Tail(file)
        /\ UNCHANGED <<number_of_switches, switch_cfg, num_switches, lost>>
    BY <1>1 DEF ParseFeature, SkipRest, Visit
  <2> QED BY <1>0, <2>1, CountSame
<1>2. CASE UNCHANGED topoVars
  <2>1. NpuPlaces' = NpuPlaces /\ Entries' = Entries
    BY <1>2 DEF NpuPlaces, NasSwitch, Entries, topoVars
  <2> QED BY <1>0, <1>2, <2>1 DEF CountInv, topoVars, EachOnce, SwitchNode
<1> QED BY <1>0, <1>1, <1>2, CountTopology, CountSwitch DEF TopoNext

\* nas_switch_get_max_npus is the number of NPUs that the entries have, at
\* every point of the parsing and after any fault or failed calloc, for files
\* that give each switch and the inventory once.
THEOREM MaxNpusTotal ==
  ASSUME \A f \in Files : EachOnce(f)
  PROVE  TopoSpec => []MaxNpusIsTotal
<1>1. ASSUME TopoInit PROVE CountInv
  <2>1. number_of_switches = 0 /\ num_switches = 0 /\ EachOnce(file)
    BY <1>1 DEF TopoInit
  <2>2. TopoInv
    BY <1>1, <2>1, TopoStart DEF EachOnce, OneDescription
  <2>3. NpuPlaces = {}
    BY <2>1 DEF NpuPlaces
  <2>4. IsFiniteSet(NpuPlaces) /\ num_switches = Cardinality(NpuPlaces)
    BY <2>1, <2>3, FS_EmptySet
  <2> QED BY <2>1, <2>2, <2>4 DEF CountInv, Entries
<1>2. CountInv => MaxNpusIsTotal
  BY DEF CountInv, MaxNpusIsTotal, NasSwitchGetMaxNpus
<1> QED BY <1>1, <1>2, CountStep, PTL DEF TopoSpec

-----------------------------------------------------------------------------
(* The enumeration of the ACL groups *)

\* The array is the groups, which have names of their own, and after them
\* elements that no group uses.
GroupsFirst ==
  \E k \in 0..Len(app_group_info) :
    /\ \A i \in 1..k : \A j \in 1..Len(app_group_info) :
         app_group_info[j].name = app_group_info[i].name => i = j
    /\ \A i \in 1..k : app_group_info[i].name # EMPTY
    /\ \A i \in (k + 1)..Len(app_group_info) : app_group_info[i] = Calloced

\* the element that the last answer of the enumeration equals
Shown ==
  IF Len(aclWalk.seen) <= Len(app_group_info)
  THEN Len(aclWalk.seen) ELSE Len(app_group_info)

Elements == {app_group_info[i] : i \in 1..Len(app_group_info)}

AclTypes ==
  /\ Len(app_group_info) \in Nat
  /\ aclWalk = [at |-> aclWalk.at, seen |-> aclWalk.seen, on |-> aclWalk.on]
  /\ aclWalk.seen \in Seq(Elements)
  /\ aclWalk.seen # <<>> =>
       \E m \in 1..Len(app_group_info) : aclWalk.at = app_group_info[m].name

AclLoading ==
  /\ groups # <<>> =>
       /\ aclWalk = NewWalk /\ ~acl_profile_valid
       /\ groups \in AclFiles /\ Len(groups) <= Len(app_group_info)
       /\ \A i \in 1..Len(app_group_info) : app_group_info[i] = Calloced
  /\ acl_profile_valid \in BOOLEAN

AclShown ==
  acl_profile_valid =>
    /\ GroupsFirst
    /\ \A i \in 1..Len(aclWalk.seen) :
         i <= Len(app_group_info) => aclWalk.seen[i] = app_group_info[i]
    /\ aclWalk.seen # <<>> => aclWalk.at = app_group_info[Shown].name
    /\ ~aclWalk.on => Len(aclWalk.seen) >= Len(app_group_info)

AclInv == AclTypes /\ AclLoading /\ AclShown

\* The array is filled with the groups of the file.
LEMMA AclFilled ==
  ASSUME AclInv, UpdateAclProfileInfo
  PROVE  AclInv'
<1> DEFINE n == Len(app_group_info)
           g == Len(groups)
<1>1. /\ groups # <<>> /\ groups' = <<>> /\ aclWalk' = aclWalk /\ aclWalk = NewWalk
      /\ groups \in AclFiles /\ g <= n /\ n \in Nat
      /\ \A i \in 1..n : app_group_info[i] = Calloced
      /\ acl_profile_valid' = \A i \in 1..g : groups[i].apps # 0
      /\ app_group_info' = [i \in 1..n |->
                              IF i <= FirstBad(groups)
                              THEN [name |-> groups[i].name, pools |-> groups[i].pools]
                              ELSE app_group_info[i]]
  BY DEF AclInv, AclTypes, AclLoading, UpdateAclProfileInfo
<1>2. Len(app_group_info') = n
  BY <1>1
<1>3. aclWalk'.seen = <<>> /\ aclWalk' = [at |-> EMPTY, seen |-> <<>>, on |-> TRUE]
  BY <1>1 DEF NewWalk
<1>4. AclTypes'
  <2>1. aclWalk'.at = EMPTY /\ aclWalk'.on = TRUE /\ <<>> \in Seq(Elements')
    BY <1>3
  <2>2. (aclWalk = [at |-> aclWalk.at, seen |-> aclWalk.seen, on |-> aclWalk.on])'
    BY <1>3, <2>1
  <2>3. Len(app_group_info') \in Nat
    BY <1>1, <1>2
  <2> QED BY <1>3, <2>1, <2>2, <2>3 DEF AclTypes
<1>5. AclLoading'
  BY <1>1 DEF AclLoading
<1>6. ASSUME acl_profile_valid' PROVE GroupsFirst'
  <2>0. \A i \in 1..g : groups[i].apps # 0
    BY ONLY <1>1, <1>6
  <2>1. g \in Nat /\ FirstBad(groups) = g
    <3>1. g \in Nat
      BY <1>1, ProfileAssumption
    <3> QED BY <2>0, <3>1 DEF FirstBad
  <2>2. \A i \in 1..g : app_group_info'[i] = [name |-> groups[i].name, pools |-> groups[i].pools]
    BY <1>1, <2>1
  <2>3. \A i \in (g + 1)..n : app_group_info'[i] = Calloced
    BY <1>1, <2>1
  <2>4. \A i, j \in 1..g : groups[i].name # EMPTY /\ (groups[i].name = groups[j].name => i = j)
    BY <1>1, ProfileAssumption
  <2>5. ASSUME NEW i \in 1..g PROVE app_group_info'[i].name = groups[i].name
    <3>1. app_group_info'[i] = [name |-> groups[i].name, pools |-> groups[i].pools]
      BY <2>2
    <3> QED BY <3>1
  <2>6. ASSUME NEW i \in 1..g, NEW j \in 1..n,
               app_group_info'[j].name = app_group_info'[i].name
        PROVE  i = j
    <3>1. CASE j \in 1..g
      BY <2>4, <2>5, <2>6, <3>1
    <3>2. CASE j \in (g + 1)..n
      BY <2>3, <2>4, <2>5, <2>6, <3>2 DEF Calloced
    <3> QED BY <1>1, <2>1, <3>1, <3>2
  <2>7. g \in 0..n
    BY <1>1, <2>1
  <2> QED BY <1>2, <2>3, <2>4, <2>5, <2>6, <2>7 DEF GroupsFirst
<1>7. AclShown'
  BY <1>3, <1>6 DEF AclShown
<1> QED BY <1>4, <1>5, <1>7 DEF AclInv

\* The element that a get-next of the ACL groups answers with.
LEMMA NextElement ==
  ASSUME AclTypes
  PROVE  /\ NextIndex \in Nat \ {0}
         /\ \A m \in 1..Len(app_group_info) :
              /\ aclWalk.seen # <<>> /\ app_group_info[m].name = aclWalk.at
              /\ \A i \in 1..Len(app_group_info) : app_group_info[i].name = aclWalk.at => m <= i
              => NextIndex = m + 1
<1> DEFINE same == {i \in 1..Len(app_group_info) : app_group_info[i].name = aclWalk.at}
<1>1. CASE aclWalk.seen = <<>>
  BY <1>1 DEF NextIndex
<1>2. CASE aclWalk.seen # <<>>
  <2>1. same \subseteq Nat /\ same # {}
    BY <1>2 DEF AclTypes
  <2>2. Min(same) \in Nat /\ NextIndex = 1 + Min(same)
    BY <1>2, <2>1, MinIsLeast DEF NextIndex
  <2>3. ASSUME NEW m \in same, \A i \in same : m <= i
        PROVE  NextIndex = m + 1
    <3>1. Min(same) = m
      BY <2>1, <2>3, MinIs
    <3> QED BY <2>2, <3>1
  <2> QED BY <2>2, <2>3
<1> QED BY <1>1, <1>2

\* An answer is the next element of the array, and there is none only at its
\* end: unused elements, which all look alike, stand in for one another.
LEMMA AclAnswered ==
  ASSUME AclInv, AclProfileDbGetNext
  PROVE  AclInv'
<1> DEFINE n == Len(app_group_info)
           l == Len(aclWalk.seen)
           answer == app_group_info[NextIndex]
<1>1. /\ groups = <<>> /\ UNCHANGED <<groups, app_group_info, acl_profile_valid>>
      /\ \/ NextIndex > n /\ aclWalk' = [aclWalk EXCEPT !.on = FALSE]
         \/ ~(NextIndex > n) /\ aclWalk' = Answered(aclWalk, answer.name, answer)
  BY DEF AclProfileDbGetNext, Loaded, walkTables
<1>2. n \in Nat /\ l \in Nat /\ NextIndex \in Nat \ {0} /\ AclTypes
      /\ aclWalk.seen \in Seq(Elements)
  BY NextElement DEF AclInv, AclTypes
<1>3. AclLoading'
  BY <1>1 DEF AclInv, AclLoading
<1>4. ASSUME acl_profile_valid, aclWalk.seen # <<>>
      PROVE  \E k \in 0..n, m \in 1..n :
               /\ m = Shown /\ aclWalk.at = app_group_info[m].name
               /\ \A i \in 1..k : app_group_info[i].name # EMPTY
               /\ \A i \in (k + 1)..n : app_group_info[i] = Calloced
               /\ m <= k => NextIndex = m + 1
               /\ m > k => NextIndex = k + 2
  <2>1. PICK k \in 0..n :
          /\ \A i \in 1..k : \A j \in 1..n : app_group_info[j].name = app_group_info[i].name => i = j
          /\ \A i \in 1..k : app_group_info[i].name # EMPTY
          /\ \A i \in (k + 1)..n : app_group_info[i] = Calloced
    BY <1>4 DEF AclInv, AclShown, GroupsFirst
  <2>2. n > 0 /\ l > 0
    BY <1>2, <1>4 DEF AclTypes
  <2>3. Shown \in 1..n /\ aclWalk.at = app_group_info[Shown].name
    BY <1>2, <1>4, <2>2 DEF AclInv, AclShown, Shown
  <2>4. Shown <= k => NextIndex = Shown + 1
    BY <1>2, <1>4, <2>1, <2>3, NextElement
  <2>5. ASSUME Shown > k PROVE NextIndex = k + 2
    <3>1. k + 1 \in 1..n /\ app_group_info[k + 1].name = EMPTY /\ aclWalk.at = EMPTY
      BY <1>2, <2>1, <2>3, <2>5 DEF Calloced
    <3>2. \A i \in 1..n : app_group_info[i].name = aclWalk.at => k + 1 <= i
      BY <1>2, <2>1, <3>1
    <3>3. NextIndex = (k + 1) + 1
      BY <1>2, <1>4, <3>1, <3>2, NextElement
    <3> QED BY <3>3
  <2> QED BY <2>1, <2>3, <2>4, <2>5
<1>5. CASE NextIndex > n /\ aclWalk' = [aclWalk EXCEPT !.on = FALSE]
  <2>1. aclWalk' = [at |-> aclWalk.at, seen |-> aclWalk.seen, on |-> FALSE]
    BY <1>2, <1>5 DEF AclTypes
  <2>2. AclTypes'
    BY <1>1, <1>2, <2>1 DEF AclTypes, Elements
  <2>3. ASSUME acl_profile_valid PROVE l >= n
    <3>1. CASE aclWalk.seen = <<>>
      BY <1>2, <1>5, <3>1 DEF NextIndex
    <3>2. CASE aclWalk.seen # <<>>
      BY <1>2, <1>4, <1>5, <2>3, <3>2 DEF Shown
    <3> QED BY <3>1, <3>2
  <2>4. AclShown'
    BY <1>1, <2>1, <2>3 DEF AclInv, AclShown, GroupsFirst, Shown
  <2> QED BY <1>3, <2>2, <2>4 DEF AclInv
<1>6. CASE ~(NextIndex > n) /\ aclWalk' = Answered(aclWalk, answer.name, answer)
  <2>1. NextIndex \in 1..n /\ answer \in Elements
    BY <1>2, <1>6 DEF Elements
  <2>2. aclWalk' = [at |-> answer.name, seen |-> Append(aclWalk.seen, answer), on |-> TRUE]
    BY <1>6 DEF Answered
  <2>3. /\ aclWalk'.seen \in Seq(Elements) /\ Len(aclWalk'.seen) = l + 1
        /\ aclWalk'.seen[l + 1] = answer
        /\ \A i \in 1..l : aclWalk'.seen[i] = aclWalk.seen[i]
    BY <1>2, <2>1, <2>2
  <2>4. AclTypes'
    BY <1>1, <1>2, <2>1, <2>2, <2>3 DEF AclTypes, Elements
  <2>5. ASSUME acl_profile_valid
        PROVE  /\ l + 1 <= n => answer = app_group_info[l + 1]
               /\ answer.name = app_group_info[IF l + 1 <= n THEN l + 1 ELSE n].name
    <3>1. CASE aclWalk.seen = <<>>
      BY <1>2, <2>1, <3>1 DEF NextIndex
    <3>2. CASE aclWalk.seen # <<>>
      <4>1. PICK k \in 0..n, m \in 1..n :
               /\ m = Shown
               /\ \A i \in (k + 1)..n : app_group_info[i] = Calloced
               /\ m <= k => NextIndex = m + 1
               /\ m > k => NextIndex = k + 2
        BY <1>4, <2>5, <3>2
      <4>2. CASE m <= k
        <5>1. m = l /\ NextIndex = l + 1 /\ l + 1 <= n
          BY <1>2, <2>1, <4>1, <4>2 DEF Shown
        <5> QED BY <5>1
      <4>3. CASE m > k
        <5>1. answer = Calloced
          BY <1>2, <2>1, <4>1, <4>3
        <5>2. l >= m /\ n >= m
          BY <1>2, <4>1 DEF Shown
        <5>3. (l + 1 <= n => app_group_info[l + 1] = Calloced) /\ app_group_info[n] = Calloced
          BY <1>2, <4>1, <4>3, <5>2
        <5> QED BY <5>1, <5>3
      <4> QED BY <1>2, <4>2, <4>3
    <3> QED BY <3>1, <3>2
  <2>6. ASSUME acl_profile_valid, NEW i \in 1..(l + 1), i <= n
        PROVE  aclWalk'.seen[i] = app_group_info[i]
    BY <1>2, <2>3, <2>5, <2>6 DEF AclInv, AclShown
  <2>7. AclShown'
    BY <1>1, <1>2, <2>2, <2>3, <2>5, <2>6 DEF AclInv, AclShown, GroupsFirst, Shown
  <2> QED BY <1>3, <2>4, <2>7 DEF AclInv
<1> QED BY <1>1, <1>5, <1>6

\* Every step keeps the enumeration in step with the array.
LEMMA AclStep == AclInv /\ [ProfileNext]_profileVars => AclInv'
<1> SUFFICES ASSUME AclInv, [ProfileNext]_profileVars PROVE AclInv'
  OBVIOUS
<1>1. CASE UpdateNpuProfileInfo \/ NpuProfileGetNextValue \/ UNCHANGED profileVars
  <2>1. UNCHANGED <<groups, app_group_info, acl_profile_valid, aclWalk>>
    BY <1>1 DEF UpdateNpuProfileInfo, NpuProfileGetNextValue, profileVars, walkTables
  <2> QED BY <2>1 DEF AclInv, AclTypes, AclLoading, AclShown, GroupsFirst, Shown, Elements
<1> QED BY <1>1, AclFilled, AclAnswered DEF ProfileNext, GetNext

\* A caller that counts to nas_sw_acl_profile_num_db_get sees every ACL group
\* with its own pool count, although elements that no group uses share a
\* name and the search by name finds the first of them.
THEOREM AclWalkSeesAll == ProfileSpec => []AclWalkIsArray
<1>1. ASSUME ProfileInit PROVE AclInv
  <2>1. PICK n \in AclPools : /\ Len(groups) <= n /\ (groups = <<>> => n = 0)
                              /\ app_group_info = [i \in 1..n |-> Calloced]
    BY <1>1 DEF ProfileInit
  <2>2. n \in Nat /\ Len(app_group_info) = n
    BY <2>1, ProfileAssumption
  <2>3. aclWalk = [at |-> EMPTY, seen |-> <<>>, on |-> TRUE] /\ ~acl_profile_valid
        /\ acl_profile_valid \in BOOLEAN
    BY <1>1 DEF ProfileInit, NewWalk
  <2> QED BY <1>1, <2>1, <2>2, <2>3
          DEF ProfileInit, AclInv, AclTypes, AclLoading, AclShown
<1>2. ASSUME AclInv PROVE AclWalkIsArray
  <2>1. Len(aclWalk.seen) \in Nat /\ Len(app_group_info) \in Nat /\ acl_profile_valid \in BOOLEAN
    BY <1>2 DEF AclInv, AclTypes, AclLoading
  <2>2. CASE acl_profile_valid
    BY <1>2, <2>1, <2>2 DEF AclInv, AclShown, AclWalkIsArray, AclProfileNumDbGet
  <2>3. CASE ~acl_profile_valid
    BY <2>1, <2>3 DEF AclWalkIsArray, AclProfileNumDbGet
  <2> QED BY <2>2, <2>3
<1> QED BY <1>1, <1>2, AclStep, PTL DEF ProfileSpec

-----------------------------------------------------------------------------
(* The enumeration of the NPU profile *)

\* the number of children visited
Visited == Len(npuFile) - Len(nodes)

\* node i is the last of its key among the first n that are complete
LastOf(i, n) ==
  /\ i \in 1..n /\ Complete(npuFile[i])
  /\ \A j \in (i + 1)..n : Complete(npuFile[j]) => npuFile[j].id # npuFile[i].id

NpuLoading ==
  /\ npuFile \in NpuFiles
  /\ Len(npuFile) \in Nat /\ nodes \in Seq({npuFile[i] : i \in 1..Len(npuFile)})
  /\ Visited \in Nat
  /\ \A i \in 1..Len(nodes) : nodes[i] = npuFile[Visited + i]
  /\ nodes # <<>> => npuWalk = NewWalk

\* The pairs are those of the last complete nodes visited so far.
PairsAreLast ==
  /\ DOMAIN npu_profile_kvpair \subseteq Nat /\ IsFiniteSet(DOMAIN npu_profile_kvpair)
  /\ \A k \in DOMAIN npu_profile_kvpair :
       \E i \in 1..Visited : LastOf(i, Visited) /\ npuFile[i].id = k
                              /\ npuFile[i].value = npu_profile_kvpair[k]
  /\ \A i \in 1..Visited : Complete(npuFile[i]) => npuFile[i].id \in DOMAIN npu_profile_kvpair

\* the keys that the enumeration has given
Passed == {k \in DOMAIN npu_profile_kvpair : npuWalk.at # EMPTY /\ k <= npuWalk.at}

Pairs(keys) == {<<k, npu_profile_kvpair[k]>> : k \in keys}

NpuShown ==
  /\ npuWalk = [at |-> npuWalk.at, seen |-> npuWalk.seen, on |-> npuWalk.on]
  /\ npuWalk.at \in {EMPTY} \cup DOMAIN npu_profile_kvpair
  /\ npuWalk.seen \in Seq(Pairs(DOMAIN npu_profile_kvpair))
  /\ Range(npuWalk.seen) = Pairs(Passed)
  /\ Len(npuWalk.seen) = Cardinality(Passed)
  /\ ~npuWalk.on => nodes = <<>> /\ Passed = DOMAIN npu_profile_kvpair

NpuInv == NpuLoading /\ PairsAreLast /\ NpuShown

\* The state of an enumeration that was not begun.
LEMMA NotBegun == npuWalk = NewWalk => NpuShown
<1> SUFFICES ASSUME npuWalk = NewWalk PROVE NpuShown
  OBVIOUS
<1>1. npuWalk = [at |-> EMPTY, seen |-> <<>>, on |-> TRUE]
  BY DEF NewWalk
<1>2. npuWalk.at = EMPTY /\ npuWalk.seen = <<>> /\ npuWalk.on = TRUE
  BY <1>1
<1>3. Passed = {} /\ Cardinality({}) = 0
  BY <1>2, FS_EmptySet DEF Passed
<1>4. Range(<<>>) = {} /\ Pairs({}) = {} /\ Len(<<>>) = 0
  BY DEF Range, Pairs
<1>5. <<>> \in Seq(Pairs(DOMAIN npu_profile_kvpair))
  OBVIOUS
<1>6. npuWalk = [at |-> npuWalk.at, seen |-> npuWalk.seen, on |-> npuWalk.on]
  BY <1>1, <1>2
<1> QED BY <1>2, <1>3, <1>4, <1>5, <1>6 DEF NpuShown

\* A node of the profile enters its pair in place of an earlier one.
LEMMA NpuFilled ==
  ASSUME NpuInv, UpdateNpuProfileInfo
  PROVE  NpuInv'
<1> DEFINE node == Head(nodes)
           v == Visited
           kv == npu_profile_kvpair
<1>1. /\ nodes # <<>> /\ nodes' = Tail(nodes) /\ npuFile' = npuFile /\ npuWalk' = npuWalk
      /\ kv' = IF Complete(node) THEN StorePair(node.id, node.value) ELSE kv
  BY DEF UpdateNpuProfileInfo, Complete
<1>2. /\ v \in Nat /\ Len(nodes) \in Nat /\ Len(nodes) > 0
      /\ nodes' \in Seq({npuFile[i] : i \in 1..Len(npuFile)})
      /\ Len(nodes') = Len(nodes) - 1 /\ Len(npuFile) \in Nat
      /\ \A j \in 1..(Len(nodes) - 1) : nodes'[j] = nodes[j + 1]
      /\ node = nodes[1]
  BY <1>1, TailIs DEF NpuInv, NpuLoading
<1>3. v + 1 \in 1..Len(npuFile) /\ node = npuFile[v + 1] /\ Visited' = v + 1
  BY <1>1, <1>2 DEF NpuInv, NpuLoading, Visited
<1>4. NpuLoading'
  <2>1. ASSUME NEW i \in 1..Len(nodes') PROVE nodes'[i] = npuFile[(v + 1) + i]
    <3>1. i \in 1..(Len(nodes) - 1) /\ i \in Nat /\ i + 1 \in 1..Len(nodes)
      BY <1>2
    <3>2. nodes'[i] = nodes[i + 1]
      BY <1>2, <3>1
    <3>3. nodes[i + 1] = npuFile[v + (i + 1)]
      BY <3>1 DEF NpuInv, NpuLoading
    <3>4. v + (i + 1) = (v + 1) + i
      BY <1>2, <3>1
    <3> QED BY <3>2, <3>3, <3>4
  <2> QED BY <1>1, <1>2, <1>3, <2>1 DEF NpuInv, NpuLoading
<1> HIDE DEF v, node
<1>5. ASSUME NEW i \in 1..v, LastOf(i, v), ~Complete(node) \/ npuFile[i].id # node.id
      PROVE  LastOf(i, v + 1)
  <2>1. \A j \in (i + 1)..(v + 1) : j \in (i + 1)..v \/ j = v + 1
    BY <1>2
  <2> QED BY <1>2, <1>3, <1>5, <2>1 DEF LastOf
<1>6. \A i : LastOf(i, Visited)' <=> LastOf(i, v + 1)
  BY <1>1, <1>3 DEF LastOf
<1>7. NpuShown'
  <2>1. (npuWalk = NewWalk)'
    BY <1>1 DEF NpuInv, NpuLoading
  <2> QED BY <2>1, NotBegun, PTL
<1>8. CASE ~Complete(node)
  <2>1. kv' = kv
    BY <1>1, <1>8
  <2>2. \A i \in 1..(v + 1) : Complete(npuFile[i]) => i \in 1..v
    BY <1>2, <1>3, <1>8
  <2>3. \A i \in 1..v : i \in 1..(v + 1)
    BY <1>2
  <2>4. PairsAreLast'
    <3>1. ASSUME NEW k \in DOMAIN kv
          PROVE  \E i \in 1..(v + 1) : LastOf(i, v + 1) /\ npuFile[i].id = k
                                         /\ npuFile[i].value = kv[k]
      <4>1. PICK i \in 1..v : LastOf(i, v) /\ npuFile[i].id = k /\ npuFile[i].value = kv[k]
        BY DEF NpuInv, PairsAreLast, v
      <4> QED BY <1>5, <1>8, <2>3, <4>1
    <3>2. \A i \in 1..(v + 1) : Complete(npuFile[i]) => npuFile[i].id \in DOMAIN kv
      BY <2>2 DEF NpuInv, PairsAreLast, v
    <3>3. DOMAIN kv \subseteq Nat /\ IsFiniteSet(DOMAIN kv)
      BY DEF NpuInv, PairsAreLast
    <3> QED BY <1>1, <1>3, <1>6, <2>1, <3>1, <3>2, <3>3 DEF PairsAreLast
  <2> QED BY <1>4, <1>7, <2>4 DEF NpuInv
<1>9. CASE Complete(node)
  <2>1. /\ DOMAIN kv' = DOMAIN kv \cup {node.id}
        /\ kv'[node.id] = node.value
        /\ \A k \in DOMAIN kv : k # node.id => kv'[k] = kv[k]
    BY <1>1, <1>9 DEF StorePair
  <2>2. node.id \in Nat
    <3>1. npuFile[v + 1].id \in Nat \cup {SKIP}
      BY <1>3, ProfileAssumption DEF NpuInv, NpuLoading
    <3> QED BY <1>3, <1>9, <3>1 DEF Complete
  <2>3. DOMAIN kv' \subseteq Nat /\ IsFiniteSet(DOMAIN kv')
    BY <2>1, <2>2, FS_AddElement DEF NpuInv, PairsAreLast
  <2>4. ASSUME NEW k \in DOMAIN kv'
        PROVE  \E i \in 1..(v + 1) : LastOf(i, v + 1) /\ npuFile[i].id = k
                                       /\ npuFile[i].value = kv'[k]
    <3>1. CASE k = node.id
      <4>1. v + 1 \in 1..(v + 1) /\ LastOf(v + 1, v + 1)
        BY <1>2, <1>3, <1>9 DEF LastOf
      <4> QED BY <1>3, <2>1, <3>1, <4>1
    <3>2. CASE k # node.id
      <4>1. k \in DOMAIN kv /\ kv'[k] = kv[k]
        BY <2>1, <3>2
      <4>2. PICK i \in 1..v : LastOf(i, v) /\ npuFile[i].id = k /\ npuFile[i].value = kv[k]
        BY <4>1 DEF NpuInv, PairsAreLast, v
      <4>3. i \in 1..(v + 1) /\ LastOf(i, v + 1)
        BY <1>2, <1>5, <3>2, <4>2
      <4> QED BY <4>1, <4>2, <4>3
    <3> QED BY <3>1, <3>2
  <2>5. ASSUME NEW i \in 1..(v + 1), Complete(npuFile[i])
        PROVE  npuFile[i].id \in DOMAIN kv'
    <3>1. i \in 1..v \/ i = v + 1
      BY <1>2
    <3> QED BY <1>3, <2>1, <2>5, <3>1 DEF NpuInv, PairsAreLast, v
  <2>6. PairsAreLast'
    BY <1>1, <1>3, <1>6, <2>3, <2>4, <2>5 DEF PairsAreLast
  <2> QED BY <1>4, <1>7, <2>6 DEF NpuInv
<1> QED BY <1>8, <1>9

\* An answer is the least key not given yet, and there is none only when all
\* were given.
LEMMA NpuAnswered ==
  ASSUME NpuInv, NpuProfileGetNextValue
  PROVE  NpuInv'
<1> DEFINE kv == npu_profile_kvpair
           keys == KeysAfter(npuWalk.at)
           seen == npuWalk.seen
<1>1. /\ nodes = <<>> /\ UNCHANGED <<nodes, npuFile, npu_profile_kvpair>> /\ npuWalk.on
      /\ npuWalk' = IF keys = {} THEN [npuWalk EXCEPT !.on = FALSE]
                    ELSE Answered(npuWalk, Min(keys), <<Min(keys), kv[Min(keys)]>>)
  BY DEF NpuProfileGetNextValue, Loaded, walkTables
<1>2. /\ DOMAIN kv \subseteq Nat /\ IsFiniteSet(DOMAIN kv)
      /\ npuWalk = [at |-> npuWalk.at, seen |-> npuWalk.seen, on |-> npuWalk.on]
      /\ npuWalk.at \in {EMPTY} \cup DOMAIN kv
      /\ seen \in Seq(Pairs(DOMAIN kv))
      /\ Range(seen) = Pairs(Passed) /\ Len(seen) = Cardinality(Passed)
  BY DEF NpuInv, PairsAreLast, NpuShown
<1>3. NpuLoading' /\ PairsAreLast'
  BY <1>1 DEF NpuInv, NpuLoading, PairsAreLast, Visited, LastOf, Complete
<1>4. keys = DOMAIN kv \ Passed
  <2>1. EMPTY \notin Nat
    BY ProfileAssumption
  <2>2. CASE npuWalk.at = EMPTY
    BY <2>2 DEF KeysAfter, Passed
  <2>3. CASE npuWalk.at \in DOMAIN kv
    <3>1. npuWalk.at # EMPTY /\ npuWalk.at \in Nat
      BY <1>2, <2>1, <2>3
    <3>2. \A k \in DOMAIN kv : k > npuWalk.at <=> ~(k <= npuWalk.at)
      BY <1>2, <3>1
    <3> QED BY <2>3, <3>1, <3>2 DEF KeysAfter, Passed
  <2> QED BY <1>2, <2>2, <2>3
<1>5. CASE keys = {}
  <2>1. npuWalk' = [at |-> npuWalk.at, seen |-> seen, on |-> FALSE]
    BY <1>1, <1>2, <1>5
  <2>2. Passed = DOMAIN kv
    BY <1>4, <1>5 DEF Passed
  <2>3. /\ npuWalk'.at = npuWalk.at /\ npuWalk'.seen = seen /\ npuWalk'.on = FALSE
        /\ (npuWalk = [at |-> npuWalk.at, seen |-> npuWalk.seen, on |-> npuWalk.on])'
    BY <2>1
  <2>4. Passed' = Passed
    BY <1>1, <2>3 DEF Passed
  <2>5. NpuShown'
    BY <1>1, <1>2, <2>2, <2>3, <2>4 DEF NpuShown, Pairs
  <2> QED BY <1>3, <2>5 DEF NpuInv
<1>6. CASE keys # {}
  <2> DEFINE m == Min(keys)
             e == <<m, kv[m]>>
  <2>1. m \in keys /\ \A k \in keys : m <= k
    BY <1>2, <1>4, <1>6, MinIsLeast
  <2>2. m \in DOMAIN kv /\ m \notin Passed /\ m \in Nat /\ m # EMPTY
    BY <1>2, <1>4, <2>1, ProfileAssumption
  <2>3. npuWalk' = [at |-> m, seen |-> Append(seen, e), on |-> TRUE]
    BY <1>1, <1>6 DEF Answered
  <2> HIDE DEF m
  <2>4. /\ npuWalk'.at = m /\ npuWalk'.seen = Append(seen, e) /\ npuWalk'.on = TRUE
        /\ (npuWalk = [at |-> npuWalk.at, seen |-> npuWalk.seen, on |-> npuWalk.on])'
    BY <2>3
  <2>5. Passed' = Passed \cup {m}
    <3>1. Passed' = {k \in DOMAIN kv : k <= m}
      BY <1>1, <2>2, <2>4 DEF Passed
    <3>2. ASSUME NEW k \in DOMAIN kv PROVE k <= m <=> k \in Passed \cup {m}
      <4>1. CASE k \in Passed
        <5>1. npuWalk.at \in Nat /\ k <= npuWalk.at /\ m > npuWalk.at /\ k \in Nat
          BY <1>2, <2>2, <4>1 DEF Passed
        <5> QED BY <2>2, <4>1, <5>1
      <4>2. CASE k \notin Passed
        <5>1. m <= k /\ k \in Nat
          BY <1>2, <1>4, <2>1, <4>2
        <5> QED BY <2>2, <4>2, <5>1
      <4> QED BY <4>1, <4>2
    <3>3. Passed \subseteq DOMAIN kv
      BY DEF Passed
    <3> QED BY <2>2, <3>1, <3>2, <3>3
  <2>6. Len(Append(seen, e)) = Cardinality(Passed')
    <3>1. IsFiniteSet(Passed) /\ Cardinality(Passed) \in Nat
      BY <1>2, FS_Subset, FS_CardinalityType DEF Passed
    <3>2. Cardinality(Passed \cup {m}) = Cardinality(Passed) + 1
      BY <2>2, <3>1, FS_AddElement
    <3> QED BY <1>2, <2>5, <3>2
  <2>7. Append(seen, e) \in Seq(Pairs(DOMAIN kv))
    <3>1. e \in Pairs(DOMAIN kv)
      BY <2>2 DEF Pairs
    <3> QED BY <1>2, <3>1
  <2>8. Range(Append(seen, e)) = Range(seen) \cup {e}
    <3>1. /\ DOMAIN seen = 1..Len(seen) /\ Len(seen) \in Nat
          /\ DOMAIN Append(seen, e) = 1..(Len(seen) + 1)
          /\ Append(seen, e)[Len(seen) + 1] = e
          /\ \A i \in 1..Len(seen) : Append(seen, e)[i] = seen[i]
      BY <1>2
    <3>2. 1..(Len(seen) + 1) = (1..Len(seen)) \cup {Len(seen) + 1}
      BY <3>1
    <3> QED BY <3>1, <3>2 DEF Range
  <2>9. Pairs(Passed \cup {m}) = Pairs(Passed) \cup {e}
    BY DEF Pairs
  <2>10. NpuShown'
    <3>1. Pairs(Passed)' = Pairs(Passed \cup {m})
      BY <1>1, <2>5 DEF Pairs
    <3>2. Range(npuWalk.seen)' = Range(Append(seen, e))
      BY <2>4
    <3>3. (Range(npuWalk.seen) = Pairs(Passed))'
      BY <1>2, <2>8, <2>9, <3>1, <3>2
    <3>4. (npuWalk.seen \in Seq(Pairs(DOMAIN npu_profile_kvpair)))'
      BY <1>1, <2>4, <2>7 DEF Pairs
    <3> QED BY <1>1, <2>2, <2>4, <2>6, <3>3, <3>4 DEF NpuShown
  <2> QED BY <1>3, <2>10 DEF NpuInv
<1> QED BY <1>5, <1>6

\* Every step keeps the enumeration in step with the pairs.
LEMMA NpuStep == NpuInv /\ [ProfileNext]_profileVars => NpuInv'
<1> SUFFICES ASSUME NpuInv, [ProfileNext]_profileVars PROVE NpuInv'
  OBVIOUS
<1>1. CASE UpdateAclProfileInfo \/ AclProfileDbGetNext \/ UNCHANGED profileVars
  <2>1. UNCHANGED <<nodes, npuFile, npu_profile_kvpair, npuWalk>>
    BY <1>1 DEF UpdateAclProfileInfo, AclProfileDbGetNext, profileVars, walkTables
  <2> QED BY <2>1 DEF NpuInv, NpuLoading, PairsAreLast, NpuShown, Visited, LastOf,
                      Complete, Passed, Pairs
<1> QED BY <1>1, NpuFilled, NpuAnswered DEF ProfileNext, GetNext

\* When the file is read, its keys correspond one to one to the last nodes.
LEMMA KeysAreLastNodes ==
  ASSUME NpuInv, nodes = <<>>
  PROVE  /\ Pairs(DOMAIN npu_profile_kvpair) = {<<npuFile[i].id, npuFile[i].value>> : i \in LastNodes}
         /\ Cardinality(DOMAIN npu_profile_kvpair) = Cardinality(LastNodes)
<1> DEFINE kv == npu_profile_kvpair
           n == Len(npuFile)
           f == [i \in LastNodes |-> npuFile[i].id]
<1>1. n \in Nat /\ Visited = n
  BY DEF NpuInv, NpuLoading, Visited
<1>2. \A i : i \in LastNodes <=> LastOf(i, n)
  BY DEF LastNodes, LastOf
<1> HIDE DEF n
<1>3. \A k \in DOMAIN kv : \E i \in LastNodes : npuFile[i].id = k /\ npuFile[i].value = kv[k]
  BY <1>1, <1>2 DEF NpuInv, PairsAreLast
<1>4. \A i \in LastNodes : i \in 1..n /\ npuFile[i].id \in DOMAIN kv
  BY <1>1, <1>2 DEF NpuInv, PairsAreLast, LastOf
<1>5. ASSUME NEW i \in LastNodes, NEW j \in LastNodes, npuFile[i].id = npuFile[j].id
      PROVE  i = j
  <2>1. i \in 1..n /\ j \in 1..n /\ LastOf(i, n) /\ LastOf(j, n)
    BY <1>2, <1>4
  <2>2. ~(i < j)
    BY <1>1, <1>5, <2>1 DEF LastOf
  <2>3. ~(j < i)
    BY <1>1, <1>5, <2>1 DEF LastOf
  <2> QED BY <1>1, <2>1, <2>2, <2>3
<1>6. \A i \in LastNodes : npuFile[i].value = kv[npuFile[i].id]
  BY <1>3, <1>4, <1>5
<1>7. f \in Bijection(LastNodes, DOMAIN kv)
  <2>1. f \in [LastNodes -> DOMAIN kv] /\ \A i \in LastNodes : f[i] = npuFile[i].id
    BY <1>4
  <2>2. IsInjective(f)
    BY <1>5, <2>1 DEF IsInjective
  <2>3. \A k \in DOMAIN kv : \E i \in LastNodes : f[i] = k
    BY <1>3, <2>1
  <2> HIDE DEF f
  <2> QED BY <2>1, <2>2, <2>3 DEF Bijection, Injection, Surjection
<1>8. IsFiniteSet(LastNodes)
  <2>1. IsFiniteSet(1..n) /\ LastNodes \in SUBSET (1..n)
    BY <1>1, <1>4, FS_Interval
  <2> QED BY <2>1, FS_Subset
<1>9. Cardinality(DOMAIN kv) = Cardinality(LastNodes)
  BY <1>7, <1>8, FS_Bijection DEF ExistsBijection
<1>10. Pairs(DOMAIN kv) = {<<npuFile[i].id, npuFile[i].value>> : i \in LastNodes}
  BY <1>3, <1>4, <1>6 DEF Pairs
<1> QED BY <1>9, <1>10

\* An enumeration of the NPU profile that has ended gave each key of
\* switch.xml once, with the last of its values, whichever nodes were skipped
\* or given again.
THEOREM NpuWalkGivesFile == ProfileSpec => []NpuWalkIsFile
<1>1. ASSUME ProfileInit PROVE NpuInv
  <2>1. npuWalk = NewWalk /\ nodes = npuFile /\ npuFile \in NpuFiles
        /\ npu_profile_kvpair = <<>>
    BY <1>1 DEF ProfileInit
  <2>2. NpuShown
    BY <2>1, NotBegun
  <2>3. npuFile \in Seq({npuFile[i] : i \in 1..Len(npuFile)})
    BY <2>1, ProfileAssumption
  <2>4. Len(npuFile) \in Nat /\ Visited = 0
    BY <2>1, <2>3 DEF Visited
  <2>5. NpuLoading
    BY <2>1, <2>3, <2>4 DEF NpuLoading
  <2>6. DOMAIN npu_profile_kvpair = {}
    BY <2>1
  <2>7. PairsAreLast
    BY <2>4, <2>6, FS_EmptySet DEF PairsAreLast
  <2> QED BY <2>2, <2>5, <2>7 DEF NpuInv
<1>2. ASSUME NpuInv PROVE NpuWalkIsFile
  <2> SUFFICES ASSUME ~npuWalk.on PROVE NpuWalkIsFile
    BY DEF NpuWalkIsFile
  <2>1. nodes = <<>> /\ Passed = DOMAIN npu_profile_kvpair
        /\ Range(npuWalk.seen) = Pairs(Passed) /\ Len(npuWalk.seen) = Cardinality(Passed)
    BY <1>2 DEF NpuInv, NpuShown
  <2> QED BY <1>2, <2>1, KeysAreLastNodes DEF NpuWalkIsFile
<1> QED BY <1>1, <1>2, NpuStep, PTL DEF ProfileSpec

=============================================================================
