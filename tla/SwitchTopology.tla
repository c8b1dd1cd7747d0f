--------------------------- MODULE SwitchTopology ---------------------------
(***************************************************************************)
(* The switch topology of nas_switch.c: _fn_switch_parser is called for    *)
(* each node of switch.xml, in order, and fills tables that the queries    *)
(* read.  A faulty node is skipped with a message, or sets "failed", after *)
(* which the rest of the file is ignored, and so does a calloc that fails; *)
(* in all cases the process goes on (SwitchProfile!InitDone), so the       *)
(* queries see what was left.                                              *)
(*                                                                         *)
(* Abstractions: an attribute that lists ids is the sequence of them, MISS *)
(* when it is not there, BAD when it cannot be split; hw_info is a model   *)
(* value.  The nodes of the boot options do not touch the topology and are *)
(* in SwitchProfile.  A "switch" node also matches the names that begin    *)
(* with "switch" (strncmp with its length) and leaves there, for want of   *)
(* the attribute fc_enabled.                                               *)
(***************************************************************************)
EXTENDS Naturals, Sequences, FiniteSets

CONSTANTS Files,            \* contents of switch.xml, sequences of nodes
          MaxSwitches,      \* more than any file has
          NpuIds,
          MISS, BAD

ASSUME FilesAssumption ==
  /\ MaxSwitches \in Nat
  /\ \A f \in Files :
       /\ f \in Seq({f[i] : i \in 1..Len(f)})
       /\ \A i \in 1..Len(f) :
            /\ f[i].kind = "switch_topology" => f[i].switch_ids \in {MISS, BAD} \cup Seq(Nat)
            /\ f[i].kind = "switch" => /\ f[i].id \in Nat \cup {MISS}
                                      /\ f[i].npus \in {MISS, BAD} \cup Seq(Nat)

VARIABLES file,             \* the nodes not visited yet
          topology_failed,  \* failed
          number_of_switches,
          switch_cfg,       \* id -> nas_switch_detail_t; MISS when null
          num_switches,     \* what nas_switch_get_max_npus returns
          features,         \* fc, l2mc and resilient hash flags
          lost              \* history: what a failed calloc left without its
                            \* table, a switch or (MISS) the inventory

topoVars == <<file, topology_failed, number_of_switches, switch_cfg,
              num_switches, features, lost>>

HashFlags == {"hash_lag", "hash_ecmp"}
Features  == {"fc", "l2mc"} \cup HashFlags

\* a calloc'ed entry; MISS is the null pointer
NoSwitch == [number_of_npus |-> 0, npus |-> MISS, hw_info |-> MISS, cpu_port_id |-> 0]

TopoInit ==
  /\ file \in Files
  /\ topology_failed = FALSE
  /\ number_of_switches = 0 /\ switch_cfg = MISS /\ num_switches = 0
  /\ features = [f \in Features |-> 0]
  /\ lost = {}

-----------------------------------------------------------------------------
(* _fn_switch_parser, one action per kind of node *)

Visit(kind) ==
  /\ file # <<>> /\ ~topology_failed
  /\ Head(file).kind = kind
  /\ file' = Tail(file)

\* missing ids: a message, nothing else; bad ids: failed; otherwise a table
\* of empty entries, one per id.  The count is set before the list of ids and
\* the table are allocated, and stays when one of them cannot be.
ParseTopology ==
  LET ids == Head(file).switch_ids IN
  /\ Visit("switch_topology")
  /\ \/ /\ ids \notin {MISS, BAD}
        /\ number_of_switches' = Len(ids)
        /\ switch_cfg' = [i \in 0..(Len(ids) - 1) |-> NoSwitch]
        /\ UNCHANGED <<topology_failed, lost>>
     \/ /\ ids \notin {MISS, BAD}
        /\ number_of_switches' = Len(ids)
        /\ switch_cfg' \in {switch_cfg, MISS}
        /\ topology_failed' = TRUE /\ lost' = {MISS}
     \/ /\ ids \in {MISS, BAD}
        /\ topology_failed' = (ids = BAD)
        /\ UNCHANGED <<number_of_switches, switch_cfg, lost>>
  /\ UNCHANGED <<num_switches, features>>

IdOutOfRange(id) == id >= number_of_switches

\* mutant: a list that cannot be split counts as one NPU
DetailCountsBad(node, got) ==
  [number_of_npus |-> IF node.npus = BAD THEN 1 ELSE Len(node.npus),
   npus           |-> IF node.npus = BAD \/ ~got THEN MISS ELSE node.npus,
   hw_info        |-> node.hw_info,
   cpu_port_id    |-> 0]

\* the entry of a switch: a list that cannot be split leaves a null pointer
\* and the count of before, one that got no memory a null pointer and the
\* new count
Detail(node, got) ==
  LET bad == node.npus = BAD IN
  [number_of_npus |-> IF bad THEN switch_cfg[node.id].number_of_npus ELSE Len(node.npus),
   npus           |-> IF bad \/ ~got THEN MISS ELSE node.npus,
   hw_info        |-> node.hw_info,
   cpu_port_id    |-> IF node.cpu_port_id = MISS THEN 0 ELSE node.cpu_port_id]

\* mutant: every switch counts as one NPU
CountNpusOnce(detail) == num_switches + 1

CountNpus(detail) == num_switches + detail.number_of_npus

\* id and npus are required: a message when they are missing, failed when
\* the id is out of range; a list that is bad, or gets no memory, fails after
\* the entry was written
ParseSwitch ==
  LET node    == Head(file)
      missing == node.id = MISS \/ node.npus = MISS
      stored  == ~missing /\ ~IdOutOfRange(node.id)
  IN /\ Visit("switch")
     /\ \/ \E got \in BOOLEAN :
             /\ stored
             /\ switch_cfg' = [i \in DOMAIN switch_cfg \cup {node.id} |->
                                 IF i = node.id THEN Detail(node, got) ELSE switch_cfg[i]]
             /\ num_switches' = CountNpus(Detail(node, got))
             /\ topology_failed' = (node.npus = BAD \/ ~got)
             /\ lost' = IF node.npus # BAD /\ ~got THEN {node.id} ELSE lost
        \/ /\ ~stored
           /\ topology_failed' = ~missing
           /\ UNCHANGED <<switch_cfg, num_switches, lost>>
     /\ UNCHANGED <<number_of_switches, features>>

\* switch_feature and switch_multicast_config set the flag whose attribute
\* they have; for switch_resilient_hash an attribute means yes, whatever its
\* value
ParseFeature ==
  LET set == Head(file).set IN
  /\ Visit("feature")
  /\ features' = [f \in Features |->
                    CASE f \notin DOMAIN set             -> features[f]
                      [] f \in DOMAIN set \cap HashFlags -> 1
                      [] OTHER                           -> set[f]]
  /\ UNCHANGED <<topology_failed, number_of_switches, switch_cfg, num_switches, lost>>

\* "if already failed.. no sense in continuing"
SkipRest ==
  /\ file # <<>> /\ topology_failed
  /\ file' = Tail(file)
  /\ UNCHANGED <<topology_failed, number_of_switches, switch_cfg, num_switches,
                 features, lost>>

TopoNext == ParseTopology \/ ParseSwitch \/ ParseFeature \/ SkipRest

TopoSpec == TopoInit /\ [][TopoNext]_topoVars

-----------------------------------------------------------------------------
(* The queries *)

NasSwitch(id) == IF id >= number_of_switches THEN MISS ELSE switch_cfg[id]

NasSwitchGetMaxNpus == num_switches

Lists(detail, npu) == \E i \in 1..detail.number_of_npus : detail.npus[i] = npu

\* the first switch that lists the NPU
NasFindSwitchIdByNpu(npu) ==
  LET hits == {id \in 0..MaxSwitches : id < number_of_switches /\ Lists(switch_cfg[id], npu)}
  IN IF hits = {} THEN MISS ELSE CHOOSE id \in hits : \A other \in hits : id <= other

NasSwitchGetHwInfo(id) == IF NasSwitch(id) = MISS THEN MISS ELSE NasSwitch(id).hw_info

NasSwitchGetCpuPortId(id) == IF NasSwitch(id) = MISS THEN 0 ELSE NasSwitch(id).cpu_port_id

-----------------------------------------------------------------------------
(* Properties *)

\* At every point of the parsing, after a fault in the file as well, the
\* queries read within the tables: the switches of the inventory are those
\* with an entry, no entry counts NPUs it does not list, and the switch found
\* for an NPU is one that lists it.  A calloc that failed makes an exception
\* of what it was for and of no more: all of the table when the inventory is
\* lost, otherwise the entry of one switch and the search by NPU, which reads
\* the lists of all switches.
TopologyQueriesSafe ==
  MISS \notin lost =>
    /\ number_of_switches = 0 \/ DOMAIN switch_cfg = 0..(number_of_switches - 1)
    /\ \A id \in (0..MaxSwitches) \ lost : NasSwitch(id) # MISS =>
         LET d == NasSwitch(id) IN
         d.number_of_npus = IF d.npus = MISS THEN 0 ELSE Len(d.npus)
    /\ lost = {} => \A id \in 0..MaxSwitches, npu \in NpuIds :
         NasSwitch(id) # MISS /\ Lists(NasSwitch(id), npu) =>
           /\ NasFindSwitchIdByNpu(npu) <= id
           /\ Lists(NasSwitch(NasFindSwitchIdByNpu(npu)), npu)

\* the places in the lists of NPUs of the entries, if there is a table
NpuPlaces ==
  IF MISS \in lost THEN {}
  ELSE UNION {{id} \X (1..NasSwitch(id).number_of_npus) : id \in 0..(number_of_switches - 1)}

\* nas_switch_get_max_npus is the number of NPUs that the entries have ("the
\* total number of NPUs in all switches product"), whichever nodes were
\* skipped, whichever table got no memory and wherever the parsing stopped.
MaxNpusIsTotal == NasSwitchGetMaxNpus = Cardinality(NpuPlaces)

=============================================================================
