------------------------------ MODULE MCTables ------------------------------
(***************************************************************************)
(* The small components that share no state: the VRF table, the bridge     *)
(* VLANs, the NDI object id table, the switch topology, the enumerated     *)
(* profile tables, the base MAC, the diag shell daemon and the ID          *)
(* generator.  Each behaviour exercises one of them, the one in focus, so  *)
(* that TLC explores the sum of their state spaces and not the product.    *)
(***************************************************************************)
EXTENDS VrfMap, BridgeVid, ObjIdTable, SwitchTopology, ProfileWalk, BaseMac,
        DiagShell, IdGenerator

VARIABLE focus

tables == <<vrfVars, vidVars, tableVars, topoVars, profileVars, macVars, shellVars,
            vars, focus>>

\* nodes of switch.xml: the topology, two switches, and their faulty forms
Topology(ids) == [kind |-> "switch_topology", switch_ids |-> ids]

Switch(id, npus, port) ==
  [kind |-> "switch", id |-> id, npus |-> npus, hw_info |-> "hw", cpu_port_id |-> port]

Feature(set) == [kind |-> "feature", set |-> set]

TopologyNodes == {Topology(<<0, 1>>), Topology(<<0>>), Topology(MISS), Topology(BAD)}
Switch0Nodes  == {Switch(0, n, 0) : n \in {<<0, 1>>, BAD, MISS}}
Switch1Nodes  == {Switch(1, n, MISS) : n \in {<<1, 2>>, <<2>>, BAD}}
FeatureNodes  == {Feature([fc |-> 1]), Feature([l2mc |-> 1]),
                  Feature([hash_lag |-> 1, hash_ecmp |-> 0])}
OtherNodes    == FeatureNodes \cup {Switch(MISS, <<3>>, MISS), Switch(2, <<3>>, MISS)}

\* an empty file, and every order of four nodes in which none is given twice
MCFiles ==
  {<<>>} \cup
  {f \in [1..4 -> TopologyNodes \cup Switch0Nodes \cup Switch1Nodes \cup OtherNodes] :
     \A i, j \in 1..4 : i < j /\ f[i].kind = f[j].kind =>
       /\ f[i].kind # "switch_topology"
       /\ f[i].kind = "switch" => f[i].id # f[j].id
       /\ f[i] # f[j]}

\* three nodes of the NPU profile, with keys given again, missing and too long
MCNpuFiles ==
  {<<>>} \cup [1..3 -> [id : {1, 2}, value : {7, 8}]
                       \cup {[id |-> 1, value |-> SKIP], [id |-> SKIP, value |-> 7]}]

\* up to three ACL groups, the last with or without applications
Group(name, pools, apps) == [name |-> name, pools |-> pools, apps |-> apps]

MCAclFiles ==
  {<<>>, <<Group("g1", 2, 1)>>, <<Group("g2", 1, 0), Group("g1", 2, 1)>>} \cup
  {<<Group("g2", 1, 1), Group("g1", 2, 1), Group("g3", 1, a)>> : a \in {0, 1}}

TablesInit ==
  /\ focus \in {"vrf", "vid", "table", "topology", "walk", "mac", "shell", "ids"}
  /\ VrfInit /\ VidInit /\ TableInit /\ MacInit /\ ShellInit /\ Init
  /\ focus = "ids" \/ watched = 1
  /\ focus = "topology" \/ file = <<>>
  /\ focus = "walk" \/ (nodes = <<>> /\ groups = <<>>)
  /\ TopoInit /\ ProfileInit

NotVrf   == <<vidVars, tableVars, topoVars, profileVars, macVars, shellVars, vars, focus>>
NotVid   == <<vrfVars, tableVars, topoVars, profileVars, macVars, shellVars, vars, focus>>
NotTable == <<vrfVars, vidVars, topoVars, profileVars, macVars, shellVars, vars, focus>>
NotTopo  == <<vrfVars, vidVars, tableVars, profileVars, macVars, shellVars, vars, focus>>
NotWalk  == <<vrfVars, vidVars, tableVars, topoVars, macVars, shellVars, vars, focus>>
NotMac   == <<vrfVars, vidVars, tableVars, topoVars, profileVars, shellVars, vars, focus>>
NotShell == <<vrfVars, vidVars, tableVars, topoVars, profileVars, macVars, vars, focus>>
NotIds   == <<vrfVars, vidVars, tableVars, topoVars, profileVars, macVars, shellVars, focus>>

TablesNext ==
  \/ focus = "vrf" /\ VrfNext /\ UNCHANGED NotVrf
  \/ focus = "vid" /\ VidNext /\ UNCHANGED NotVid
  \/ focus = "table" /\ TableNext /\ UNCHANGED NotTable
  \/ focus = "topology" /\ TopoNext /\ UNCHANGED NotTopo
  \/ focus = "walk" /\ ProfileNext /\ UNCHANGED NotWalk
  \/ focus = "mac" /\ MacNext /\ UNCHANGED NotMac
  \/ focus = "shell" /\ ShellNext /\ UNCHANGED NotShell
  \/ focus = "ids" /\ Next /\ UNCHANGED NotIds

\* the waiting loops and the services they wait for
FairPas        == focus = "mac" /\ PasStarts /\ UNCHANGED NotMac
FairSeesPas    == focus = "mac" /\ OwnerSeesPas /\ UNCHANGED NotMac
FairFetches    == focus = "mac" /\ OwnerFetches /\ UNCHANGED NotMac
FairRegisters  == focus = "mac" /\ OwnerRegisters /\ UNCHANGED NotMac
FairGetsMac(u) == focus = "mac" /\ UserGetsMac(u) /\ UNCHANGED NotMac
FairNpuWalk    == focus = "walk" /\ NpuProfileGetNextValue /\ UNCHANGED NotWalk
FairAclWalk    == focus = "walk" /\ AclProfileDbGetNext /\ UNCHANGED NotWalk
FairRpc        == focus = "shell" /\ RpcStep /\ UNCHANGED NotShell

TablesSpec ==
  /\ TablesInit /\ [][TablesNext]_tables
  /\ WF_tables(FairPas) /\ WF_tables(FairSeesPas) /\ WF_tables(FairFetches)
  /\ WF_tables(FairRegisters) /\ WF_tables(FairRpc)
  /\ WF_tables(FairNpuWalk) /\ WF_tables(FairAclWalk)
  /\ \A u \in MacUsers : WF_tables(FairGetsMac(u))

=============================================================================
