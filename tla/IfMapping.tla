------------------------------ MODULE IfMapping ------------------------------
(***************************************************************************)
(* The interface database of hal_if_mapping.cpp: heap-allocated            *)
(* interface_ctrl_t records, one search map per query type, and the        *)
(* ordered set if_indexes that dn_hal_get_next_ifindex walks.              *)
(*                                                                         *)
(* Every public function takes db_lock for its whole body, so one call is  *)
(* one action.  What interleaves are calls of different threads, and the   *)
(* private copies of a record that dn_hal_get_interface_info hands out and *)
(* a thread may use after the record has changed or gone.                  *)
(*                                                                         *)
(* Abstractions: a 64-bit key is the value it packs (a port, the pair of   *)
(* vrf_id and if_index, a tap id, an object id); if_name_map is the search *)
(* map of the query type IF_NAME; a MAC address and an l3_intf_info_t are  *)
(* model values; a description is the heap block that holds it, and its    *)
(* text is one of the classes the code tells apart.                        *)
(***************************************************************************)
EXTENDS Naturals

CONSTANTS Details,          \* key fields of the interface_ctrl_t callers pass
          Clients,          \* threads that keep a copy of a record
          Ptr,              \* addresses of interface_ctrl_t records
          Blocks,           \* addresses of description strings
          Macs, L3Infos,    \* values of mac_addr and l3_intf_info
          NULL

IntTypes == {"PORT", "VLAN", "LAG", "CPU", "LPBK", "FC", "MGMT", "MACVLAN",
             "VLANSUB_INTF", "VXLAN", "DOT1D_BRIDGE"}

ASSUME NullAssumption == NULL \notin Ptr \cup Blocks

ASSUME DetailsAssumption ==
  Details \subseteq [int_type : IntTypes, vrf_id : Nat, if_index : Nat,
                     if_name : STRING, port_mapped : BOOLEAN,
                     port : Nat, tap_id : Nat, obj_id : Nat]

VARIABLES heap,         \* the allocated records: what each address holds
          if_mappings,  \* query type -> key -> record (if_name_map included)
          if_indexes,   \* if_index values of VRF 0
          live,         \* description blocks that are allocated
          dangling,     \* history: addresses that came into a record, or
                        \* stayed in one, with no block allocated for it
          copy          \* the interface_ctrl_t each client filled last

vars == <<heap, if_mappings, if_indexes, live, dangling, copy>>

-----------------------------------------------------------------------------
(* Query types and keys *)

AllQueries == <<"PORT", "IF", "TAP", "IF_NAME", "VLAN", "LAG", "BRIDGE_ID">>

QTypes == {"PORT", "IF", "TAP", "IF_NAME", "VLAN", "LAG", "BRIDGE_ID"}

QueryValid(q, int_type) ==
  \/ q \in {"IF", "IF_NAME"}
  \/ q \in {"PORT", "TAP"} /\ int_type \in {"PORT", "CPU", "FC"}
  \/ q = "VLAN" /\ int_type = "VLAN"
  \/ q = "LAG" /\ int_type = "LAG"
  \/ q = "BRIDGE_ID" /\ int_type = "DOT1D_BRIDGE"

\* vlan_id, lag_id and bridge_id are one union member, obj_id
MkKey(q, d) ==
  CASE q = "PORT"    -> d.port
    [] q = "TAP"     -> d.tap_id
    [] q = "IF"      -> <<d.vrf_id, d.if_index>>
    [] q = "IF_NAME" -> d.if_name
    [] OTHER         -> d.obj_id

\* the query applies to the record and its key is not INVALID_KEY
HasKey(q, d) ==
  /\ QueryValid(q, d.int_type)
  /\ q \in {"PORT", "TAP"} => d.port_mapped
  /\ q = "IF_NAME" => d.if_name # ""

Keys(q) == {MkKey(q, d) : d \in Details}

Records == [det : Details, mac : Macs, l3 : L3Infos, desc : Blocks \cup {NULL}]

ASSUME RecordAssumption == NULL \notin Records

Locate(q, d) == IF HasKey(q, d) THEN if_mappings[q][MkKey(q, d)] ELSE NULL

-----------------------------------------------------------------------------
(* dn_hal_if_register *)

Init ==
  /\ heap = [p \in Ptr |-> NULL]
  /\ if_mappings = [q \in QTypes |-> [k \in Keys(q) |-> NULL]]
  /\ if_indexes = {}
  /\ live = {}
  /\ dangling = {}
  /\ copy = [c \in Clients |-> NULL]

\* mutant: only the if_index is searched for an earlier registration
ConflictByIndexOnly(d) == Locate("IF", d) # NULL

Conflict(d) == \E q \in QTypes : Locate(q, d) # NULL

\* HAL_INTF_OP_REG with the full record r: refused when any key is taken or
\* memory is out; otherwise a copy is entered under each of its keys, with the
\* desc pointer the caller passed.  Every record has an IF key, so the
\* "nothing was added" error cannot happen.
Insert(r) ==
  \/ /\ ~Conflict(r.det)
     /\ \E p \in Ptr :
          /\ heap[p] = NULL
          /\ heap' = [heap EXCEPT ![p] = r]
          /\ if_mappings' =
               [q \in QTypes |-> [k \in Keys(q) |->
                  IF HasKey(q, r.det) /\ k = MkKey(q, r.det)
                  THEN p ELSE if_mappings[q][k]]]
          /\ if_indexes' = if_indexes \cup (IF r.det.vrf_id = 0
                                            THEN {r.det.if_index} ELSE {})
     /\ dangling' = dangling \cup ({r.desc} \ {NULL})
     /\ UNCHANGED live
  \/ /\ \/ Conflict(r.det)
        \/ \A p \in Ptr : heap[p] # NULL
     /\ UNCHANGED <<heap, if_mappings, if_indexes, live, dangling>>

\* mutant: any query that finds a record names the one to remove
AnyHit(i, d) == Locate(AllQueries[i], d) # NULL

\* queries in order, the first that finds a record names the one to remove
FirstHit(i, d) ==
  /\ Locate(AllQueries[i], d) # NULL
  /\ \A j \in 1..(i - 1) : Locate(AllQueries[j], d) = NULL

\* delete[] of a block that is not allocated is undefined, and the allocator
\* aborts the process: no step frees such a pointer
MayDelete(b) == b \in live \cup {NULL}

\* mutant: the record's description outlives it
RemoveLeaksDesc(p, vrf) ==
  LET r == heap[p] IN
  /\ heap' = [heap EXCEPT ![p] = NULL]
  /\ if_mappings' =
       [q \in QTypes |-> [k \in Keys(q) |->
          IF HasKey(q, r.det) /\ k = MkKey(q, r.det)
          THEN NULL ELSE if_mappings[q][k]]]
  /\ if_indexes' = if_indexes \ (IF vrf = 0 THEN {r.det.if_index} ELSE {})
  /\ UNCHANGED <<live, dangling>>

\* mutant: the if_index stays in the set
RemoveKeepsIndex(p, vrf) ==
  LET r == heap[p] IN
  /\ heap' = [heap EXCEPT ![p] = NULL]
  /\ if_mappings' =
       [q \in QTypes |-> [k \in Keys(q) |->
          IF HasKey(q, r.det) /\ k = MkKey(q, r.det)
          THEN NULL ELSE if_mappings[q][k]]]
  /\ MayDelete(r.desc) /\ live' = live \ {r.desc}
  /\ UNCHANGED <<if_indexes, dangling>>

\* the second half of _cleanup: every key of the record found is erased, the
\* description freed; if_indexes follows the vrf_id the CALLER passed
Remove(p, vrf) ==
  LET r == heap[p] IN
  /\ heap' = [heap EXCEPT ![p] = NULL]
  /\ if_mappings' =
       [q \in QTypes |-> [k \in Keys(q) |->
          IF HasKey(q, r.det) /\ k = MkKey(q, r.det)
          THEN NULL ELSE if_mappings[q][k]]]
  /\ if_indexes' = if_indexes \ (IF vrf = 0 THEN {r.det.if_index} ELSE {})
  /\ MayDelete(r.desc) /\ live' = live \ {r.desc}
  /\ UNCHANGED dangling

\* HAL_INTF_OP_DEREG succeeds even when there is nothing to remove
Cleanup(d) ==
  \/ \E i \in 1..7 : FirstHit(i, d) /\ Remove(Locate(AllQueries[i], d), d.vrf_id)
  \/ ~Conflict(d) /\ UNCHANGED <<heap, if_mappings, if_indexes, live, dangling>>

Register(d, m, l) ==
  /\ Insert([det |-> d, mac |-> m, l3 |-> l, desc |-> NULL])
  /\ UNCHANGED copy

Deregister(d) == Cleanup(d) /\ UNCHANGED copy

-----------------------------------------------------------------------------
(* Searching and updating *)

\* dn_hal_get_interface_info: the search key d is overwritten by the whole
\* record, its desc pointer included; a PORT search implies a mapped port
GetInterfaceInfo(c, q, d) ==
  LET key == [d EXCEPT !.port_mapped = @ \/ q = "PORT"]
      p   == Locate(q, key)
  IN /\ p # NULL
     /\ copy' = [copy EXCEPT ![c] = heap[p]]
     /\ UNCHANGED <<heap, if_mappings, if_indexes, live, dangling>>

\* a thread passes the record it read earlier back to dn_hal_if_register
DeregisterCopy(c) ==
  /\ copy[c] # NULL
  /\ Cleanup(copy[c].det)
  /\ UNCHANGED copy

\* ... with the desc pointer it was given, or with desc nulled
RegisterCopy(c) ==
  /\ copy[c] # NULL
  /\ Insert(copy[c]) \/ Insert([copy[c] EXCEPT !.desc = NULL])
  /\ UNCHANGED copy

\* mutant: the interface is searched in every VRF
UpdateIntfMacAnyVrf(ifx, mac) ==
  \E k \in Keys("IF") :
    /\ k[2] = ifx /\ if_mappings["IF"][k] # NULL
    /\ heap' = [heap EXCEPT ![if_mappings["IF"][k]].mac = mac]
    /\ UNCHANGED <<if_mappings, if_indexes, live, dangling, copy>>

\* dn_hal_update_intf_mac searches VRF 0 by if_index
UpdateIntfMac(ifx, mac) ==
  LET p == IF <<0, ifx>> \in Keys("IF") THEN if_mappings["IF"][<<0, ifx>>] ELSE NULL
  IN /\ p # NULL
     /\ heap' = [heap EXCEPT ![p].mac = mac]
     /\ UNCHANGED <<if_mappings, if_indexes, live, dangling, copy>>

UpdateRouterIntfInfo(key, info) ==
  LET p == if_mappings["IF"][key]
  IN /\ p # NULL
     /\ heap' = [heap EXCEPT ![p].l3 = info]
     /\ UNCHANGED <<if_mappings, if_indexes, live, dangling, copy>>

\* mutant: the caller's pointer is kept instead of a copy of the text
SetDescKeepsPointer(p, text) ==
  /\ heap' = [heap EXCEPT ![p].desc = text]
  /\ live' = live \ {heap[p].desc}
  /\ UNCHANGED dangling

\* the old block is freed first; a blank text clears the attribute; when the
\* allocation throws, desc keeps the address just freed
SetDesc(p, text) ==
  LET old  == heap[p].desc
      kept == live \ {old}
  IN
  /\ MayDelete(old)
  /\ \/ /\ text = "blank"
        /\ heap' = [heap EXCEPT ![p].desc = NULL]
        /\ live' = kept
        /\ UNCHANGED dangling
     \/ /\ text = "text"
        /\ \E b \in Blocks \ kept :
             /\ heap' = [heap EXCEPT ![p].desc = b]
             /\ live' = kept \cup {b}
        /\ UNCHANGED dangling
     \/ /\ text = "text"
        /\ live' = kept
        /\ dangling' = dangling \cup ({old} \ {NULL})
        /\ UNCHANGED heap

\* dn_hal_update_intf_desc (a text over MAX_INTF_DESC_LEN changes nothing)
UpdateIntfDesc(q, d, text) ==
  LET p == Locate(q, d)
  IN /\ p # NULL
     /\ SetDesc(p, text)
     /\ UNCHANGED <<if_mappings, if_indexes, copy>>

-----------------------------------------------------------------------------

Next ==
  \/ \E d \in Details, m \in Macs, l \in L3Infos : Register(d, m, l)
  \/ \E d \in Details : Deregister(d)
  \/ \E c \in Clients, q \in QTypes, d \in Details : GetInterfaceInfo(c, q, d)
  \/ \E c \in Clients : DeregisterCopy(c) \/ RegisterCopy(c)
  \/ \E d \in Details, m \in Macs : UpdateIntfMac(d.if_index, m)
  \/ \E d \in Details, l \in L3Infos : UpdateRouterIntfInfo(<<d.vrf_id, d.if_index>>, l)
  \/ \E q \in QTypes, d \in Details, t \in {"blank", "text"} : UpdateIntfDesc(q, d, t)

Spec == Init /\ [][Next]_vars

-----------------------------------------------------------------------------
(* Properties *)

\* Every variable has its type; records hold the details they were
\* registered with.
TypeOK ==
  /\ heap \in [Ptr -> Records \cup {NULL}]
  /\ DOMAIN if_mappings = QTypes
  /\ \A q \in QTypes : if_mappings[q] \in [Keys(q) -> Ptr \cup {NULL}]
  /\ live \subseteq Blocks
  /\ dangling \subseteq Blocks
  /\ copy \in [Clients -> Records \cup {NULL}]

\* Each allocated record is found under every key it has: no registration or
\* removal of another interface took one of its entries away.
RecordsReachable ==
  \A p \in Ptr : heap[p] # NULL =>
    \A q \in QTypes : HasKey(q, heap[p].det) =>
      if_mappings[q][MkKey(q, heap[p].det)] = p

\* Each entry of a search map leads to an allocated record that has that key:
\* no search returns a deleted record or another interface's.
EntriesValid ==
  \A q \in QTypes : \A k \in Keys(q) : if_mappings[q][k] # NULL =>
    LET p == if_mappings[q][k] IN
    /\ heap[p] # NULL
    /\ HasKey(q, heap[p].det)
    /\ MkKey(q, heap[p].det) = k

\* The search maps and the records agree in both directions, so that
\* dn_hal_get_interface_info answers alike for every key of an interface.
IndexConsistent == RecordsReachable /\ EntriesValid

\* if_indexes, which dn_hal_get_next_ifindex walks, holds the if_index of
\* exactly the interfaces registered in VRF 0.
IfIndexesExact ==
  if_indexes = {heap[p].det.if_index :
                  p \in {x \in Ptr : heap[x] # NULL /\ heap[x].det.vrf_id = 0}}

SameKey(q, d, e) == HasKey(q, d) /\ HasKey(q, e) /\ MkKey(q, d) = MkKey(q, e)

\* Details that name the same interface by any key name it in one VRF.
VrfAgree ==
  \A d, e \in Details, q \in QTypes : SameKey(q, d, e) => d.vrf_id = e.vrf_id

\* a record without the address of its description
Public(r) == [det |-> r.det, mac |-> r.mac, l3 |-> r.l3]

interfaces == {Public(heap[p]) : p \in {x \in Ptr : heap[x] # NULL}}

handed == [c \in Clients |-> IF copy[c] = NULL THEN NULL ELSE Public(copy[c])]

Registry == INSTANCE IfRegistry WITH interfaces <- interfaces, handed <- handed

\* The records and the seven search maps implement one set of interfaces
\* with keys of their own: a call adds one whole interface that shares no key
\* with another, removes one whole, changes one field of one, or hands out
\* one as it is then, and does nothing else to any interface.
ImplementsRegistry ==
  Registry!RegistryInit /\ [][Registry!RegistryNext]_(Registry!registryVars)

Removal == \E p \in Ptr : heap[p] # NULL /\ heap'[p] = NULL

\* A removal by details that name several interfaces, each by another key,
\* takes the one that the first query in order finds among the registered
\* ones, and no other.
RemovesFirstFound ==
  [][Removal => \A d \in Details : Deregister(d) =>
       \E r \in interfaces : Registry!FirstFound(d, r) /\ Registry!Withdraw(r)]_vars

\* A description pointer of the database that is no dangling address is an
\* allocated block, and no other record uses it.
DescOnce ==
  \A p \in Ptr : heap[p] # NULL /\ heap[p].desc \notin dangling \cup {NULL} =>
    /\ heap[p].desc \in live
    /\ \A o \in Ptr \ {p} : heap[o] # NULL => heap[o].desc # heap[p].desc

\* Each allocated description is held by a record, which will free it.
DescKept == \A b \in live : \E p \in Ptr : heap[p] # NULL /\ heap[p].desc = b

\* Harm from a failed allocation, or from a copy registered with its pointer,
\* stays with the addresses concerned: every other description pointer is
\* good and used by one record alone, whatever frees and reuses of blocks
\* come between, so that dn_hal_update_intf_desc and _cleanup delete its
\* block once; and no description is ever lost.
DescOwned == DescOnce /\ DescKept

=============================================================================
