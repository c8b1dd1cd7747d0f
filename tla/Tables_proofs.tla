---------------------------- MODULE Tables_proofs ----------------------------
(***************************************************************************)
(* Proofs about the small tables: VRFs, VLANs of 1D bridges and NDI object *)
(* ids, for any names, addresses, NPUs and users.                          *)
(***************************************************************************)
EXTENDS VrfMap, BridgeVid, ObjIdTable, TLAPS

-----------------------------------------------------------------------------
(* The VRF table *)

\* what a reader holds
HeldVrfs == [rec : VrfRecords, stayed : BOOLEAN]

VrfTypes ==
  /\ vrf_map \subseteq KeyAddrs \X CtrlAddrs
  /\ keyText \in [KeyAddrs -> VrfNames \cup {FREE}]
  /\ ctrl \in [CtrlAddrs -> VrfRecords \cup {FREE}]
  /\ heldVrf \in [VrfReaders -> HeldVrfs \cup {FREE}]

VrfInv == VrfTypes /\ VrfEntriesSound /\ VrfOidStable

\* The two addresses of an entry.
LEMMA EntryAddrs ==
  ASSUME VrfTypes, NEW e \in vrf_map
  PROVE  e[1] \in KeyAddrs /\ e[2] \in CtrlAddrs /\ e = <<e[1], e[2]>>
BY DEF VrfTypes

\* VrfOidStable, without the set of all records in between.
LEMMA OidStable ==
  VrfOidStable <=>
    \A c \in VrfReaders : heldVrf[c] # FREE /\ heldVrf[c].stayed =>
      \E e \in vrf_map : /\ ctrl[e[2]].name = heldVrf[c].rec.name
                         /\ ctrl[e[2]].vrf_id = heldVrf[c].rec.vrf_id
BY DEF VrfOidStable, AllVrfCtrl

\* An add uses blocks that no entry uses, and leaves a name that is taken.
LEMMA AddVrfInv ==
  ASSUME VrfInv, NEW r \in VrfRecords, AddVrf(r)
  PROVE  VrfInv'
<1>0. VrfTypes /\ VrfEntriesSound /\ VrfOidStable /\ r.name \in VrfNames
  BY DEF VrfInv, VrfRecords
<1>1. CASE UNCHANGED <<vrf_map, keyText, ctrl, heldVrf>>
  BY <1>0, <1>1 DEF VrfInv, VrfTypes, VrfEntriesSound, VrfOidStable, AllVrfCtrl
<1>2. ASSUME NEW k \in KeyAddrs, keyText[k] = FREE,
             keyText' = [keyText EXCEPT ![k] = r.name],
             UNCHANGED heldVrf,
             \/ UNCHANGED <<vrf_map, ctrl>>
             \/ \E a \in CtrlAddrs : /\ ctrl[a] = FREE
                                     /\ ctrl' = [ctrl EXCEPT ![a] = r]
                                     /\ vrf_map' = InsertEntry(k, a, r.name)
      PROVE  VrfInv'
  <2>1. \A e \in vrf_map : keyText'[e[1]] = keyText[e[1]] /\ e[1] # k
    BY <1>0, <1>2, EntryAddrs DEF VrfTypes, VrfEntriesSound
  <2>2. keyText' \in [KeyAddrs -> VrfNames \cup {FREE}] /\ keyText'[k] = r.name
    BY <1>0, <1>2 DEF VrfTypes
  <2>3. CASE UNCHANGED <<vrf_map, ctrl>>
    <3>1. VrfTypes'
      BY <1>0, <1>2, <2>2, <2>3 DEF VrfTypes
    <3>2. VrfEntriesSound'
      BY <1>0, <2>1, <2>3 DEF VrfEntriesSound
    <3>3. VrfOidStable'
      BY <1>0, <1>2, <2>3 DEF VrfOidStable, AllVrfCtrl
    <3> QED BY <3>1, <3>2, <3>3 DEF VrfInv
  <2>4. ASSUME NEW a \in CtrlAddrs, ctrl[a] = FREE,
               ctrl' = [ctrl EXCEPT ![a] = r],
               vrf_map' = InsertEntry(k, a, r.name)
        PROVE  VrfInv'
    <3>1. \A e \in vrf_map : ctrl'[e[2]] = ctrl[e[2]] /\ e[2] # a
      BY <1>0, <2>4, EntryAddrs DEF VrfTypes, VrfEntriesSound
    <3>2. ctrl' \in [CtrlAddrs -> VrfRecords \cup {FREE}] /\ ctrl'[a] = r
      BY <1>0, <2>4 DEF VrfTypes
    <3>3. /\ vrf_map \subseteq vrf_map'
          /\ \A e \in vrf_map' : e \in vrf_map \/ e = <<k, a>>
          /\ <<k, a>> \in vrf_map' =>
               \A e \in vrf_map : keyText[e[1]] # r.name
      <4>1. CASE Entries(r.name) = {}
        BY <2>4, <4>1 DEF InsertEntry, Entries
      <4>2. CASE Entries(r.name) # {}
        <5>1. <<k, a>> \notin vrf_map
          BY <2>1
        <5> QED BY <2>4, <4>2, <5>1 DEF InsertEntry
      <4> QED BY <4>1, <4>2
    <3>4. VrfTypes'
      BY <1>0, <1>2, <2>2, <3>2, <3>3 DEF VrfTypes
    <3>5. VrfEntriesSound'
      <4>1. <<k, a>>[1] = k /\ <<k, a>>[2] = a /\ r # FREE /\ r.name # FREE
        BY <1>0, FreeAssumption
      <4>2. ASSUME NEW e \in vrf_map'
            PROVE  /\ keyText'[e[1]] # FREE /\ ctrl'[e[2]] # FREE
                   /\ ctrl'[e[2]].name = keyText'[e[1]]
        BY <1>0, <2>1, <2>2, <3>1, <3>2, <3>3, <4>1 DEF VrfEntriesSound
      <4>3. ASSUME NEW e \in vrf_map', NEW f \in vrf_map', e # f
            PROVE  e[1] # f[1] /\ e[2] # f[2] /\ keyText'[e[1]] # keyText'[f[1]]
        <5>1. CASE e \in vrf_map /\ f \in vrf_map
          BY <1>0, <2>1, <4>3, <5>1 DEF VrfEntriesSound
        <5>2. CASE e \in vrf_map /\ f = <<k, a>>
          BY <2>1, <2>2, <3>1, <3>3, <4>1, <5>2
        <5>3. CASE f \in vrf_map /\ e = <<k, a>>
          BY <2>1, <2>2, <3>1, <3>3, <4>1, <5>3
        <5> QED BY <3>3, <4>3, <5>1, <5>2, <5>3
      <4> QED BY <4>2, <4>3 DEF VrfEntriesSound
    <3>6. VrfOidStable'
      <4>1. \A c \in VrfReaders : heldVrf'[c] # FREE /\ heldVrf'[c].stayed =>
              \E e \in vrf_map' : /\ ctrl'[e[2]].name = heldVrf'[c].rec.name
                                  /\ ctrl'[e[2]].vrf_id = heldVrf'[c].rec.vrf_id
        BY <1>0, <1>2, <3>1, <3>3, OidStable
      <4> QED BY <4>1 DEF VrfOidStable, AllVrfCtrl
    <3> QED BY <3>4, <3>5, <3>6 DEF VrfInv
  <2> QED BY <1>2, <2>3, <2>4
<1> QED BY <1>1, <1>2 DEF AddVrf

\* An update changes the internal id of a record in the table and nothing else.
LEMMA UpdateVrfInv ==
  ASSUME VrfInv, NEW r \in VrfRecords, UpdateVrf(r)
  PROVE  VrfInv'
<1>0. /\ VrfTypes /\ VrfEntriesSound /\ VrfOidStable
      /\ UNCHANGED <<vrf_map, keyText, heldVrf>>
  BY DEF VrfInv, UpdateVrf
<1>1. ASSUME NEW a \in CtrlAddrs
      PROVE  /\ ctrl'[a] \in VrfRecords \cup {FREE}
             /\ ctrl[a] # FREE => /\ ctrl'[a] # FREE
                                  /\ ctrl'[a].name = ctrl[a].name
                                  /\ ctrl'[a].vrf_id = ctrl[a].vrf_id
  <2>1. ctrl[a] \in VrfRecords \cup {FREE}
    BY <1>0 DEF VrfTypes
  <2>2. CASE ctrl'[a] = ctrl[a]
    BY <2>1, <2>2
  <2>3. CASE ctrl'[a] # ctrl[a]
    <3>1. PICK e \in Entries(r.name) : e[2] = a
      BY <2>3 DEF UpdateVrf
    <3>2. ctrl'[a] = [ctrl[a] EXCEPT !.vrf_int_id = r.vrf_int_id]
      BY <2>3 DEF UpdateVrf
    <3>3. ctrl[a] \in VrfRecords
      BY <1>0, <2>1, <3>1 DEF Entries, VrfEntriesSound
    <3>4. /\ ctrl'[a] \in VrfRecords
          /\ ctrl'[a].name = ctrl[a].name /\ ctrl'[a].vrf_id = ctrl[a].vrf_id
      BY <3>2, <3>3 DEF VrfRecords
    <3> QED BY <3>4, FreeAssumption
  <2> QED BY <2>2, <2>3
<1>2. VrfTypes'
  <2>1. DOMAIN ctrl' = CtrlAddrs /\ ctrl' = [a \in CtrlAddrs |-> ctrl'[a]]
    BY DEF UpdateVrf
  <2> QED BY <1>0, <1>1, <2>1 DEF VrfTypes
<1>3. \A e \in vrf_map : /\ ctrl'[e[2]] # FREE
                         /\ ctrl'[e[2]].name = ctrl[e[2]].name
                         /\ ctrl'[e[2]].vrf_id = ctrl[e[2]].vrf_id
  BY <1>0, <1>1, EntryAddrs DEF VrfEntriesSound
<1>4. VrfEntriesSound'
  BY <1>0, <1>3 DEF VrfEntriesSound
<1>5. VrfOidStable'
  <2>1. \A c \in VrfReaders : heldVrf'[c] # FREE /\ heldVrf'[c].stayed =>
          \E e \in vrf_map' : /\ ctrl'[e[2]].name = heldVrf'[c].rec.name
                              /\ ctrl'[e[2]].vrf_id = heldVrf'[c].rec.vrf_id
    BY <1>0, <1>3, OidStable
  <2> QED BY <2>1 DEF VrfOidStable, AllVrfCtrl
<1> QED BY <1>2, <1>4, <1>5 DEF VrfInv

\* A delete frees the blocks of one entry, which no other entry shares.
LEMMA CleanupVrfInv ==
  ASSUME VrfInv, NEW name \in VrfNames, CleanupVrf(name)
  PROVE  VrfInv'
<1>0. VrfTypes /\ VrfEntriesSound /\ VrfOidStable
  BY DEF VrfInv
<1>1. PICK e \in vrf_map : /\ keyText[e[1]] = name
                           /\ keyText' = [keyText EXCEPT ![e[1]] = FREE]
                           /\ vrf_map' = vrf_map \ {e}
                           /\ ctrl' = [ctrl EXCEPT ![e[2]] = FREE]
  BY DEF CleanupVrf, FreeVrf, Entries
<1>2. heldVrf' \in [VrfReaders -> HeldVrfs \cup {FREE}]
  <2>1. ASSUME NEW c \in VrfReaders PROVE heldVrf'[c] \in HeldVrfs \cup {FREE}
    <3>1. heldVrf[c] \in HeldVrfs \cup {FREE}
      BY <1>0 DEF VrfTypes
    <3>2. \/ heldVrf'[c] = heldVrf[c]
          \/ heldVrf[c] # FREE /\ heldVrf'[c] = [heldVrf[c] EXCEPT !.stayed = FALSE]
      BY DEF CleanupVrf
    <3> QED BY <3>1, <3>2 DEF HeldVrfs
  <2> QED BY <2>1 DEF CleanupVrf
<1>3. \A f \in vrf_map' : /\ f \in vrf_map
                          /\ keyText'[f[1]] = keyText[f[1]]
                          /\ ctrl'[f[2]] = ctrl[f[2]]
  BY <1>0, <1>1, EntryAddrs DEF VrfTypes, VrfEntriesSound
<1>4. VrfTypes'
  BY <1>0, <1>1, <1>2 DEF VrfTypes
<1>5. VrfEntriesSound'
  BY <1>0, <1>3 DEF VrfEntriesSound
<1>6. VrfOidStable'
  <2>1. ASSUME NEW c \in VrfReaders, heldVrf'[c] # FREE, heldVrf'[c].stayed
        PROVE  \E f \in vrf_map' : /\ ctrl'[f[2]].name = heldVrf'[c].rec.name
                                   /\ ctrl'[f[2]].vrf_id = heldVrf'[c].rec.vrf_id
    <3>1. heldVrf[c] \in HeldVrfs \cup {FREE}
      BY <1>0 DEF VrfTypes
    <3>2. heldVrf[c] # FREE /\ heldVrf'[c] = heldVrf[c] /\ heldVrf[c].rec.name # name
      BY <2>1, <3>1 DEF CleanupVrf, HeldVrfs
    <3>3. PICK f \in vrf_map : /\ ctrl[f[2]].name = heldVrf[c].rec.name
                               /\ ctrl[f[2]].vrf_id = heldVrf[c].rec.vrf_id
      BY <1>0, <2>1, <3>2, OidStable
    <3>4. f # e
      BY <1>0, <1>1, <3>2, <3>3 DEF VrfEntriesSound
    <3> QED BY <1>1, <1>3, <3>2, <3>3, <3>4
  <2> QED BY <2>1 DEF VrfOidStable, AllVrfCtrl
<1> QED BY <1>4, <1>5, <1>6 DEF VrfInv

\* A reader is given the record of an entry.
LEMMA GetVrfInv ==
  ASSUME VrfInv, NEW c \in VrfReaders, NEW name \in VrfNames, GetVrfCtrl(c, name)
  PROVE  VrfInv'
<1>0. /\ VrfTypes /\ VrfEntriesSound /\ VrfOidStable
      /\ UNCHANGED <<vrf_map, keyText, ctrl>>
  BY DEF VrfInv, GetVrfCtrl
<1> DEFINE h(e) == [rec |-> ctrl[e[2]], stayed |-> TRUE]
<1>1. PICK e \in vrf_map : heldVrf' = [heldVrf EXCEPT ![c] = h(e)]
  BY DEF GetVrfCtrl, Entries
<1>2. ctrl[e[2]] \in VrfRecords
  BY <1>0, EntryAddrs DEF VrfTypes, VrfEntriesSound
<1>3. h(e) \in HeldVrfs /\ h(e).rec = ctrl[e[2]]
  BY <1>2 DEF HeldVrfs
<1> HIDE DEF h
<1>4. VrfTypes'
  BY <1>0, <1>1, <1>3 DEF VrfTypes
<1>5. VrfEntriesSound'
  BY <1>0 DEF VrfEntriesSound
<1>6. VrfOidStable'
  <2>1. ASSUME NEW d \in VrfReaders, heldVrf'[d] # FREE, heldVrf'[d].stayed
        PROVE  \E f \in vrf_map' : /\ ctrl'[f[2]].name = heldVrf'[d].rec.name
                                   /\ ctrl'[f[2]].vrf_id = heldVrf'[d].rec.vrf_id
    <3>1. CASE d = c
      <4>1. heldVrf'[d] = h(e)
        BY <1>0, <1>1, <3>1 DEF VrfTypes
      <4> QED BY <1>0, <1>3, <4>1
    <3>2. CASE d # c
      <4>1. heldVrf'[d] = heldVrf[d]
        BY <1>0, <1>1, <3>2 DEF VrfTypes
      <4> QED BY <1>0, <2>1, <4>1, OidStable
    <3> QED BY <3>1, <3>2
  <2> QED BY <2>1 DEF VrfOidStable, AllVrfCtrl
<1> QED BY <1>4, <1>5, <1>6 DEF VrfInv

\* The invariant of the VRF table holds in every reachable state.
LEMMA VrfInvariance == VrfSpec => []VrfInv
<1>1. VrfInit => VrfInv
  BY DEF VrfInit, VrfInv, VrfTypes, VrfEntriesSound, VrfOidStable
<1>2. VrfInv /\ [VrfNext]_vrfVars => VrfInv'
  <2> SUFFICES ASSUME VrfInv, [VrfNext]_vrfVars PROVE VrfInv'
    OBVIOUS
  <2>1. CASE VrfNext
    BY <2>1, AddVrfInv, UpdateVrfInv, CleanupVrfInv, GetVrfInv DEF VrfNext
  <2>2. CASE UNCHANGED vrfVars
    BY <2>2 DEF vrfVars, VrfInv, VrfTypes, VrfEntriesSound, VrfOidStable, AllVrfCtrl
  <2> QED BY <2>1, <2>2
<1> QED BY <1>1, <1>2, PTL DEF VrfSpec

\* No sequence of adds, updates, deletes and failing allocations leaves an
\* entry of the VRF table with a freed, shared or foreign key or record.
THEOREM VrfTableSound == VrfSpec => []VrfEntriesSound
<1>1. VrfInv => VrfEntriesSound
  BY DEF VrfInv
<1> QED BY <1>1, VrfInvariance, PTL

\* The object id a reader was given stays that of the VRF until its deletion.
THEOREM VrfOidsStable == VrfSpec => []VrfOidStable
<1>1. VrfInv => VrfOidStable
  BY DEF VrfInv
<1> QED BY <1>1, VrfInvariance, PTL

-----------------------------------------------------------------------------
(* The untagged VLANs of 1D bridges *)

HeldVids == [bridge : Bridges, vid : Vids, attached : BOOLEAN]

VidTypes ==
  /\ bridge_to_vlan_id \in [Bridges -> Vids \cup {NoVid}]
  /\ reserved_vid \in Vids \cup {0}
  /\ heldVid \in [BridgeUsers -> HeldVids \cup {NoVid}]

VidInv == VidTypes /\ AttachedVidStable

\* Attaching, detaching, looking up and reserving keep the invariant.
LEMMA VidStep == VidInv /\ [VidNext]_vidVars => VidInv'
<1> SUFFICES ASSUME VidInv, [VidNext]_vidVars PROVE VidInv'
  OBVIOUS
<1>0. VidTypes /\ AttachedVidStable /\ NoVid \notin Vids /\ 0 \notin Vids
  <2>1. ASSUME NEW v \in Vids PROVE v # NoVid /\ v # 0
    <3> DEFINE ids == 0..4094
    <3>1. v \in 1..4094
      BY VidAssumption
    <3>2. v \in ids /\ v # 0
      BY <3>1
    <3>3. NoVid \notin ids
      BY VidAssumption
    <3> HIDE DEF ids
    <3> QED BY <3>2, <3>3
  <2> QED BY <2>1 DEF VidInv
<1>1. ASSUME NEW u \in BridgeUsers, NEW b \in Bridges, GetUntagVid(u, b)
      PROVE  VidInv'
  <2> DEFINE at == bridge_to_vlan_id[b] # NoVid
             vid == IF at THEN bridge_to_vlan_id[b] ELSE reserved_vid
             held == [bridge |-> b, vid |-> vid, attached |-> at]
  <2>1. /\ vid # 0 /\ heldVid' = [heldVid EXCEPT ![u] = held]
        /\ UNCHANGED <<bridge_to_vlan_id, reserved_vid>>
    BY <1>1 DEF GetUntagVid
  <2>2. at \in BOOLEAN /\ vid \in Vids
    BY <1>0, <2>1 DEF VidTypes
  <2>3. /\ held \in HeldVids /\ held.bridge = b /\ held.vid = vid /\ held.attached = at
    BY <2>2 DEF HeldVids
  <2>4. at => vid = bridge_to_vlan_id[b]
    OBVIOUS
  <2> HIDE DEF held, at, vid
  <2>5. VidTypes'
    BY <1>0, <2>1, <2>3 DEF VidTypes
  <2>6. AttachedVidStable'
    <3>1. heldVid'[u] = held /\ \A v \in BridgeUsers \ {u} : heldVid'[v] = heldVid[v]
      BY <1>0, <2>1 DEF VidTypes
    <3> QED BY <1>0, <2>1, <2>3, <2>4, <3>1 DEF AttachedVidStable
  <2> QED BY <2>5, <2>6 DEF VidInv
<1>2. ASSUME NEW b \in Bridges, NEW v \in Vids, AddUntagVid(b, v)
      PROVE  VidInv'
  <2>1. VidTypes'
    BY <1>0, <1>2 DEF AddUntagVid, VidTypes
  <2>2. AttachedVidStable'
    <3> SUFFICES ASSUME NEW u \in BridgeUsers, heldVid[u] # NoVid, heldVid[u].attached
                 PROVE  bridge_to_vlan_id'[heldVid[u].bridge] = heldVid[u].vid
      BY <1>2 DEF AttachedVidStable, AddUntagVid
    <3>1. heldVid[u] \in HeldVids
      BY <1>0 DEF VidTypes
    <3>2. /\ heldVid[u].bridge \in Bridges /\ heldVid[u].vid \in Vids
          /\ bridge_to_vlan_id[heldVid[u].bridge] = heldVid[u].vid
      BY <1>0, <3>1 DEF HeldVids, AttachedVidStable
    <3> QED BY <1>0, <1>2, <3>2 DEF AddUntagVid, VidTypes
  <2> QED BY <2>1, <2>2 DEF VidInv
<1>3. ASSUME NEW b \in Bridges, DelUntagVid(b)
      PROVE  VidInv'
  <2>1. ASSUME NEW u \in BridgeUsers
        PROVE  /\ heldVid'[u] \in HeldVids \cup {NoVid}
               /\ heldVid'[u] # NoVid /\ heldVid'[u].attached =>
                    /\ heldVid'[u] = heldVid[u] /\ heldVid[u].bridge \in Bridges \ {b}
    <3>1. heldVid[u] \in HeldVids \cup {NoVid}
      BY <1>0 DEF VidTypes
    <3>2. CASE heldVid[u] # NoVid /\ heldVid[u].bridge = b
      <4>1. heldVid'[u] = [heldVid[u] EXCEPT !.attached = FALSE]
        BY <1>3, <3>2 DEF DelUntagVid
      <4>2. heldVid'[u] \in HeldVids /\ ~heldVid'[u].attached
        BY <3>1, <3>2, <4>1 DEF HeldVids
      <4> QED BY <4>2
    <3>3. CASE heldVid[u] = NoVid \/ heldVid[u].bridge # b
      <4>1. heldVid'[u] = heldVid[u]
        BY <1>3, <3>3 DEF DelUntagVid
      <4> QED BY <3>1, <3>3, <4>1 DEF HeldVids
    <3> QED BY <3>2, <3>3
  <2>2. VidTypes'
    <3>1. heldVid' \in [BridgeUsers -> HeldVids \cup {NoVid}]
      BY <1>3, <2>1 DEF DelUntagVid
    <3> QED BY <1>0, <1>3, <3>1 DEF DelUntagVid, VidTypes
  <2>3. AttachedVidStable'
    BY <1>0, <1>3, <2>1 DEF AttachedVidStable, DelUntagVid, VidTypes
  <2> QED BY <2>2, <2>3 DEF VidInv
<1>4. ASSUME NEW v \in Vids \cup {0}, SetReservedVid(v)
      PROVE  VidInv'
  BY <1>0, <1>4 DEF SetReservedVid, VidInv, VidTypes, AttachedVidStable
<1>5. CASE UNCHANGED vidVars
  BY <1>0, <1>5 DEF vidVars, VidInv, VidTypes, AttachedVidStable
<1> QED BY <1>1, <1>2, <1>3, <1>4, <1>5 DEF VidNext

\* The VLAN that was read of an attached bridge stays its VLAN until the
\* bridge is detached.
THEOREM VidsStable == VidSpec => []AttachedVidStable
<1>1. VidInit => VidInv
  BY DEF VidInit, VidInv, VidTypes, AttachedVidStable
<1>2. VidInv => AttachedVidStable
  BY DEF VidInv
<1> QED BY <1>1, <1>2, VidStep, PTL DEF VidSpec

-----------------------------------------------------------------------------
(* The NDI object id table and its CPS form *)

IdTables == [TableNpus -> NdiIds \cup {NoId}]

\* While and after the table is written the object holds, at the instances
\* before the next one, one entry for each NPU that was visited.
Copied ==
  serial \in {"adding", "sent"} =>
    /\ DOMAIN object = 1..(inst_attr_id - 1)
    /\ \A i \in DOMAIN object :
         /\ object[i].npu \in TableNpus \ todo_npus
         /\ object[i].obj = original[object[i].npu]
         /\ original[object[i].npu] # NoId
    /\ \A i, j \in DOMAIN object : i # j => object[i].npu # object[j].npu
    /\ \A n \in TableNpus : original[n] # NoId =>
         n \in todo_npus \/ \E i \in DOMAIN object : object[i].npu = n

TableInv ==
  /\ table \in IdTables /\ received \in IdTables /\ original \in IdTables
  /\ inst_attr_id \in Nat \ {0}
  /\ todo_npus \subseteq {n \in TableNpus : original[n] # NoId}
  /\ serial \in {"idle", "adding", "sent", "received", "refused"}
  /\ serial = "adding" => original = table
  /\ serial = "sent" => todo_npus = {}
  /\ Copied
  /\ RoundTrip

\* An object that holds one entry for each NPU of the table is read back as
\* that table.
LEMMA UnserializeCopy ==
  ASSUME TableInv, serial = "sent"
  PROVE  Unserialized(object) = original
<1>1. /\ original \in IdTables /\ todo_npus = {} /\ Copied
  BY DEF TableInv
<1>2. ASSUME NEW n \in TableNpus PROVE Unserialized(object)[n] = original[n]
  <2> DEFINE of == {i \in DOMAIN object : object[i].npu = n}
  <2>1. CASE of = {}
    <3>1. original[n] = NoId
      BY <1>1, <2>1 DEF Copied
    <3> QED BY <2>1, <3>1 DEF Unserialized
  <2>2. CASE of # {}
    <3>1. PICK i \in of : TRUE
      BY <2>2
    <3>2. i \in Nat /\ of = {i}
      BY <1>1, <3>1 DEF TableInv, Copied
    <3>3. (CHOOSE k \in of : \A j \in of : j <= k) = i
      BY <3>2
    <3>4. object[i].obj = original[n]
      BY <1>1, <3>1 DEF Copied
    <3> QED BY <2>2, <3>3, <3>4 DEF Unserialized
  <2> QED BY <2>1, <2>2
<1>3. Unserialized(object) = [n \in TableNpus |-> Unserialized(object)[n]]
  BY DEF Unserialized
<1> QED BY <1>1, <1>2, <1>3 DEF IdTables

\* One entry goes into the object.
LEMMA SerializeEntryInv ==
  ASSUME TableInv, NEW n \in TableNpus, SerializeEntry(n)
  PROVE  TableInv'
<1>0. /\ TableInv /\ Copied /\ serial = "adding" /\ n \in todo_npus
      /\ UNCHANGED <<table, received, original>> /\ original = table
      /\ inst_attr_id \in Nat \ {0} /\ original[n] # NoId
  BY DEF TableInv, SerializeEntry
<1>1. CASE serial' = "idle" /\ todo_npus' = {} /\ UNCHANGED inst_attr_id
  BY <1>0, <1>1 DEF TableInv, Copied, RoundTrip
<1>2. CASE /\ object' = [i \in DOMAIN object \cup {inst_attr_id} |->
                           IF i = inst_attr_id THEN [npu |-> n, obj |-> table[n]]
                           ELSE object[i]]
           /\ todo_npus' = todo_npus \ {n}
           /\ inst_attr_id' = NextInst
           /\ UNCHANGED serial
  <2> DEFINE last == inst_attr_id
  <2>1. DOMAIN object' = 1..(inst_attr_id' - 1)
    BY <1>0, <1>2 DEF Copied, NextInst
  <2>2. /\ DOMAIN object' = DOMAIN object \cup {last} /\ last \notin DOMAIN object
        /\ object'[last].npu = n /\ object'[last].obj = original[n]
        /\ \A i \in DOMAIN object : object'[i] = object[i]
    BY <1>0, <1>2 DEF Copied
  <2> HIDE DEF last
  <2>3. Copied'
    <3>1. \A i \in DOMAIN object' :
            /\ object'[i].npu \in TableNpus \ todo_npus'
            /\ object'[i].obj = original[object'[i].npu]
            /\ original[object'[i].npu] # NoId
      BY <1>0, <1>2, <2>2 DEF Copied
    <3>2. \A i, j \in DOMAIN object' : i # j => object'[i].npu # object'[j].npu
      BY <1>0, <2>2 DEF Copied
    <3>3. \A m \in TableNpus : original[m] # NoId =>
            m \in todo_npus' \/ \E i \in DOMAIN object' : object'[i].npu = m
      BY <1>0, <1>2, <2>2 DEF Copied
    <3> QED BY <1>0, <2>1, <3>1, <3>2, <3>3 DEF Copied
  <2> QED BY <1>0, <1>2, <2>3 DEF TableInv, RoundTrip, NextInst
<1> QED BY <1>1, <1>2 DEF SerializeEntry

\* Every step of sender and receiver keeps the invariant.
LEMMA TableStep == TableInv /\ [TableNext]_tableVars => TableInv'
<1> SUFFICES ASSUME TableInv, [TableNext]_tableVars PROVE TableInv'
  OBVIOUS
<1>1. ASSUME NEW n \in TableNpus, NEW id \in NdiIds, SetId(n, id)
      PROVE  TableInv'
  BY <1>1 DEF SetId, NotAdding, TableInv, IdTables, Copied, RoundTrip
<1>2. ASSUME NEW n \in TableNpus, EraseId(n)
      PROVE  TableInv'
  BY <1>2 DEF EraseId, NotAdding, TableInv, IdTables, Copied, RoundTrip
<1>3. CASE Serialize
  <2>1. DOMAIN object' = {} /\ inst_attr_id' = 1 /\ original' = table
        /\ todo_npus' = {n \in TableNpus : table[n] # NoId} /\ serial' = "adding"
        /\ UNCHANGED <<table, received>>
    BY <1>3 DEF Serialize
  <2>2. Copied'
    BY <2>1 DEF Copied
  <2> QED BY <2>1, <2>2 DEF TableInv, RoundTrip
<1>4. CASE SerializeDone
  BY <1>4 DEF SerializeDone, TableInv, Copied, RoundTrip
<1>5. CASE Unserialize
  <2>1. Unserialized(object) = original
    BY <1>5, UnserializeCopy DEF Unserialize
  <2>2. \/ received' = original /\ serial' = "received"
        \/ received' = received /\ serial' = "refused"
    BY <1>5, <2>1 DEF Unserialize
  <2> QED BY <1>5, <2>2 DEF Unserialize, TableInv, Copied, RoundTrip
<1>6. CASE UNCHANGED tableVars
  BY <1>6 DEF tableVars, TableInv, Copied, RoundTrip
<1> QED BY <1>1, <1>2, <1>3, <1>4, <1>5, <1>6, SerializeEntryInv DEF TableNext

\* A table that is serialized and read back with success arrives as it was,
\* in whichever order its entries were written.
THEOREM TablesRoundTrip == TableSpec => []RoundTrip
<1>1. TableInit => TableInv
  BY DEF TableInit, NoTable, TableInv, IdTables, Copied, RoundTrip
<1>2. TableInv => RoundTrip
  BY DEF TableInv
<1> QED BY <1>1, <1>2, TableStep, PTL DEF TableSpec

=============================================================================
