-------------------------- MODULE IfMapping_proofs --------------------------
(***************************************************************************)
(* Proofs about IfMapping, for any set of interfaces, threads, addresses   *)
(* and values.                                                             *)
(***************************************************************************)
EXTENDS IfMapping, Sequences, TLAPS

\* A search key of a caller's details is a key of the search map, whatever
\* its port_mapped flag says.
LEMMA MkKeyType ==
  ASSUME NEW d \in Details, NEW q \in QTypes, NEW b \in BOOLEAN
  PROVE  /\ MkKey(q, d) \in Keys(q)
         /\ MkKey(q, [d EXCEPT !.port_mapped = b]) = MkKey(q, d)
  BY DetailsAssumption DEF MkKey, Keys, QTypes

\* Every interface has an IF key.
LEMMA IfKey ==
  ASSUME NEW d \in Details
  PROVE  HasKey("IF", d) /\ MkKey("IF", d) = <<d.vrf_id, d.if_index>>
  BY DEF HasKey, QueryValid, MkKey

\* A search answers with a record's address or with nothing.
LEMMA LocateType ==
  ASSUME TypeOK, NEW d \in Details, NEW q \in QTypes
  PROVE  Locate(q, d) \in Ptr \cup {NULL}
  BY MkKeyType DEF Locate, TypeOK

Inv == TypeOK /\ IndexConsistent

\* dn_hal_if_register (REG) keeps the database well-typed.
LEMMA InsertType ==
  ASSUME TypeOK, NEW r \in Records, Insert(r), UNCHANGED copy
  PROVE  TypeOK'
<1>1. CASE UNCHANGED <<heap, if_mappings, if_indexes, live, dangling>>
  BY <1>1 DEF TypeOK
<1>2. ASSUME NEW p \in Ptr,
             heap' = [heap EXCEPT ![p] = r],
             if_mappings' =
               [q \in QTypes |-> [k \in Keys(q) |->
                  IF HasKey(q, r.det) /\ k = MkKey(q, r.det)
                  THEN p ELSE if_mappings[q][k]]],
             dangling' = dangling \cup ({r.desc} \ {NULL}),
             UNCHANGED live
      PROVE  TypeOK'
  <2>1. {r.desc} \ {NULL} \subseteq Blocks
    BY DEF Records
  <2> QED BY <1>2, <2>1 DEF TypeOK
<1> QED BY <1>1, <1>2 DEF Insert

\* A registration leaves the search maps and the records in agreement.
LEMMA InsertConsistent ==
  ASSUME Inv, NEW r \in Records, Insert(r)
  PROVE  IndexConsistent'
<1>1. CASE UNCHANGED <<heap, if_mappings, if_indexes, live, dangling>>
  BY <1>1 DEF Inv, IndexConsistent, RecordsReachable, EntriesValid
<1>2. ASSUME ~Conflict(r.det),
             NEW p \in Ptr, heap[p] = NULL,
             heap' = [heap EXCEPT ![p] = r],
             if_mappings' =
               [q \in QTypes |-> [k \in Keys(q) |->
                  IF HasKey(q, r.det) /\ k = MkKey(q, r.det)
                  THEN p ELSE if_mappings[q][k]]]
      PROVE  IndexConsistent'
  <2>1. r.det \in Details /\ r # NULL
    BY RecordAssumption DEF Records
  <2>2. ASSUME NEW o \in Ptr, o # p
        PROVE  heap'[o] = heap[o]
    BY <1>2, <2>2 DEF Inv, TypeOK
  <2>3. heap'[p] = r
    BY <1>2 DEF Inv, TypeOK
  <2>4. RecordsReachable'
    <3> SUFFICES ASSUME NEW o \in Ptr, heap'[o] # NULL,
                        NEW q \in QTypes, HasKey(q, heap'[o].det)
                 PROVE  if_mappings'[q][MkKey(q, heap'[o].det)] = o
      BY DEF RecordsReachable
    <3>1. CASE o = p
      BY <3>1, <2>3, <2>1, <1>2, MkKeyType
    <3>2. CASE o # p
      <4> DEFINE k == MkKey(q, heap[o].det)
      <4>1. heap'[o] = heap[o] /\ heap[o] \in Records /\ heap[o].det \in Details
        BY <3>2, <2>2 DEF Inv, TypeOK, Records
      <4>2. k \in Keys(q) /\ if_mappings[q][k] = o
        BY <4>1, MkKeyType DEF Inv, IndexConsistent, RecordsReachable
      <4>3. ~(HasKey(q, r.det) /\ k = MkKey(q, r.det))
        BY <4>2, <1>2, NullAssumption DEF Conflict, Locate
      <4> QED BY <4>1, <4>2, <4>3, <1>2
    <3> QED BY <3>1, <3>2
  <2>5. EntriesValid'
    <3> SUFFICES ASSUME NEW q \in QTypes, NEW k \in Keys(q),
                        if_mappings'[q][k] # NULL
                 PROVE  /\ heap'[if_mappings'[q][k]] # NULL
                        /\ HasKey(q, heap'[if_mappings'[q][k]].det)
                        /\ MkKey(q, heap'[if_mappings'[q][k]].det) = k
      BY DEF EntriesValid
    <3>1. CASE HasKey(q, r.det) /\ k = MkKey(q, r.det)
      BY <3>1, <2>3, <2>1, <1>2
    <3>2. CASE ~(HasKey(q, r.det) /\ k = MkKey(q, r.det))
      <4>1. if_mappings'[q][k] = if_mappings[q][k]
        BY <3>2, <1>2
      <4>2. if_mappings[q][k] \in Ptr /\ heap[if_mappings[q][k]] # NULL
        BY <4>1 DEF Inv, TypeOK, IndexConsistent, EntriesValid
      <4>3. heap'[if_mappings[q][k]] = heap[if_mappings[q][k]]
        BY <4>2, <2>2, <1>2
      <4> QED BY <4>1, <4>2, <4>3 DEF Inv, IndexConsistent, EntriesValid
    <3> QED BY <3>1, <3>2
  <2> QED BY <2>4, <2>5 DEF IndexConsistent
<1> QED BY <1>1, <1>2 DEF Insert

\* What a search finds is an allocated record that has the key searched for.
LEMMA LocateFinds ==
  ASSUME Inv, NEW d \in Details, NEW q \in QTypes, Locate(q, d) # NULL
  PROVE  /\ Locate(q, d) \in Ptr
         /\ heap[Locate(q, d)] \in Records
         /\ HasKey(q, d) /\ HasKey(q, heap[Locate(q, d)].det)
         /\ MkKey(q, heap[Locate(q, d)].det) = MkKey(q, d)
<1>1. HasKey(q, d) /\ Locate(q, d) = if_mappings[q][MkKey(q, d)]
  BY DEF Locate
<1>2. MkKey(q, d) \in Keys(q)
  BY MkKeyType
<1> QED BY <1>1, <1>2 DEF Inv, TypeOK, IndexConsistent, EntriesValid

\* Removing a record keeps the database well-typed ...
LEMMA RemoveType ==
  ASSUME TypeOK, NEW p \in Ptr, heap[p] \in Records, NEW vrf,
         Remove(p, vrf), UNCHANGED copy
  PROVE  TypeOK'
  BY DEF Remove, TypeOK

\* ... and takes with it the entries that led to the record, and no other.
LEMMA RemoveConsistent ==
  ASSUME Inv, NEW p \in Ptr, heap[p] \in Records, NEW vrf, Remove(p, vrf)
  PROVE  IndexConsistent'
<1> DEFINE r == heap[p]
<1>1. r.det \in Details /\ r # NULL
  BY RecordAssumption DEF Records
<1>2. heap'[p] = NULL /\ \A o \in Ptr \ {p} : heap'[o] = heap[o]
  BY DEF Remove, Inv, TypeOK
<1>3. ASSUME NEW q \in QTypes, NEW k \in Keys(q)
      PROVE  if_mappings'[q][k] = IF HasKey(q, r.det) /\ k = MkKey(q, r.det)
                                  THEN NULL ELSE if_mappings[q][k]
  BY DEF Remove
<1>4. ASSUME NEW q \in QTypes, HasKey(q, r.det)
      PROVE  if_mappings[q][MkKey(q, r.det)] = p
  BY <1>1, <1>4 DEF Inv, IndexConsistent, RecordsReachable
<1>5. RecordsReachable'
  <2> SUFFICES ASSUME NEW o \in Ptr, heap'[o] # NULL,
                      NEW q \in QTypes, HasKey(q, heap'[o].det)
               PROVE  if_mappings'[q][MkKey(q, heap'[o].det)] = o
    BY DEF RecordsReachable
  <2> DEFINE k == MkKey(q, heap[o].det)
  <2>1. o # p /\ heap'[o] = heap[o]
    BY <1>2
  <2>2. heap[o].det \in Details
    BY <2>1 DEF Inv, TypeOK, Records
  <2>3. k \in Keys(q) /\ if_mappings[q][k] = o
    BY <2>1, <2>2, MkKeyType DEF Inv, IndexConsistent, RecordsReachable
  <2>4. ~(HasKey(q, r.det) /\ k = MkKey(q, r.det))
    BY <2>1, <2>3, <1>4
  <2> QED BY <2>1, <2>3, <2>4, <1>3
<1>6. EntriesValid'
  <2> SUFFICES ASSUME NEW q \in QTypes, NEW k \in Keys(q),
                      if_mappings'[q][k] # NULL
               PROVE  /\ heap'[if_mappings'[q][k]] # NULL
                      /\ HasKey(q, heap'[if_mappings'[q][k]].det)
                      /\ MkKey(q, heap'[if_mappings'[q][k]].det) = k
    BY DEF EntriesValid
  <2> DEFINE o == if_mappings[q][k]
  <2>1. if_mappings'[q][k] = o /\ ~(HasKey(q, r.det) /\ k = MkKey(q, r.det))
    BY <1>3
  <2>2. /\ o \in Ptr /\ heap[o] # NULL
        /\ HasKey(q, heap[o].det) /\ MkKey(q, heap[o].det) = k
    BY <2>1 DEF Inv, TypeOK, IndexConsistent, EntriesValid
  <2>3. o # p
    BY <2>1, <2>2
  <2> QED BY <2>1, <2>2, <2>3, <1>2
<1> QED BY <1>5, <1>6 DEF IndexConsistent

\* A step that keeps which addresses hold records, and the keys of each.
SameKeys ==
  \A o \in Ptr :
    /\ heap'[o] # NULL <=> heap[o] # NULL
    /\ heap[o] # NULL => heap'[o].det = heap[o].det

\* Changing only what a record holds besides its keys disturbs nothing.
LEMMA UpdateConsistent ==
  ASSUME Inv, NEW p \in Ptr, heap[p] # NULL, NEW r \in Records,
         r.det = heap[p].det,
         heap' = [heap EXCEPT ![p] = r], UNCHANGED if_mappings
  PROVE  IndexConsistent'
<1>1. SameKeys
  BY RecordAssumption DEF SameKeys, Inv, TypeOK
<1>2. RecordsReachable'
  BY <1>1 DEF SameKeys, Inv, IndexConsistent, RecordsReachable
<1>3. EntriesValid'
  BY <1>1 DEF SameKeys, Inv, TypeOK, IndexConsistent, EntriesValid
<1> QED BY <1>2, <1>3 DEF IndexConsistent

\* AllQueries lists the query types, so that what _cleanup finds first is
\* found by a query.
LEMMA QueriesType == ASSUME NEW i \in 1..7 PROVE AllQueries[i] \in QTypes
  BY DEF AllQueries, QTypes

\* dn_hal_if_register (DEREG) keeps types and agreement.
LEMMA CleanupInv ==
  ASSUME Inv, NEW d \in Details, Cleanup(d), UNCHANGED copy
  PROVE  Inv'
<1>1. CASE UNCHANGED <<heap, if_mappings, if_indexes, live, dangling>>
  BY <1>1 DEF Inv, TypeOK, IndexConsistent, RecordsReachable, EntriesValid
<1>2. ASSUME NEW i \in 1..7, FirstHit(i, d), Remove(Locate(AllQueries[i], d), d.vrf_id)
      PROVE  Inv'
  <2>1. Locate(AllQueries[i], d) \in Ptr /\ heap[Locate(AllQueries[i], d)] \in Records
    BY <1>2, QueriesType, LocateFinds DEF FirstHit
  <2> QED BY <1>2, <2>1, RemoveType, RemoveConsistent DEF Inv
<1> QED BY <1>1, <1>2 DEF Cleanup

\* dn_hal_update_intf_mac, nas_cmn_update_router_intf_info and
\* dn_hal_update_intf_desc replace one record by one with the same keys.
LEMMA UpdateInv ==
  ASSUME Inv, NEW p \in Ptr, heap[p] # NULL, NEW r \in Records,
         r.det = heap[p].det,
         heap' = [heap EXCEPT ![p] = r],
         live' \subseteq Blocks, dangling' \subseteq Blocks,
         UNCHANGED <<if_mappings, copy>>
  PROVE  Inv'
<1>1. TypeOK'
  BY DEF Inv, TypeOK
<1> QED BY <1>1, UpdateConsistent DEF Inv

\* dn_hal_update_intf_desc on the record at p.
LEMMA SetDescInv ==
  ASSUME Inv, NEW p \in Ptr, heap[p] \in Records, NEW text,
         SetDesc(p, text), UNCHANGED <<if_mappings, copy>>
  PROVE  Inv'
<1> DEFINE with(b) == [heap[p] EXCEPT !.desc = b]
<1>1. ASSUME NEW b \in Blocks \cup {NULL}
      PROVE  with(b) \in Records /\ with(b).det = heap[p].det
  BY DEF Records
<1>2. /\ heap[p] # NULL /\ live \subseteq Blocks /\ dangling \subseteq Blocks
      /\ {heap[p].desc} \ {NULL} \subseteq Blocks
  BY RecordAssumption DEF Inv, TypeOK, Records
<1>3. ASSUME NEW b \in Blocks \cup {NULL},
             heap' = [heap EXCEPT ![p].desc = b], live' \subseteq Blocks,
             UNCHANGED dangling
      PROVE  Inv'
  <2>1. heap' = [heap EXCEPT ![p] = with(b)]
    BY <1>3
  <2> HIDE DEF with
  <2> QED BY <2>1, <1>1, <1>2, <1>3, UpdateInv
<1>4. ASSUME UNCHANGED heap, live' \subseteq Blocks, dangling' \subseteq Blocks
      PROVE  Inv'
  BY <1>4 DEF Inv, TypeOK, IndexConsistent, RecordsReachable, EntriesValid
<1>5. CASE /\ heap' = [heap EXCEPT ![p].desc = NULL]
           /\ live' = live \ {heap[p].desc} /\ UNCHANGED dangling
  BY <1>5, <1>3, <1>2
<1>6. CASE /\ \E b \in Blocks \ (live \ {heap[p].desc}) :
                /\ heap' = [heap EXCEPT ![p].desc = b]
                /\ live' = (live \ {heap[p].desc}) \cup {b}
           /\ UNCHANGED dangling
  BY <1>6, <1>3, <1>2
<1>7. CASE /\ live' = live \ {heap[p].desc} /\ UNCHANGED heap
           /\ dangling' = dangling \cup ({heap[p].desc} \ {NULL})
  BY <1>7, <1>4, <1>2
<1> QED BY <1>5, <1>6, <1>7 DEF SetDesc

\* dn_hal_update_intf_mac replaces one record, keys and description kept.
LEMMA MacStep ==
  ASSUME Inv, NEW d \in Details, NEW m \in Macs, UpdateIntfMac(d.if_index, m)
  PROVE  \E p \in Ptr, r \in Records :
           /\ heap[p] \in Records /\ heap' = [heap EXCEPT ![p] = r]
           /\ r.det = heap[p].det /\ r.desc = heap[p].desc
<1> DEFINE p == if_mappings["IF"][<<0, d.if_index>>]
           r == [heap[p] EXCEPT !.mac = m]
<1>1. /\ <<0, d.if_index>> \in Keys("IF") /\ p # NULL
      /\ heap' = [heap EXCEPT ![p] = r]
  BY DEF UpdateIntfMac
<1>2. p \in Ptr /\ heap[p] \in Records
  BY <1>1 DEF Inv, TypeOK, IndexConsistent, EntriesValid, QTypes
<1>3. r \in Records /\ r.det = heap[p].det /\ r.desc = heap[p].desc
  BY <1>2 DEF Records
<1> HIDE DEF p, r
<1> QED BY <1>1, <1>2, <1>3

\* nas_cmn_update_router_intf_info does the same.
LEMMA L3Step ==
  ASSUME Inv, NEW d \in Details, NEW l \in L3Infos,
         UpdateRouterIntfInfo(<<d.vrf_id, d.if_index>>, l)
  PROVE  \E p \in Ptr, r \in Records :
           /\ heap[p] \in Records /\ heap' = [heap EXCEPT ![p] = r]
           /\ r.det = heap[p].det /\ r.desc = heap[p].desc
<1> DEFINE p == if_mappings["IF"][<<d.vrf_id, d.if_index>>]
           r == [heap[p] EXCEPT !.l3 = l]
<1>1. p # NULL /\ heap' = [heap EXCEPT ![p] = r]
  BY DEF UpdateRouterIntfInfo
<1>2. "IF" \in QTypes /\ <<d.vrf_id, d.if_index>> \in Keys("IF")
  BY MkKeyType, IfKey DEF QTypes
<1>3. p \in Ptr /\ heap[p] \in Records
  <2>1. /\ if_mappings["IF"] \in [Keys("IF") -> Ptr \cup {NULL}]
        /\ heap \in [Ptr -> Records \cup {NULL}]
    BY <1>2 DEF Inv, TypeOK
  <2>2. heap[p] # NULL
    BY <1>1, <1>2 DEF Inv, IndexConsistent, EntriesValid
  <2>3. p \in Ptr
    BY <1>1, <1>2, <2>1
  <2> QED BY <2>1, <2>2, <2>3
<1>4. r \in Records /\ r.det = heap[p].det /\ r.desc = heap[p].desc
  BY <1>3 DEF Records
<1> HIDE DEF p, r
<1> QED BY <1>1, <1>3, <1>4

\* A thread that registers its copy passes a record, its desc nulled or not.
LEMMA CopyInserted ==
  ASSUME Inv, NEW c \in Clients, RegisterCopy(c)
  PROVE  UNCHANGED copy /\ \E r \in Records : Insert(r)
<1>1. copy[c] \in Records
  BY DEF RegisterCopy, Inv, TypeOK
<1>2. [copy[c] EXCEPT !.desc = NULL] \in Records
  BY <1>1 DEF Records
<1>3. CASE Insert(copy[c])
  BY <1>1, <1>3 DEF RegisterCopy
<1>4. CASE Insert([copy[c] EXCEPT !.desc = NULL])
  BY <1>2, <1>4 DEF RegisterCopy
<1> QED BY <1>3, <1>4 DEF RegisterCopy

\* Every call keeps types and agreement.
LEMMA NextInv == Inv /\ [Next]_vars => Inv'
<1> SUFFICES ASSUME Inv, [Next]_vars PROVE Inv'
  OBVIOUS
<1>1. ASSUME NEW d \in Details, NEW m \in Macs, NEW l \in L3Infos, Register(d, m, l)
      PROVE  Inv'
  <2>1. [det |-> d, mac |-> m, l3 |-> l, desc |-> NULL] \in Records
    BY DEF Records
  <2> QED BY <1>1, <2>1, InsertType, InsertConsistent DEF Register, Inv
<1>2. ASSUME NEW d \in Details, Deregister(d)
      PROVE  Inv'
  BY <1>2, CleanupInv DEF Deregister
<1>3. ASSUME NEW c \in Clients, NEW q \in QTypes, NEW d \in Details, GetInterfaceInfo(c, q, d)
      PROVE  Inv'
  <2> DEFINE key == [d EXCEPT !.port_mapped = d.port_mapped \/ q = "PORT"]
             p   == Locate(q, key)
  <2>1. (d.port_mapped \/ q = "PORT") \in BOOLEAN
    OBVIOUS
  <2>2. p # NULL /\ copy' = [copy EXCEPT ![c] = heap[p]]
          /\ UNCHANGED <<heap, if_mappings, if_indexes, live, dangling>>
    BY <1>3 DEF GetInterfaceInfo
  <2>3. MkKey(q, key) = MkKey(q, d) /\ MkKey(q, d) \in Keys(q)
    BY <2>1, MkKeyType
  <2>4. p = if_mappings[q][MkKey(q, d)]
    BY <2>2, <2>3 DEF Locate
  <2>5. heap[p] \in Records
    BY <2>2, <2>3, <2>4 DEF Inv, TypeOK, IndexConsistent, EntriesValid
  <2>6. TypeOK'
    BY <2>2, <2>5 DEF Inv, TypeOK
  <2>7. IndexConsistent'
    BY <2>2 DEF Inv, IndexConsistent, RecordsReachable, EntriesValid
  <2> QED BY <2>6, <2>7 DEF Inv
<1>4. ASSUME NEW c \in Clients, DeregisterCopy(c)
      PROVE  Inv'
  <2>1. copy[c].det \in Details
    BY <1>4 DEF DeregisterCopy, Inv, TypeOK, Records
  <2> QED BY <1>4, <2>1, CleanupInv DEF DeregisterCopy
<1>5. ASSUME NEW c \in Clients, RegisterCopy(c)
      PROVE  Inv'
  <2>1. PICK r \in Records : Insert(r) /\ UNCHANGED copy
    BY <1>5, CopyInserted
  <2> QED BY <2>1, InsertType, InsertConsistent DEF Inv
<1>6. ASSUME NEW d \in Details, NEW m \in Macs, UpdateIntfMac(d.if_index, m)
      PROVE  Inv'
  <2>1. /\ live' \subseteq Blocks /\ dangling' \subseteq Blocks
        /\ UNCHANGED <<if_mappings, copy>>
    BY <1>6 DEF UpdateIntfMac, Inv, TypeOK
  <2> QED BY <1>6, <2>1, MacStep, UpdateInv, RecordAssumption
<1>7. ASSUME NEW d \in Details, NEW l \in L3Infos,
             UpdateRouterIntfInfo(<<d.vrf_id, d.if_index>>, l)
      PROVE  Inv'
  <2>1. /\ live' \subseteq Blocks /\ dangling' \subseteq Blocks
        /\ UNCHANGED <<if_mappings, copy>>
    BY <1>7 DEF UpdateRouterIntfInfo, Inv, TypeOK
  <2> QED BY <1>7, <2>1, L3Step, UpdateInv, RecordAssumption
<1>8. ASSUME NEW q \in QTypes, NEW d \in Details, NEW t \in {"blank", "text"},
             UpdateIntfDesc(q, d, t)
      PROVE  Inv'
  <2>1. Locate(q, d) \in Ptr /\ heap[Locate(q, d)] \in Records
    BY <1>8, LocateFinds DEF UpdateIntfDesc
  <2> QED BY <1>8, <2>1, SetDescInv DEF UpdateIntfDesc
<1>9. CASE UNCHANGED vars
  BY <1>9 DEF vars, Inv, TypeOK, IndexConsistent, RecordsReachable, EntriesValid
<1> QED
  BY <1>1, <1>2, <1>3, <1>4, <1>5, <1>6, <1>7, <1>8, <1>9 DEF Next

\* The empty database is well-typed and consistent.
LEMMA InitInv == Init => Inv
  BY NullAssumption DEF Init, Inv, TypeOK, IndexConsistent, RecordsReachable, EntriesValid

\* Every call of the interface database leaves each variable in its type, for
\* any interfaces, threads, addresses and values.
THEOREM TypeCorrect == Spec => []TypeOK
<1>1. Inv => TypeOK
  BY DEF Inv
<1> QED BY <1>1, InitInv, NextInv, PTL DEF Spec

\* In every history of registrations, removals and updates, by records of
\* the callers' own making or by copies of any age, the search maps of
\* hal_if_mapping.cpp and the allocated records agree: each record is found
\* under each of its keys, and each entry leads to an allocated record that
\* has that key.
THEOREM MapsConsistent == Spec => []IndexConsistent
<1>1. Inv => IndexConsistent
  BY DEF Inv
<1> QED BY <1>1, InitInv, NextInv, PTL DEF Spec

-----------------------------------------------------------------------------
(* The set if_indexes *)

\* i is the if_index of the record at p, which belongs to VRF 0.
Indexes(p, i) == heap[p] # NULL /\ heap[p].det.vrf_id = 0 /\ heap[p].det.if_index = i

\* IfIndexesExact, member by member.
LEMMA ExactMembers ==
  IfIndexesExact <=> if_indexes = {i \in if_indexes : \E p \in Ptr : Indexes(p, i)}
                     /\ \A p \in Ptr : \A i : Indexes(p, i) => i \in if_indexes
  BY DEF IfIndexesExact, Indexes

\* A registration adds the if_index of the new record alone.
LEMMA InsertIndexes ==
  ASSUME Inv, IfIndexesExact, NEW r \in Records, Insert(r)
  PROVE  IfIndexesExact'
<1>1. CASE UNCHANGED <<heap, if_mappings, if_indexes, live, dangling>>
  BY <1>1 DEF IfIndexesExact
<1>2. ASSUME NEW p \in Ptr, heap[p] = NULL,
             heap' = [heap EXCEPT ![p] = r],
             if_indexes' = if_indexes \cup (IF r.det.vrf_id = 0
                                            THEN {r.det.if_index} ELSE {})
      PROVE  IfIndexesExact'
  <2>1. heap'[p] = r /\ r # NULL /\ \A o \in Ptr \ {p} : heap'[o] = heap[o]
    BY <1>2, RecordAssumption DEF Inv, TypeOK
  <2>2. ASSUME NEW o \in Ptr, NEW i, Indexes(o, i)'
        PROVE  i \in if_indexes'
    BY <2>1, <2>2, <1>2, ExactMembers DEF Indexes
  <2>3. ASSUME NEW i \in if_indexes'
        PROVE  \E o \in Ptr : Indexes(o, i)'
    <3>1. CASE i \in if_indexes
      <4>1. PICK o \in Ptr : Indexes(o, i)
        BY <3>1, ExactMembers
      <4> QED BY <4>1, <2>1, <1>2 DEF Indexes
    <3>2. CASE i \notin if_indexes
      BY <3>2, <2>1, <1>2 DEF Indexes
    <3> QED BY <3>1, <3>2
  <2> QED BY <2>2, <2>3 DEF IfIndexesExact, Indexes
<1> QED BY <1>1, <1>2 DEF Insert

\* A removal takes out the if_index of the record alone, as long as the
\* caller and the record name the same VRF.
LEMMA RemoveIndexes ==
  ASSUME Inv, IfIndexesExact, NEW p \in Ptr, heap[p] \in Records,
         Remove(p, heap[p].det.vrf_id)
  PROVE  IfIndexesExact'
<1>1. heap'[p] = NULL /\ heap[p] # NULL /\ \A o \in Ptr \ {p} : heap'[o] = heap[o]
  BY RecordAssumption DEF Inv, TypeOK, Remove
<1>2. if_indexes' = if_indexes \ (IF heap[p].det.vrf_id = 0
                                 THEN {heap[p].det.if_index} ELSE {})
  BY DEF Remove
<1>3. ASSUME NEW o \in Ptr, NEW i, Indexes(o, i), Indexes(p, i)
      PROVE  o = p
  <2> USE <1>3 DEF Indexes
  <2>1. heap[o].det \in Details /\ heap[p].det \in Details
    BY DEF Inv, TypeOK, Records
  <2>2. MkKey("IF", heap[o].det) = MkKey("IF", heap[p].det)
    BY <2>1, IfKey
  <2>3. "IF" \in QTypes /\ HasKey("IF", heap[o].det) /\ HasKey("IF", heap[p].det)
    BY <2>1, IfKey DEF QTypes
  <2> QED BY <2>2, <2>3 DEF Inv, IndexConsistent, RecordsReachable
<1>4. ASSUME NEW o \in Ptr, NEW i, Indexes(o, i)'
      PROVE  i \in if_indexes'
  <2>1. o # p /\ Indexes(o, i)
    BY <1>4, <1>1 DEF Indexes
  <2>2. i \in if_indexes
    BY <2>1, ExactMembers
  <2>3. ~Indexes(p, i)
    BY <2>1, <1>3
  <2> QED BY <2>2, <2>3, <1>1, <1>2 DEF Indexes
<1>5. ASSUME NEW i \in if_indexes'
      PROVE  \E o \in Ptr : Indexes(o, i)'
  <2>1. PICK o \in Ptr : Indexes(o, i)
    BY <1>5, <1>2, ExactMembers
  <2>2. o # p
    BY <2>1, <1>2, <1>5 DEF Indexes
  <2> QED BY <2>1, <2>2, <1>1 DEF Indexes
<1> QED BY <1>4, <1>5 DEF IfIndexesExact, Indexes

\* A removal by details that agree with the record on its VRF.
LEMMA CleanupIndexes ==
  ASSUME VrfAgree, Inv, IfIndexesExact, NEW d \in Details, Cleanup(d)
  PROVE  IfIndexesExact'
<1>1. CASE UNCHANGED <<heap, if_mappings, if_indexes, live, dangling>>
  BY <1>1 DEF IfIndexesExact
<1>2. ASSUME NEW i \in 1..7, FirstHit(i, d), Remove(Locate(AllQueries[i], d), d.vrf_id)
      PROVE  IfIndexesExact'
  <2> DEFINE p == Locate(AllQueries[i], d)
  <2>1. /\ p \in Ptr /\ heap[p] \in Records /\ AllQueries[i] \in QTypes
        /\ HasKey(AllQueries[i], d) /\ HasKey(AllQueries[i], heap[p].det)
        /\ MkKey(AllQueries[i], heap[p].det) = MkKey(AllQueries[i], d)
    BY <1>2, QueriesType, LocateFinds DEF FirstHit
  <2>2. heap[p].det.vrf_id = d.vrf_id
    BY <2>1 DEF VrfAgree, SameKey, Records
  <2> QED BY <1>2, <2>1, <2>2, RemoveIndexes
<1> QED BY <1>1, <1>2 DEF Cleanup

\* Updates keep each record's keys, so they leave if_indexes right.
LEMMA KeepIndexes ==
  ASSUME IfIndexesExact, UNCHANGED if_indexes, SameKeys
  PROVE  IfIndexesExact'
<1>1. \A o \in Ptr : \A i : Indexes(o, i)' <=> Indexes(o, i)
  BY DEF SameKeys, Indexes
<1>2. ASSUME NEW o \in Ptr, NEW i, Indexes(o, i)'
      PROVE  i \in if_indexes'
  BY <1>1, <1>2, ExactMembers
<1>3. ASSUME NEW i \in if_indexes'
      PROVE  \E o \in Ptr : Indexes(o, i)'
  BY <1>1, <1>3, ExactMembers
<1> QED BY <1>2, <1>3 DEF IfIndexesExact, Indexes

\* dn_hal_update_intf_desc keeps each record's keys.
LEMMA SetDescKeys ==
  ASSUME Inv, NEW p \in Ptr, heap[p] \in Records, NEW text, SetDesc(p, text)
  PROVE  SameKeys
<1>1. CASE UNCHANGED heap
  BY <1>1 DEF SameKeys
<1>2. ASSUME NEW b \in Blocks \cup {NULL}, heap' = [heap EXCEPT ![p].desc = b]
      PROVE  SameKeys
  <2>1. heap'[p] \in Records /\ heap'[p].det = heap[p].det
    BY <1>2 DEF Inv, TypeOK, Records
  <2> QED BY <2>1, <1>2, RecordAssumption DEF SameKeys, Inv, TypeOK
<1> QED BY <1>1, <1>2 DEF SetDesc

\* Every call leaves if_indexes right when VRFs agree.
LEMMA NextIndexes ==
  ASSUME VrfAgree
  PROVE  Inv /\ IfIndexesExact /\ [Next]_vars => IfIndexesExact'
<1> SUFFICES ASSUME Inv, IfIndexesExact, [Next]_vars PROVE IfIndexesExact'
  OBVIOUS
<1>1. ASSUME NEW d \in Details, NEW m \in Macs, NEW l \in L3Infos, Register(d, m, l)
      PROVE  IfIndexesExact'
  <2>1. [det |-> d, mac |-> m, l3 |-> l, desc |-> NULL] \in Records
    BY DEF Records
  <2> QED BY <1>1, <2>1, InsertIndexes DEF Register
<1>2. ASSUME NEW d \in Details, Deregister(d)
      PROVE  IfIndexesExact'
  BY <1>2, CleanupIndexes DEF Deregister
<1>3. ASSUME NEW c \in Clients, NEW q \in QTypes, NEW d \in Details, GetInterfaceInfo(c, q, d)
      PROVE  IfIndexesExact'
  BY <1>3 DEF GetInterfaceInfo, IfIndexesExact
<1>4. ASSUME NEW c \in Clients, DeregisterCopy(c)
      PROVE  IfIndexesExact'
  <2>1. copy[c].det \in Details
    BY <1>4 DEF DeregisterCopy, Inv, TypeOK, Records
  <2> QED BY <1>4, <2>1, CleanupIndexes DEF DeregisterCopy
<1>5. ASSUME NEW c \in Clients, RegisterCopy(c)
      PROVE  IfIndexesExact'
  <2>1. PICK r \in Records : Insert(r)
    BY <1>5, CopyInserted
  <2> QED BY <2>1, InsertIndexes
<1>6. ASSUME NEW p \in Ptr, NEW r \in Records, heap[p] \in Records,
             heap' = [heap EXCEPT ![p] = r], r.det = heap[p].det
      PROVE  SameKeys
  BY <1>6, RecordAssumption DEF SameKeys, Inv, TypeOK
<1>7. ASSUME NEW d \in Details, NEW m \in Macs, UpdateIntfMac(d.if_index, m)
      PROVE  IfIndexesExact'
  <2>1. SameKeys
    BY <1>7, <1>6, MacStep
  <2> QED BY <2>1, <1>7, KeepIndexes DEF UpdateIntfMac
<1>8. ASSUME NEW d \in Details, NEW l \in L3Infos,
             UpdateRouterIntfInfo(<<d.vrf_id, d.if_index>>, l)
      PROVE  IfIndexesExact'
  <2>1. SameKeys
    BY <1>8, <1>6, L3Step
  <2> QED BY <2>1, <1>8, KeepIndexes DEF UpdateRouterIntfInfo
<1>9. ASSUME NEW q \in QTypes, NEW d \in Details, NEW t \in {"blank", "text"},
             UpdateIntfDesc(q, d, t)
      PROVE  IfIndexesExact'
  <2>1. Locate(q, d) \in Ptr /\ heap[Locate(q, d)] \in Records
    BY <1>9, LocateFinds DEF UpdateIntfDesc
  <2>2. SameKeys
    BY <1>9, <2>1, SetDescKeys DEF UpdateIntfDesc
  <2> QED BY <2>2, <1>9, KeepIndexes DEF UpdateIntfDesc
<1>10. CASE UNCHANGED vars
  BY <1>10 DEF vars, IfIndexesExact
<1> QED
  BY <1>1, <1>2, <1>3, <1>4, <1>5, <1>7, <1>8, <1>9, <1>10 DEF Next

\* When details that share a key always name the same VRF, the set that
\* dn_hal_get_next_ifindex walks holds exactly the interfaces registered in
\* VRF 0.  The hypothesis is needed: _cleanup erases from if_indexes by the
\* vrf_id its caller passed.
THEOREM IndexesExact ==
  ASSUME VrfAgree
  PROVE  Spec => []IfIndexesExact
<1>1. Init => IfIndexesExact
  BY DEF Init, IfIndexesExact
<1>2. Inv /\ IfIndexesExact /\ [Next]_vars => IfIndexesExact'
  BY NextIndexes
<1> QED BY <1>1, <1>2, InitInv, NextInv, PTL DEF Spec

-----------------------------------------------------------------------------
(* Description strings *)

\* A step that keeps which addresses hold records, and the description of each.
SameDescs ==
  \A o \in Ptr :
    /\ heap'[o] # NULL <=> heap[o] # NULL
    /\ heap[o] # NULL => heap'[o].desc = heap[o].desc

\* Such a step keeps the ownership of the blocks.
LEMMA KeepDescs ==
  ASSUME DescOwned, SameDescs, UNCHANGED <<live, dangling>>
  PROVE  DescOwned'
  BY DEF DescOwned, DescOnce, DescKept, SameDescs

\* A record can be added whatever its caller's desc pointer: the address it
\* brings is dangling from then on.
LEMMA InsertDesc ==
  ASSUME Inv, DescOwned, NEW r \in Records, Insert(r)
  PROVE  DescOwned'
<1>1. CASE UNCHANGED <<heap, if_mappings, if_indexes, live, dangling>>
  BY <1>1 DEF DescOwned, DescOnce, DescKept
<1>2. ASSUME NEW p \in Ptr, heap[p] = NULL,
             heap' = [heap EXCEPT ![p] = r],
             dangling' = dangling \cup ({r.desc} \ {NULL}), UNCHANGED live
      PROVE  DescOwned'
  <2>1. heap'[p] = r /\ r # NULL /\ \A o \in Ptr \ {p} : heap'[o] = heap[o]
    BY <1>2, RecordAssumption DEF Inv, TypeOK
  <2>2. ASSUME NEW o \in Ptr, heap'[o] # NULL, heap'[o].desc \notin dangling' \cup {NULL}
        PROVE  /\ heap'[o].desc \in live'
               /\ \A x \in Ptr \ {o} : heap'[x] # NULL => heap'[x].desc # heap'[o].desc
    <3>1. o # p /\ heap'[o] = heap[o] /\ heap[o].desc # r.desc
      BY <2>1, <2>2, <1>2
    <3>2. /\ heap[o].desc \in live
          /\ \A x \in Ptr \ {o} : heap[x] # NULL => heap[x].desc # heap[o].desc
      BY <2>2, <3>1, <1>2 DEF DescOwned, DescOnce
    <3> QED BY <2>1, <3>1, <3>2, <1>2
  <2>3. ASSUME NEW b \in live'
        PROVE  \E o \in Ptr : heap'[o] # NULL /\ heap'[o].desc = b
    <3>1. PICK o \in Ptr : heap[o] # NULL /\ heap[o].desc = b
      BY <2>3, <1>2 DEF DescOwned, DescKept
    <3> QED BY <3>1, <2>1, <1>2
  <2> QED BY <2>2, <2>3 DEF DescOwned, DescOnce, DescKept
<1> QED BY <1>1, <1>2 DEF Insert

\* Freeing the description of the record at p, and giving it another one that
\* is not allocated, or none, or removing the record.
LEMMA ReplaceDesc ==
  ASSUME Inv, DescOwned, NEW p \in Ptr, heap[p] # NULL,
         \A o \in Ptr \ {p} : heap'[o] = heap[o],
         NEW b \in Blocks \cup {NULL},
         b \notin live \ {heap[p].desc},
         heap'[p] = NULL => b = NULL,
         heap'[p] # NULL => heap'[p].desc = b,
         live' = (live \ {heap[p].desc}) \cup ({b} \ {NULL}),
         UNCHANGED dangling
  PROVE  DescOwned'
<1>1. live \subseteq Blocks /\ NULL \notin live
  BY NullAssumption DEF Inv, TypeOK
<1>2. ASSUME NEW o \in Ptr, heap'[o] # NULL, heap'[o].desc \notin dangling' \cup {NULL}
      PROVE  /\ heap'[o].desc \in live'
             /\ \A x \in Ptr \ {o} : heap'[x] # NULL => heap'[x].desc # heap'[o].desc
  <2>1. ASSUME NEW x \in Ptr \ {p}, heap'[x] # NULL,
               heap'[x].desc \notin dangling \cup {NULL}
        PROVE  /\ heap'[x] = heap[x]
               /\ heap[x].desc \in live \ {heap[p].desc}
    BY <2>1 DEF DescOwned, DescOnce
  <2>2. CASE o = p
    BY <1>2, <2>1, <2>2
  <2>3. CASE o # p
    <3>1. heap'[o] = heap[o] /\ heap[o].desc \in live \ {heap[p].desc}
      BY <1>2, <2>1, <2>3
    <3>2. \A x \in Ptr \ {o} : heap[x] # NULL => heap[x].desc # heap[o].desc
      BY <3>1, <1>2 DEF DescOwned, DescOnce
    <3> QED BY <3>1, <3>2
  <2> QED BY <2>2, <2>3
<1>3. ASSUME NEW c \in live'
      PROVE  \E o \in Ptr : heap'[o] # NULL /\ heap'[o].desc = c
  <2>1. CASE c = b
    BY <2>1, <1>3, <1>1
  <2>2. CASE c # b
    <3>1. c \in live /\ c # heap[p].desc
      BY <2>2, <1>3
    <3>2. PICK o \in Ptr : heap[o] # NULL /\ heap[o].desc = c
      BY <3>1 DEF DescOwned, DescKept
    <3> QED BY <3>1, <3>2
  <2> QED BY <2>1, <2>2
<1> QED BY <1>2, <1>3 DEF DescOwned, DescOnce, DescKept

\* dn_hal_if_register (DEREG) frees the description of the record it removes.
LEMMA CleanupDesc ==
  ASSUME Inv, DescOwned, NEW d \in Details, Cleanup(d)
  PROVE  DescOwned'
<1>1. CASE UNCHANGED <<heap, if_mappings, if_indexes, live, dangling>>
  BY <1>1 DEF DescOwned, DescOnce, DescKept
<1>2. ASSUME NEW i \in 1..7, FirstHit(i, d), Remove(Locate(AllQueries[i], d), d.vrf_id)
      PROVE  DescOwned'
  <2> DEFINE p == Locate(AllQueries[i], d)
  <2>1. p \in Ptr /\ heap[p] \in Records /\ heap[p] # NULL
    BY <1>2, QueriesType, LocateFinds, RecordAssumption DEF FirstHit
  <2>2. /\ heap' = [heap EXCEPT ![p] = NULL]
        /\ live' = live \ {heap[p].desc}
        /\ UNCHANGED dangling
    BY <1>2 DEF Remove
  <2> HIDE DEF p
  <2>3. heap'[p] = NULL /\ \A o \in Ptr \ {p} : heap'[o] = heap[o]
    BY <2>1, <2>2 DEF Inv, TypeOK
  <2>4. NULL \notin live /\ live' = (live \ {heap[p].desc}) \cup ({NULL} \ {NULL})
    BY <2>2, NullAssumption DEF Inv, TypeOK
  <2> QED BY <2>1, <2>2, <2>3, <2>4, ReplaceDesc
<1> QED BY <1>1, <1>2 DEF Cleanup

\* dn_hal_update_intf_desc: the text is blank, its copy gets a block, or the
\* allocation throws and the address just freed stays in the record.
LEMMA SetDescDesc ==
  ASSUME Inv, DescOwned, NEW p \in Ptr, heap[p] \in Records, NEW text, SetDesc(p, text)
  PROVE  DescOwned'
<1>1. heap[p] # NULL /\ NULL \notin live /\ NULL \notin Blocks
  BY RecordAssumption, NullAssumption DEF Inv, TypeOK
<1>2. ASSUME NEW b \in Blocks \cup {NULL}, b \notin live \ {heap[p].desc},
             heap' = [heap EXCEPT ![p].desc = b],
             live' = (live \ {heap[p].desc}) \cup ({b} \ {NULL}),
             UNCHANGED dangling
      PROVE  DescOwned'
  <2>1. heap'[p] \in Records /\ heap'[p].desc = b
    BY <1>2 DEF Inv, TypeOK, Records
  <2>2. \A o \in Ptr \ {p} : heap'[o] = heap[o]
    BY <1>2 DEF Inv, TypeOK
  <2> QED BY <2>1, <2>2, <1>1, <1>2, ReplaceDesc, RecordAssumption
<1>3. CASE /\ heap' = [heap EXCEPT ![p].desc = NULL]
           /\ live' = live \ {heap[p].desc} /\ UNCHANGED dangling
  BY <1>3, <1>1, <1>2
<1>4. ASSUME NEW b \in Blocks \ (live \ {heap[p].desc}),
             heap' = [heap EXCEPT ![p].desc = b],
             live' = (live \ {heap[p].desc}) \cup {b},
             UNCHANGED dangling
      PROVE  DescOwned'
  <2>1. {b} = {b} \ {NULL}
    BY <1>1
  <2> QED BY <1>4, <2>1, <1>2
<1>5. ASSUME live' = live \ {heap[p].desc},
             dangling' = dangling \cup ({heap[p].desc} \ {NULL}),
             UNCHANGED heap
      PROVE  DescOwned'
  <2>1. ASSUME NEW o \in Ptr, heap[o] # NULL, heap[o].desc \notin dangling' \cup {NULL}
        PROVE  /\ heap[o].desc \in live'
               /\ \A x \in Ptr \ {o} : heap[x] # NULL => heap[x].desc # heap[o].desc
    <3>1. heap[o].desc \notin dangling \cup {NULL} /\ heap[o].desc # heap[p].desc
      BY <2>1, <1>5
    <3> QED BY <3>1, <2>1, <1>5 DEF DescOwned, DescOnce
  <2>2. DescKept'
    BY <1>5 DEF DescOwned, DescKept
  <2> QED BY <2>1, <2>2, <1>5 DEF DescOwned, DescOnce
<1> QED BY <1>3, <1>4, <1>5 DEF SetDesc

\* Every call keeps descriptions owned.
LEMMA NextDesc == Inv /\ DescOwned /\ [Next]_vars => DescOwned'
<1> SUFFICES ASSUME Inv, DescOwned, [Next]_vars PROVE DescOwned'
  OBVIOUS
<1>1. ASSUME NEW d \in Details, NEW m \in Macs, NEW l \in L3Infos, Register(d, m, l)
      PROVE  DescOwned'
  <2> DEFINE r == [det |-> d, mac |-> m, l3 |-> l, desc |-> NULL]
  <2>1. r \in Records
    BY DEF Records
  <2>2. Insert(r)
    BY <1>1 DEF Register
  <2> HIDE DEF r
  <2> QED BY <2>1, <2>2, InsertDesc
<1>2. ASSUME NEW d \in Details, Deregister(d)
      PROVE  DescOwned'
  BY <1>2, CleanupDesc DEF Deregister
<1>3. ASSUME NEW c \in Clients, NEW q \in QTypes, NEW d \in Details, GetInterfaceInfo(c, q, d)
      PROVE  DescOwned'
  BY <1>3 DEF GetInterfaceInfo, DescOwned, DescOnce, DescKept
<1>4. ASSUME NEW c \in Clients, DeregisterCopy(c)
      PROVE  DescOwned'
  <2>1. copy[c].det \in Details
    BY <1>4 DEF DeregisterCopy, Inv, TypeOK, Records
  <2> QED BY <1>4, <2>1, CleanupDesc DEF DeregisterCopy
<1>5. ASSUME NEW c \in Clients, RegisterCopy(c)
      PROVE  DescOwned'
  <2>1. PICK r \in Records : Insert(r)
    BY <1>5, CopyInserted
  <2> QED BY <2>1, InsertDesc
<1>6. ASSUME NEW p \in Ptr, NEW r \in Records, heap[p] \in Records,
             heap' = [heap EXCEPT ![p] = r], r.desc = heap[p].desc
      PROVE  SameDescs
  BY <1>6, RecordAssumption DEF SameDescs, Inv, TypeOK
<1>7. ASSUME NEW d \in Details, NEW m \in Macs, UpdateIntfMac(d.if_index, m)
      PROVE  DescOwned'
  <2>1. SameDescs
    BY <1>7, <1>6, MacStep
  <2> QED BY <2>1, <1>7, KeepDescs DEF UpdateIntfMac
<1>8. ASSUME NEW d \in Details, NEW l \in L3Infos,
             UpdateRouterIntfInfo(<<d.vrf_id, d.if_index>>, l)
      PROVE  DescOwned'
  <2>1. SameDescs
    BY <1>8, <1>6, L3Step
  <2> QED BY <2>1, <1>8, KeepDescs DEF UpdateRouterIntfInfo
<1>9. ASSUME NEW q \in QTypes, NEW d \in Details, NEW t \in {"blank", "text"},
             UpdateIntfDesc(q, d, t)
      PROVE  DescOwned'
  <2>1. Locate(q, d) \in Ptr /\ heap[Locate(q, d)] \in Records
    BY <1>9, LocateFinds DEF UpdateIntfDesc
  <2> QED BY <1>9, <2>1, SetDescDesc DEF UpdateIntfDesc
<1>10. CASE UNCHANGED vars
  BY <1>10 DEF vars, DescOwned, DescOnce, DescKept
<1> QED
  BY <1>1, <1>2, <1>3, <1>4, <1>5, <1>7, <1>8, <1>9, <1>10 DEF Next

\* Whatever allocations fail and whatever pointers come back with registered
\* copies, a description pointer that is no dangling address is an allocated
\* block of that record alone, and no description is leaked: a freed address
\* harms the records that hold it and no others.
THEOREM DescriptionsOwned == Spec => []DescOwned
<1>1. Init => DescOwned
  BY DEF Init, DescOwned, DescOnce, DescKept
<1>2. Inv /\ DescOwned /\ [Next]_vars => DescOwned'
  BY NextDesc
<1> QED BY <1>1, <1>2, InitInv, NextInv, PTL DEF Spec

-----------------------------------------------------------------------------
(* One set of interfaces *)

\* The interfaces are what the allocated records show.
LEMMA InInterfaces ==
  \A x : x \in interfaces <=> \E p \in Ptr : heap[p] # NULL /\ x = Public(heap[p])
BY DEF interfaces

\* The same after a step.
LEMMA InInterfacesNext ==
  \A x : x \in interfaces' <=> \E p \in Ptr : heap'[p] # NULL /\ x = Public(heap'[p])
BY DEF interfaces, Public

\* A record shows its details, MAC address and router interface.
LEMMA PublicType ==
  ASSUME NEW r \in Records
  PROVE  /\ Public(r) \in Registry!Interfaces
         /\ Public(r).det = r.det /\ Public(r).mac = r.mac /\ Public(r).l3 = r.l3
         /\ r.det \in Details
BY DEF Public, Records, Registry!Interfaces

\* Two records never show the same interface: they would share the IF key.
LEMMA OneRecordEach ==
  ASSUME Inv, NEW p \in Ptr, NEW o \in Ptr, heap[p] # NULL, heap[o] # NULL,
         heap[p].det = heap[o].det
  PROVE  p = o
<1>1. heap[p] \in Records /\ heap[p].det \in Details /\ "IF" \in QTypes
  BY DEF Inv, TypeOK, Records, QTypes
<1>2. HasKey("IF", heap[p].det)
  BY <1>1, IfKey
<1> QED BY <1>1, <1>2 DEF Inv, IndexConsistent, RecordsReachable

\* A search that finds nothing means that no interface has the key.
LEMMA NothingFound ==
  ASSUME Inv, NEW d \in Details, NEW i \in 1..7, Locate(AllQueries[i], d) = NULL
  PROVE  Registry!Found(i, d) = {}
<1> DEFINE q == AllQueries[i]
<1>1. q \in QTypes
  BY QueriesType
<1>2. ASSUME NEW p \in Ptr, heap[p] # NULL, SameKey(q, d, Public(heap[p]).det)
      PROVE  FALSE
  <2>1. Public(heap[p]).det = heap[p].det
    BY <1>2, PublicType DEF Inv, TypeOK
  <2>2. /\ HasKey(q, d) /\ HasKey(q, heap[p].det)
        /\ MkKey(q, heap[p].det) = MkKey(q, d)
    BY <1>2, <2>1 DEF SameKey
  <2>3. if_mappings[q][MkKey(q, d)] = p
    BY <1>1, <1>2, <2>2 DEF Inv, IndexConsistent, RecordsReachable
  <2> QED BY <2>2, <2>3, NullAssumption DEF Locate
<1> HIDE DEF q
<1>3. \A r \in interfaces : ~SameKey(q, d, r.det)
  BY <1>2, InInterfaces
<1> QED BY <1>3 DEF Registry!Found, q

\* The queries are seven.
LEMMA QueriesLen == Len(AllQueries) = 7
BY DEF AllQueries

\* dn_hal_if_register (REG) enters one interface, or none.
LEMMA InsertEnters ==
  ASSUME Inv, Inv', NEW r \in Records, Insert(r), UNCHANGED copy
  PROVE  Registry!RegistryNext \/ UNCHANGED Registry!registryVars
<1>0. handed' = handed
  BY DEF handed, Public
<1>1. CASE UNCHANGED heap
  BY <1>0, <1>1 DEF interfaces, Public, Registry!registryVars
<1>2. ASSUME ~Conflict(r.det), NEW p \in Ptr, heap[p] = NULL,
             heap' = [heap EXCEPT ![p] = r]
      PROVE  Registry!Enter(Public(r)) /\ Public(r) \in interfaces'
  <2>1. /\ heap'[p] = r /\ r # NULL
        /\ \A o \in Ptr \ {p} : heap'[o] = heap[o]
    BY <1>2, RecordAssumption DEF Inv, TypeOK
  <2>2. interfaces' = interfaces \cup {Public(r)}
    <3>1. ASSUME NEW x PROVE x \in interfaces' <=> x \in interfaces \/ x = Public(r)
      BY <1>2, <2>1, InInterfaces, InInterfacesNext
    <3> QED BY <3>1
  <2>3. \A i \in 1..7 : Locate(AllQueries[i], r.det) = NULL
    BY <1>2, QueriesType DEF Conflict
  <2>4. \A i \in 1..7 : Registry!Found(i, r.det) = {}
    BY <2>3, NothingFound, PublicType
  <2> QED BY <1>0, <2>2, <2>4, PublicType, QueriesLen DEF Registry!Enter
<1> QED BY <1>1, <1>2 DEF Insert, Registry!RegistryNext

\* dn_hal_if_register (DEREG) withdraws the interface that the first query
\* finds, or none.
LEMMA CleanupWithdraws ==
  ASSUME Inv, Inv', NEW d \in Details, Cleanup(d), UNCHANGED copy
  PROVE  \/ \E r \in interfaces : Registry!FirstFound(d, r) /\ Registry!Withdraw(r)
         \/ UNCHANGED heap /\ UNCHANGED Registry!registryVars
<1>0. handed' = handed
  BY DEF handed, Public
<1>1. CASE UNCHANGED heap
  BY <1>0, <1>1 DEF interfaces, Public, Registry!registryVars
<1>2. ASSUME NEW i \in 1..7, FirstHit(i, d), Remove(Locate(AllQueries[i], d), d.vrf_id)
      PROVE  \E r \in interfaces : Registry!FirstFound(d, r) /\ Registry!Withdraw(r)
  <2> DEFINE p == Locate(AllQueries[i], d)
             r == heap[p]
             x == Public(r)
  <2>1. /\ p \in Ptr /\ r \in Records
        /\ HasKey(AllQueries[i], d) /\ HasKey(AllQueries[i], r.det)
        /\ MkKey(AllQueries[i], r.det) = MkKey(AllQueries[i], d)
    BY <1>2, QueriesType, LocateFinds DEF FirstHit
  <2>2. r # NULL /\ x.det = r.det
    BY <2>1, RecordAssumption, PublicType
  <2>3. heap' = [heap EXCEPT ![p] = NULL]
    BY <1>2 DEF Remove
  <2> HIDE DEF p
  <2>4. heap'[p] = NULL /\ \A o \in Ptr \ {p} : heap'[o] = heap[o]
    BY <2>1, <2>3 DEF Inv, TypeOK
  <2>5. ASSUME NEW o \in Ptr \ {p}, heap[o] # NULL PROVE Public(heap[o]) # x
    <3>1. Public(heap[o]).det = heap[o].det
      BY <2>5, PublicType DEF Inv, TypeOK
    <3> QED BY <2>1, <2>2, <2>5, <3>1, OneRecordEach
  <2>6. x \in interfaces
    BY <2>1, <2>2, InInterfaces
  <2> HIDE DEF x
  <2>7. interfaces' = interfaces \ {x}
    <3>1. ASSUME NEW y PROVE y \in interfaces' <=> y \in interfaces /\ y # x
      BY <2>1, <2>4, <2>5, InInterfaces, InInterfacesNext DEF x
    <3> QED BY <3>1
  <2>8. x \in Registry!Found(i, d)
    BY <2>1, <2>2, <2>6 DEF Registry!Found, SameKey
  <2>9. \A j \in 1..(i - 1) : Registry!Found(j, d) = {}
    <3>1. \A j \in 1..(i - 1) : j \in 1..7 /\ Locate(AllQueries[j], d) = NULL
      BY <1>2 DEF FirstHit
    <3> QED BY <3>1, NothingFound
  <2>10. Registry!FirstFound(d, x)
    BY <2>8, <2>9, QueriesLen DEF Registry!FirstFound
  <2>11. Registry!Withdraw(x)
    BY <1>0, <2>7 DEF Registry!Withdraw
  <2> QED BY <2>6, <2>10, <2>11
<1> QED BY <1>1, <1>2 DEF Cleanup

\* Replacing one record replaces one interface, or none when only the
\* description changes.
LEMMA ReplacesOne ==
  ASSUME Inv, Inv', UNCHANGED copy,
         NEW p \in Ptr, heap[p] \in Records, NEW r \in Records, r.det = heap[p].det,
         heap' = [heap EXCEPT ![p] = r]
  PROVE  /\ Public(heap[p]) \in interfaces /\ Public(r) \in interfaces'
         /\ interfaces' = (interfaces \ {Public(heap[p])}) \cup {Public(r)}
         /\ handed' = handed
<1>0. handed' = handed
  BY DEF handed, Public
<1> DEFINE x == Public(heap[p])
           y == Public(r)
<1>1. /\ heap[p] # NULL /\ r # NULL /\ heap'[p] = r
      /\ \A o \in Ptr \ {p} : heap'[o] = heap[o]
  BY RecordAssumption DEF Inv, TypeOK
<1>2. ASSUME NEW o \in Ptr \ {p}, heap[o] # NULL PROVE Public(heap[o]) # x
  <2>1. Public(heap[o]).det = heap[o].det /\ x.det = heap[p].det
    BY <1>2, PublicType DEF Inv, TypeOK
  <2> QED BY <1>1, <1>2, <2>1, OneRecordEach
<1>3. x \in interfaces /\ y \in interfaces'
  BY <1>1, InInterfaces, InInterfacesNext
<1> HIDE DEF x, y
<1>4. interfaces' = (interfaces \ {x}) \cup {y}
  <2>1. ASSUME NEW z PROVE z \in interfaces' <=> (z \in interfaces /\ z # x) \/ z = y
    BY <1>1, <1>2, InInterfaces, InInterfacesNext DEF x, y
  <2> QED BY <2>1
<1> QED BY <1>0, <1>3, <1>4 DEF x, y

\* dn_hal_update_intf_mac changes the MAC address of an interface of VRF 0.
LEMMA MacUpdates ==
  ASSUME Inv, Inv', NEW d \in Details, NEW m \in Macs, UpdateIntfMac(d.if_index, m)
  PROVE  Registry!RegistryNext
<1> DEFINE k == <<0, d.if_index>>
           p == if_mappings["IF"][k]
           r == [heap[p] EXCEPT !.mac = m]
<1>1. /\ k \in Keys("IF") /\ p # NULL /\ "IF" \in QTypes
      /\ heap' = [heap EXCEPT ![p] = r] /\ UNCHANGED copy
  BY DEF UpdateIntfMac, QTypes
<1>2. /\ p \in Ptr /\ heap[p] \in Records
      /\ MkKey("IF", heap[p].det) = k
  <2>1. /\ if_mappings["IF"] \in [Keys("IF") -> Ptr \cup {NULL}]
        /\ heap \in [Ptr -> Records \cup {NULL}]
    BY <1>1 DEF Inv, TypeOK
  <2>2. heap[p] # NULL /\ MkKey("IF", heap[p].det) = k
    BY <1>1 DEF Inv, IndexConsistent, EntriesValid
  <2>3. p \in Ptr
    BY <1>1, <2>1
  <2> QED BY <2>1, <2>2, <2>3
<1>3. r \in Records /\ r.det = heap[p].det /\ r.l3 = heap[p].l3
  BY <1>2 DEF Records
<1>4. heap[p].det.vrf_id = 0
  BY <1>2, IfKey, PublicType
<1> HIDE DEF p, r
<1>5. /\ Public(heap[p]) \in interfaces /\ Public(r) \in interfaces'
      /\ interfaces' = (interfaces \ {Public(heap[p])}) \cup {Public(r)}
      /\ handed' = handed
  BY <1>1, <1>2, <1>3, ReplacesOne
<1>6. Registry!Update(Public(heap[p]), Public(r))
  BY <1>2, <1>3, <1>4, <1>5, PublicType DEF Registry!Update
<1> QED BY <1>5, <1>6 DEF Registry!RegistryNext

\* nas_cmn_update_router_intf_info changes the router interface of one.
LEMMA L3Updates ==
  ASSUME Inv, Inv', NEW d \in Details, NEW l \in L3Infos,
         UpdateRouterIntfInfo(<<d.vrf_id, d.if_index>>, l)
  PROVE  Registry!RegistryNext
<1> DEFINE p == if_mappings["IF"][<<d.vrf_id, d.if_index>>]
           r == [heap[p] EXCEPT !.l3 = l]
<1>1. p # NULL /\ heap' = [heap EXCEPT ![p] = r] /\ UNCHANGED copy
  BY DEF UpdateRouterIntfInfo
<1>2. "IF" \in QTypes /\ <<d.vrf_id, d.if_index>> \in Keys("IF")
  BY MkKeyType, IfKey DEF QTypes
<1>3. p \in Ptr /\ heap[p] \in Records
  <2>1. /\ if_mappings["IF"] \in [Keys("IF") -> Ptr \cup {NULL}]
        /\ heap \in [Ptr -> Records \cup {NULL}]
    BY <1>2 DEF Inv, TypeOK
  <2>2. heap[p] # NULL
    BY <1>1, <1>2 DEF Inv, IndexConsistent, EntriesValid
  <2>3. p \in Ptr
    BY <1>1, <1>2, <2>1
  <2> QED BY <2>1, <2>2, <2>3
<1>4. r \in Records /\ r.det = heap[p].det /\ r.mac = heap[p].mac
  BY <1>3 DEF Records
<1> HIDE DEF p, r
<1>5. /\ Public(heap[p]) \in interfaces /\ Public(r) \in interfaces'
      /\ interfaces' = (interfaces \ {Public(heap[p])}) \cup {Public(r)}
      /\ handed' = handed
  BY <1>1, <1>3, <1>4, ReplacesOne
<1>6. Registry!Update(Public(heap[p]), Public(r))
  BY <1>3, <1>4, <1>5, PublicType DEF Registry!Update
<1> QED BY <1>5, <1>6 DEF Registry!RegistryNext

\* dn_hal_update_intf_desc changes nothing that the interface shows.
LEMMA DescUnseen ==
  ASSUME Inv, Inv', NEW q \in QTypes, NEW d \in Details, NEW t, UpdateIntfDesc(q, d, t)
  PROVE  UNCHANGED Registry!registryVars
<1> DEFINE p == Locate(q, d)
<1>1. p \in Ptr /\ heap[p] \in Records /\ SetDesc(p, t) /\ UNCHANGED copy
  BY LocateFinds DEF UpdateIntfDesc
<1> HIDE DEF p
<1>2. CASE UNCHANGED heap
  BY <1>1, <1>2 DEF interfaces, handed, Public, Registry!registryVars
<1>3. ASSUME NEW b \in Blocks \cup {NULL}, heap' = [heap EXCEPT ![p].desc = b]
      PROVE  UNCHANGED Registry!registryVars
  <2> DEFINE r == [heap[p] EXCEPT !.desc = b]
  <2>1. /\ r \in Records /\ r.det = heap[p].det /\ r.mac = heap[p].mac
        /\ r.l3 = heap[p].l3 /\ heap' = [heap EXCEPT ![p] = r]
    BY <1>1, <1>3 DEF Records
  <2>2. Public(r) = Public(heap[p])
    BY <2>1 DEF Public
  <2> HIDE DEF r
  <2>3. /\ Public(heap[p]) \in interfaces
        /\ interfaces' = (interfaces \ {Public(heap[p])}) \cup {Public(r)}
        /\ handed' = handed
    BY <1>1, <2>1, ReplacesOne
  <2> QED BY <2>2, <2>3 DEF Registry!registryVars
<1> QED BY <1>1, <1>2, <1>3 DEF SetDesc

\* dn_hal_get_interface_info hands out an interface as it is.
LEMMA SearchGives ==
  ASSUME Inv, NEW c \in Clients, NEW q \in QTypes, NEW d \in Details,
         GetInterfaceInfo(c, q, d)
  PROVE  Registry!RegistryNext
<1> DEFINE key == [d EXCEPT !.port_mapped = d.port_mapped \/ q = "PORT"]
           p   == Locate(q, key)
<1>1. (d.port_mapped \/ q = "PORT") \in BOOLEAN
  OBVIOUS
<1>2. p # NULL /\ copy' = [copy EXCEPT ![c] = heap[p]] /\ UNCHANGED heap
  BY DEF GetInterfaceInfo
<1>3. MkKey(q, key) = MkKey(q, d) /\ MkKey(q, d) \in Keys(q)
  BY <1>1, MkKeyType
<1>4. p = if_mappings[q][MkKey(q, d)]
  BY <1>2, <1>3 DEF Locate
<1>5. p \in Ptr /\ heap[p] # NULL
  BY <1>2, <1>3, <1>4 DEF Inv, TypeOK, IndexConsistent, EntriesValid
<1> HIDE DEF p
<1>6. Public(heap[p]) \in interfaces
  BY <1>5, InInterfaces
<1>7. handed' = [handed EXCEPT ![c] = Public(heap[p])]
  <2>1. \A e \in Clients : copy'[e] = IF e = c THEN heap[p] ELSE copy[e]
    BY <1>2 DEF Inv, TypeOK
  <2>2. handed' = [e \in Clients |-> IF copy'[e] = NULL THEN NULL ELSE Public(copy'[e])]
    BY DEF handed, Public
  <2>3. ASSUME NEW e \in Clients
        PROVE  (IF copy'[e] = NULL THEN NULL ELSE Public(copy'[e]))
               = IF e = c THEN Public(heap[p]) ELSE handed[e]
    BY <1>5, <2>1 DEF handed
  <2>4. [handed EXCEPT ![c] = Public(heap[p])]
        = [e \in Clients |-> IF e = c THEN Public(heap[p]) ELSE handed[e]]
    BY DEF handed
  <2> QED BY <2>2, <2>3, <2>4
<1>8. interfaces' = interfaces
  BY <1>2 DEF interfaces, Public
<1>9. Registry!Give(c, Public(heap[p]))
  BY <1>7, <1>8 DEF Registry!Give
<1> QED BY <1>6, <1>9 DEF Registry!RegistryNext

\* Every call is a step of the registry, or none.
LEMMA NextIsRegistry ==
  ASSUME Inv, Inv', [Next]_vars
  PROVE  [Registry!RegistryNext]_(Registry!registryVars)
<1>1. ASSUME NEW d \in Details, NEW m \in Macs, NEW l \in L3Infos, Register(d, m, l)
      PROVE  Registry!RegistryNext \/ UNCHANGED Registry!registryVars
  <2>1. [det |-> d, mac |-> m, l3 |-> l, desc |-> NULL] \in Records
    BY DEF Records
  <2> QED BY <1>1, <2>1, InsertEnters DEF Register
<1>2. ASSUME NEW d \in Details, Deregister(d)
      PROVE  Registry!RegistryNext \/ UNCHANGED Registry!registryVars
  BY <1>2, CleanupWithdraws DEF Deregister, Registry!RegistryNext
<1>3. ASSUME NEW c \in Clients, DeregisterCopy(c)
      PROVE  Registry!RegistryNext \/ UNCHANGED Registry!registryVars
  <2>1. copy[c].det \in Details
    BY <1>3 DEF DeregisterCopy, Inv, TypeOK, Records
  <2> QED BY <1>3, <2>1, CleanupWithdraws DEF DeregisterCopy, Registry!RegistryNext
<1>4. ASSUME NEW c \in Clients, RegisterCopy(c)
      PROVE  Registry!RegistryNext \/ UNCHANGED Registry!registryVars
  <2>1. PICK r \in Records : Insert(r) /\ UNCHANGED copy
    BY <1>4, CopyInserted
  <2> QED BY <2>1, InsertEnters
<1>5. CASE UNCHANGED vars
  BY <1>5 DEF vars, interfaces, handed, Public, Registry!registryVars
<1> QED BY <1>1, <1>2, <1>3, <1>4, <1>5, SearchGives, MacUpdates, L3Updates, DescUnseen
        DEF Next

\* The records and search maps of hal_if_mapping.cpp implement one set of
\* interfaces with keys of their own, for any interfaces, threads, addresses
\* and values, and whatever age the copies have that threads pass back.
THEOREM RefinesRegistry == Spec => ImplementsRegistry
<1>1. Init => Registry!RegistryInit
  BY DEF Init, Registry!RegistryInit, interfaces, handed
<1>2. Inv /\ Inv' /\ [Next]_vars => [Registry!RegistryNext]_(Registry!registryVars)
  BY NextIsRegistry
<1> QED BY <1>1, <1>2, InitInv, NextInv, PTL DEF Spec, ImplementsRegistry

\* A removal takes the interface that the first query in order finds, also
\* when the caller's details name several, for any interfaces.
THEOREM RemovalsNamed == Spec => RemovesFirstFound
<1>1. ASSUME Inv, Inv', [Next]_vars
      PROVE  [Removal => \A d \in Details : Deregister(d) =>
                \E r \in interfaces : Registry!FirstFound(d, r) /\ Registry!Withdraw(r)]_vars
  <2> SUFFICES ASSUME Removal, NEW d \in Details, Deregister(d)
               PROVE  \E r \in interfaces : Registry!FirstFound(d, r) /\ Registry!Withdraw(r)
    OBVIOUS
  <2>1. ~UNCHANGED heap
    BY DEF Removal
  <2> QED BY <1>1, <2>1, CleanupWithdraws DEF Deregister
<1>2. Inv /\ Inv' /\ [Next]_vars =>
        [Removal => \A d \in Details : Deregister(d) =>
           \E r \in interfaces : Registry!FirstFound(d, r) /\ Registry!Withdraw(r)]_vars
  BY <1>1
<1> QED BY <1>2, InitInv, NextInv, PTL DEF Spec, RemovesFirstFound

=============================================================================
